---------------------------- MODULE Reinsurance ----------------------------
(***************************************************************************)
(* ReinsuranceService: a cedant's programs and the cessions of gross       *)
(* losses through their layers.  An AGGREGATE layer fills up over many     *)
(* losses, so its running state is stored: cede reads it, computes, writes *)
(* it back layer by layer as absolute values and then records the cession. *)
(* Every request is a process and each awaited repository call is a step.  *)
(* Amounts are of the program's currency: cede refuses any other.          *)
(***************************************************************************)
EXTENDS Money, Sequences

CONSTANTS
  Organisation,  \* callers that hold the SYNDICATE role
  Program,       \* ids of programs
  Cession,       \* ids of cessions
  Request,       \* slots for requests that are handled concurrently
  Placements,    \* the layers, in their order, that a caller asks for
  Losses,        \* the gross losses that are ceded
  Full,          \* 10_000 basis points
  Crashes,       \* TRUE if a process may die in the middle of a handler
  None           \* no row, no cap

VARIABLES
  program,    \* the ReinsuranceProgram rows: owner and layers
  consumed,   \* the aggregate state of each layer: gross and ceded so far
  cession,    \* the ReinsuranceCession rows
  audit,      \* the AuditRecords, as <<action, subject>>
  req,        \* where each request is in its handler, and what it has read
  drawn,      \* history: the ids that cessions have drawn
  disturbed,  \* history: programs on which cessions overlapped or one died
  died        \* history: cessions whose handler died before they were recorded

vars == <<program, consumed, cession, audit, req, drawn, disturbed, died>>

QuotaShare == [kind : {"QUOTA_SHARE"}, share : 1 .. Full, limit : Nat \cup {None}]
Slice      == [kind : {"EXCESS_OF_LOSS", "AGGREGATE"}, attach : Nat, limit : Nat \ {0}]
(* requireValidLayerParams *)
Layer == QuotaShare \cup Slice

ASSUME ReinsuranceAssumption ==
  /\ Full \in Nat \ {0}
  /\ Placements \subseteq Seq(Layer)
  /\ Losses \subseteq Nat \ {0}
  /\ Crashes \in BOOLEAN
  /\ None \notin Nat \cup Program

(* StoredReinsuranceProgram *)
ProgramRow == [owner : Organisation, layers : Seq(Layer)]
ASSUME RowAssumption ==
  /\ None \notin ProgramRow
  /\ \A layers \in Placements : None \notin [program : Program, rem : [0 .. Len(layers) -> Nat]]

Lowest(x, y) == IF x <= y THEN x ELSE y
Above(x, floor) == IF x <= floor THEN 0 ELSE x - floor

-----------------------------------------------------------------------------
(* packages/domain/src/reinsurance.ts *)

(* applyQuotaShare: a proportion of the loss, up to the cap if there is one. *)
ApplyQuotaShare(loss, layer) ==
  LET raw == ScaleMoney(loss, layer.share, Full)
  IN  IF layer.limit = None THEN raw ELSE Lowest(raw, layer.limit)

(* applyExcessOfLoss: the slice of one loss above the attachment point. *)
ApplyExcessOfLoss(loss, layer) == Lowest(Above(loss, layer.attach), layer.limit)

(* applyAggregate: what this loss adds to the slice of all losses so far. *)
ApplyAggregate(loss, layer, state) ==
  LET potential == Above(state.gross + loss, layer.attach) - Above(state.gross, layer.attach)
  IN  Above(Lowest(potential, layer.limit - state.ceded), 0)

Ceded(loss, layer, state) ==
  CASE layer.kind = "QUOTA_SHARE"    -> ApplyQuotaShare(loss, layer)
    [] layer.kind = "EXCESS_OF_LOSS" -> ApplyExcessOfLoss(loss, layer)
    [] layer.kind = "AGGREGATE"      -> ApplyAggregate(loss, layer, state)

(***************************************************************************)
(* applyReinsuranceProgram(gross, layers): rem[i] is what layer i leaves   *)
(* retained, and each layer is presented with what the one before it left. *)
(* There is exactly one such function; it is the result of the loop.       *)
(***************************************************************************)
ApplyProgram(gross, layers, state) ==
  {rem \in [0 .. Len(layers) -> 0 .. gross] :
     /\ rem[0] = gross
     /\ \A i \in 1 .. Len(layers) :
          rem[i] = rem[i - 1] - Ceded(rem[i - 1], layers[i], state[i])}

CededBy(rem, i) == rem[i - 1] - rem[i]

(* Mutant of NextState: only the present loss is counted. *)
NextStateAlone(state, rem, i) == [gross |-> rem[i - 1], ceded |-> CededBy(rem, i)]

(* The next state of an aggregate layer that is presented with a loss. *)
NextState(state, rem, i) ==
  [gross |-> state.gross + rem[i - 1], ceded |-> state.ceded + CededBy(rem, i)]

-----------------------------------------------------------------------------
(* How a handler moves on. *)

Idle == [pc |-> "idle", program |-> None, rem |-> None, state |-> None,
         todo |-> {}, cession |-> None]

At(r, pc) == req[r].pc = pc
Become(r, q) == req' = [req EXCEPT ![r] = q]
Begin(r, q) == At(r, "idle") /\ Become(r, q)

Exists(p) == program[p] # None
Layers(p) == program[p].layers
Aggregates(p) == {i \in DOMAIN Layers(p) : Layers(p)[i].kind = "AGGREGATE"}
(* randomUUID gives an id that was never drawn before. *)
Fresh == CHOOSE c \in Cession : c \notin drawn
Ceding(r) == req[r].pc \in {"cede.layers", "cede.record"}

-----------------------------------------------------------------------------
(* repository.createProgram: one insert with its layers, whose state        *)
(* starts at zero.                                                         *)
InsertProgram(p, org, layers) ==
  /\ program' = [program EXCEPT ![p] = [owner |-> org, layers |-> layers]]
  /\ consumed' = [consumed EXCEPT ![p] = [i \in DOMAIN layers |-> [gross |-> 0, ceded |-> 0]]]

CreateProgram(r, p, org, layers) ==
  /\ ~ Exists(p)
  /\ InsertProgram(p, org, layers)
  /\ Begin(r, [Idle EXCEPT !.pc = "create.audit", !.program = p])
  /\ UNCHANGED <<cession, audit, drawn, disturbed, died>>

(* cede up to its first write: the program is found with its layers, the   *)
(* caller must own it, and the result is computed from the state read.     *)
CedeRead(r, p, org, gross) ==
  /\ Exists(p)
  /\ program[p].owner = org
  /\ drawn # Cession
  /\ \E rem \in ApplyProgram(gross, Layers(p), consumed[p]) :
       Begin(r, [Idle EXCEPT !.program = p, !.rem = rem, !.state = consumed[p],
                   !.todo = Aggregates(p), !.cession = Fresh,
                   !.pc = IF Aggregates(p) = {} THEN "cede.record" ELSE "cede.layers"])
  /\ drawn' = drawn \cup {Fresh}
  /\ disturbed' = IF \E s \in Request : Ceding(s) /\ req[s].program = p
                  THEN disturbed \cup {p} ELSE disturbed
  /\ UNCHANGED <<program, consumed, cession, audit, died>>

(* Mutant of UpdateLayerAggregateState: only the gross is written. *)
UpdateLayerGross(p, i, state) == consumed' = [consumed EXCEPT ![p][i].gross = state.gross]

(* updateLayerAggregateState: the new values, whatever the row holds now.  *)
UpdateLayerAggregateState(p, i, state) == consumed' = [consumed EXCEPT ![p][i] = state]

(* Mutant of CedeLayer: the handler ends with the loop. *)
CedeLayerOnly(r) ==
  LET q == req[r] IN
  /\ At(r, "cede.layers")
  /\ \E i \in q.todo :
       /\ \A j \in q.todo : i <= j
       /\ UpdateLayerAggregateState(q.program, i, NextState(q.state[i], q.rem, i))
       /\ Become(r, IF q.todo = {i} THEN Idle ELSE [q EXCEPT !.todo = q.todo \ {i}])
  /\ UNCHANGED <<program, cession, audit, drawn, disturbed, died>>

(* One turn of the loop that writes the states back, in layer order.       *)
CedeLayer(r) ==
  LET q == req[r] IN
  /\ At(r, "cede.layers")
  /\ \E i \in q.todo :
       /\ \A j \in q.todo : i <= j
       /\ UpdateLayerAggregateState(q.program, i, NextState(q.state[i], q.rem, i))
       /\ Become(r, [q EXCEPT !.todo = q.todo \ {i},
                      !.pc = IF q.todo = {i} THEN "cede.record" ELSE "cede.layers"])
  /\ UNCHANGED <<program, cession, audit, drawn, disturbed, died>>

(* recordCession *)
RecordCession(c, p, rem) == cession' = [cession EXCEPT ![c] = [program |-> p, rem |-> rem]]

CedeRecord(r) ==
  /\ At(r, "cede.record")
  /\ RecordCession(req[r].cession, req[r].program, req[r].rem)
  /\ Become(r, [Idle EXCEPT !.pc = "cede.audit", !.cession = req[r].cession])
  /\ UNCHANGED <<program, consumed, audit, drawn, disturbed, died>>

(* audit.record, the last write of both handlers. *)
Record(r) ==
  /\ req[r].pc \in {"create.audit", "cede.audit"}
  /\ audit' = audit \cup {IF At(r, "create.audit") THEN <<"reinsurance.program.create", req[r].program>>
                          ELSE <<"reinsurance.cede", req[r].cession>>}
  /\ Become(r, Idle)
  /\ UNCHANGED <<program, consumed, cession, drawn, disturbed, died>>

(* The process dies, or a write fails, between two calls: nothing that was *)
(* written is undone, and nothing takes the handler up again.              *)
Crash(r) ==
  /\ Crashes
  /\ ~ At(r, "idle")
  /\ Become(r, Idle)
  /\ IF Ceding(r) THEN /\ disturbed' = disturbed \cup {req[r].program}
                        /\ died' = died \cup {req[r].cession}
                   ELSE UNCHANGED <<disturbed, died>>
  /\ UNCHANGED <<program, consumed, cession, audit, drawn>>

Step(r) == CedeLayer(r) \/ CedeRecord(r) \/ Record(r)

Call(r) ==
  \E p \in Program, org \in Organisation :
    \/ \E layers \in Placements : CreateProgram(r, p, org, layers)
    \/ \E gross \in Losses : CedeRead(r, p, org, gross)

Init ==
  /\ program = [p \in Program |-> None]
  /\ consumed = [p \in Program |-> <<>>]
  /\ cession = [c \in Cession |-> None]
  /\ audit = {}
  /\ req = [r \in Request |-> Idle]
  /\ drawn = {}
  /\ disturbed = {}
  /\ died = {}

Next == \E r \in Request : Call(r) \/ Step(r) \/ Crash(r)

Spec == Init /\ [][Next]_vars

-----------------------------------------------------------------------------
State == [gross : Nat, ceded : Nat]

(* Type invariant. *)
TypeOK ==
  /\ program \in [Program -> ProgramRow \cup {None}]
  /\ consumed \in [Program -> Seq(State)]
  /\ \A p \in Program : Exists(p) => DOMAIN consumed[p] = DOMAIN Layers(p)
  /\ DOMAIN cession = Cession
  /\ \A c \in Cession : cession[c] # None =>
       /\ cession[c].program \in Program /\ Exists(cession[c].program)
       /\ cession[c].rem \in [0 .. Len(Layers(cession[c].program)) -> Nat]
  /\ audit \subseteq {"reinsurance.program.create"} \X Program \cup {"reinsurance.cede"} \X Cession
  /\ DOMAIN req = Request
  /\ drawn \subseteq Cession
  /\ disturbed \subseteq Program
  /\ died \subseteq Cession

(* The amount that an aggregate layer with that many losses behind it has  *)
(* to have ceded: the slice between attachment and attachment + limit.     *)
Filled(layer, state) == state.ceded = Lowest(Above(state.gross, layer.attach), layer.limit)

(***************************************************************************)
(* The stored state of an aggregate layer is always that of some history   *)
(* of losses: what it has ceded is exactly the slice of what it has seen.  *)
(* Lost updates and crashes do not break this, since every write comes     *)
(* from one read of both amounts; so no layer's books show more than its   *)
(* limit.                                                                  *)
(***************************************************************************)
LayersFilled ==
  \A p \in Program : Exists(p) => \A i \in Aggregates(p) : Filled(Layers(p)[i], consumed[p][i])

(* What a cession has read is as consistent as what is stored, and so is   *)
(* what it is about to write.                                              *)
Consistent(q) ==
  /\ q.program \in Program /\ Exists(q.program) /\ q.cession \in Cession
  /\ q.todo \subseteq Aggregates(q.program)
  /\ q.state \in Seq(State) /\ DOMAIN q.state = DOMAIN Layers(q.program)
  /\ q.rem \in [0 .. Len(Layers(q.program)) -> Nat] /\ q.rem[0] > 0
  /\ \A i \in Aggregates(q.program) :
       /\ Filled(Layers(q.program)[i], q.state[i])
       /\ NextState(q.state[i], q.rem, i) \in State
       /\ Filled(Layers(q.program)[i], NextState(q.state[i], q.rem, i))

HandlersKnow ==
  \A r \in Request :
    /\ Ceding(r) => Consistent(req[r])
    /\ At(r, "create.audit") => req[r].program \in Program
    /\ At(r, "cede.audit") => req[r].cession \in Cession

(* Everything that holds whatever requests overlap and die. *)
Inv == TypeOK /\ LayersFilled /\ HandlersKnow

CessionsOn(p) == {c \in Cession : cession[c] # None /\ cession[c].program = p}

(* Handlers that have written layer i of p and not yet their cession. *)
Unrecorded(p, i) == {r \in Request : Ceding(r) /\ req[r].program = p /\ i \notin req[r].todo}

(* What the cessions of p, counting one that is about to be recorded, have *)
(* presented to its layer i, and what the layer has taken of it.           *)
PresentedTo(p, i) ==
  SumOver([c \in CessionsOn(p) |-> cession[c].rem[i - 1]], CessionsOn(p))
  + SumOver([r \in Unrecorded(p, i) |-> req[r].rem[i - 1]], Unrecorded(p, i))

TakenBy(p, i) ==
  SumOver([c \in CessionsOn(p) |-> CededBy(cession[c].rem, i)], CessionsOn(p))
  + SumOver([r \in Unrecorded(p, i) |-> CededBy(req[r].rem, i)], Unrecorded(p, i))

(***************************************************************************)
(* cede's comment: a second cession sees what the first one consumed.  As  *)
(* long as no two cessions of a program overlapped and none died half-way, *)
(* the state of a layer is the sum of the program's cessions; with         *)
(* LayersFilled, cessions stay within the aggregate limit.                 *)
(***************************************************************************)
StateIsSumOfCessions ==
  \A p \in Program \ disturbed : Exists(p) => \A i \in Aggregates(p) :
    consumed[p][i] = [gross |-> PresentedTo(p, i), ceded |-> TakenBy(p, i)]

(* A cession that has read its program is recorded in the end, whatever    *)
(* others do to the same layers meanwhile, unless its own process dies: so *)
(* nothing else leaves capacity consumed that no cession accounts for.     *)
CessionIsRecorded ==
  \A c \in Cession :
    (\E r \in Request : Ceding(r) /\ req[r].cession = c) ~> (cession[c] # None \/ c \in died)
=============================================================================

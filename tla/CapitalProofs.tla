---------------------------- MODULE CapitalProofs ----------------------------
(***************************************************************************)
(* Proofs about the capital of a syndicated risk: what of its losses the   *)
(* reinsurance programs take (Reinsurance, and its rows in memory), and    *)
(* what the vault locks, pays and returns (Vault).  They hold for any      *)
(* programs, layers and losses, with cessions that overlap and processes   *)
(* that die at any await, and for any bundles, participants and fees, with *)
(* a token that calls back at any transfer.                                *)
(***************************************************************************)
EXTENDS ReinsuranceInMemory, Vault, Sums, TLAPS

-----------------------------------------------------------------------------
(* Reinsurance: the layers of a program. *)

USE ReinsuranceAssumption, RowAssumption

(* An aggregate layer is a slice, and its limit is an amount. *)
LEMMA AggregateIsSlice ==
  ASSUME NEW layer \in Layer, layer.kind = "AGGREGATE"
  PROVE  layer.attach \in Nat /\ layer.limit \in Nat \ {0}
  BY DEF Layer, QuotaShare, Slice

(***************************************************************************)
(* applyAggregate keeps the books of a layer in order: what has been ceded *)
(* of all losses is the slice of their sum, when it was before this loss.  *)
(***************************************************************************)
LEMMA AggregateFills ==
  ASSUME NEW layer, layer.attach \in Nat, layer.limit \in Nat \ {0},
         NEW state \in State, NEW loss \in Nat, Filled(layer, state)
  PROVE  LET part == ApplyAggregate(loss, layer, state) IN
         /\ part \in Nat
         /\ Filled(layer, [gross |-> state.gross + loss, ceded |-> state.ceded + part])
<1>1. state.gross \in Nat /\ state.ceded \in Nat
  BY DEF State
<1> DEFINE before == Above(state.gross, layer.attach)
           after == Above(state.gross + loss, layer.attach)
           part == ApplyAggregate(loss, layer, state)
<1>2. before \in Nat /\ after \in Nat /\ before <= after
  BY <1>1 DEF Above
<1>3. state.ceded = Lowest(before, layer.limit)
  BY DEF Filled
<1>4. part = Above(Lowest(after - before, layer.limit - state.ceded), 0)
  BY DEF ApplyAggregate
<1> HIDE DEF before, after, part
<1>5. part \in Nat /\ state.ceded + part = Lowest(after, layer.limit)
  BY <1>1, <1>2, <1>3, <1>4 DEF Lowest, Above
<1>6. QED
  BY <1>5 DEF Filled, after, part

LEMMA InitInv == Init => Inv
<1> SUFFICES ASSUME Init PROVE Inv
  OBVIOUS
<1>1. TypeOK
  BY DEF Init, TypeOK, Exists
<1>2. LayersFilled /\ HandlersKnow
  BY DEF Init, LayersFilled, HandlersKnow, Exists, Ceding, At, Idle
<1>3. QED
  BY <1>1, <1>2 DEF Inv

(* What Inv says of one handler. *)
Knows(r) ==
  /\ Ceding(r) => Consistent(req[r])
  /\ At(r, "create.audit") => req[r].program \in Program
  /\ At(r, "cede.audit") => req[r].cession \in Cession

(* A program that is there stays as it is, so the other handlers know what *)
(* they knew, whatever is written to the layers.                           *)
LEMMA OthersKnow ==
  ASSUME Inv, NEW r \in Request, Knows(r)',
         \A s \in Request \ {r} : req'[s] = req[s],
         \A p \in Program : Exists(p) => program'[p] = program[p]
  PROVE  HandlersKnow'
<1>1. ASSUME NEW s \in Request PROVE Knows(s)'
  <2>1. CASE s = r
    BY <2>1
  <2>2. CASE s # r
    <3>1. Knows(s) /\ req'[s] = req[s]
      BY <2>2 DEF Inv, HandlersKnow, Knows
    <3>2. ASSUME Ceding(s) PROVE Consistent(req[s])'
      <4>1. Consistent(req[s])
        BY <3>1, <3>2 DEF Knows
      <4> DEFINE p == req[s].program
      <4>2. p \in Program /\ program'[p] = program[p] /\ req'[s].program = p
        BY <3>1, <4>1 DEF Consistent
      <4>3. QED
        BY <3>1, <4>1, <4>2 DEF Consistent, Exists, Aggregates, Layers
    <3>3. QED
      BY <3>1, <3>2 DEF Knows, Ceding, At
  <2>3. QED
    BY <2>1, <2>2
<1>2. QED
  BY <1>1 DEF HandlersKnow, Knows

LEMMA BecomeDoes ==
  ASSUME Inv, NEW r \in Request, NEW q, Become(r, q)
  PROVE  DOMAIN req' = Request /\ req'[r] = q /\ \A s \in Request \ {r} : req'[s] = req[s]
  BY DEF Become, Inv, TypeOK

-----------------------------------------------------------------------------
(* One lemma for each action. *)

LEMMA CreateProgramInv ==
  ASSUME Inv, NEW r \in Request, NEW p \in Program, NEW org \in Organisation,
         NEW layers \in Placements, CreateProgram(r, p, org, layers)
  PROVE  Inv'
<1>1. layers \in Seq(Layer) /\ DOMAIN layers = 1 .. Len(layers)
  OBVIOUS
<1>2. PICK new : new = [owner |-> org, layers |-> layers]
  OBVIOUS
<1>3. new \in ProgramRow /\ new # None /\ new.layers = layers
  <2>1. new \in ProgramRow /\ new.layers = layers
    BY <1>1, <1>2 DEF ProgramRow
  <2>2. QED
    BY <2>1
<1>4. PICK zero : zero = [i \in DOMAIN layers |-> [gross |-> 0, ceded |-> 0]]
  OBVIOUS
<1>5. zero \in Seq(State) /\ DOMAIN zero = DOMAIN layers
  BY <1>1, <1>4 DEF State
<1>6. PICK q : q = [Idle EXCEPT !.pc = "create.audit", !.program = p]
  OBVIOUS
<1>7. q.pc = "create.audit" /\ q.program = p
  BY <1>6 DEF Idle
<1>8. /\ ~ Exists(p) /\ program' = [program EXCEPT ![p] = new]
      /\ consumed' = [consumed EXCEPT ![p] = zero]
      /\ Become(r, q) /\ UNCHANGED <<cession, audit, drawn, disturbed, died>>
  BY <1>2, <1>4, <1>6 DEF CreateProgram, InsertProgram, Begin
<1>9. DOMAIN req' = Request /\ req'[r] = q /\ \A s \in Request \ {r} : req'[s] = req[s]
  BY <1>8, BecomeDoes
<1>10. /\ program' \in [Program -> ProgramRow \cup {None}]
       /\ consumed' \in [Program -> Seq(State)]
       /\ program'[p] = new /\ consumed'[p] = zero
       /\ \A o \in Program \ {p} : program'[o] = program[o] /\ consumed'[o] = consumed[o]
  BY <1>3, <1>5, <1>8 DEF Inv, TypeOK
<1>11. \A o \in Program : Exists(o) => o # p /\ program'[o] = program[o]
  BY <1>8, <1>10 DEF Exists
<1>12. TypeOK'
  <2>1. \A o \in Program : Exists(o)' => DOMAIN consumed'[o] = DOMAIN Layers(o)'
    BY <1>3, <1>5, <1>10 DEF Inv, TypeOK, Exists, Layers
  <2>2. ASSUME NEW c \in Cession, cession[c] # None
        PROVE  /\ cession[c].program \in Program /\ program'[cession[c].program] # None
               /\ cession[c].rem \in [0 .. Len(program'[cession[c].program].layers) -> Nat]
    <3>1. /\ cession[c].program \in Program /\ Exists(cession[c].program)
          /\ cession[c].rem \in [0 .. Len(program[cession[c].program].layers) -> Nat]
      BY <2>2 DEF Inv, TypeOK, Layers
    <3>2. program'[cession[c].program] = program[cession[c].program]
      BY <1>11, <3>1
    <3>3. QED
      BY <3>1, <3>2 DEF Exists
  <2>3. QED
    BY <1>8, <1>9, <1>10, <2>1, <2>2 DEF Inv, TypeOK, Exists, Layers
<1>13. LayersFilled'
  <2>1. ASSUME NEW i \in Aggregates(p)'
        PROVE  Filled(Layers(p)'[i], consumed'[p][i])
    <3>1. i \in DOMAIN layers /\ layers[i] \in Layer /\ layers[i].kind = "AGGREGATE"
          /\ Layers(p)' = layers
      BY <1>1, <1>3, <1>10, <2>1 DEF Aggregates, Layers
    <3>2. layers[i].attach \in Nat /\ layers[i].limit \in Nat \ {0}
      BY <3>1, AggregateIsSlice
    <3>3. consumed'[p][i] = [gross |-> 0, ceded |-> 0]
      BY <1>4, <1>10, <3>1
    <3>4. QED
      BY <3>1, <3>2, <3>3 DEF Filled, Above, Lowest
  <2>2. QED
    BY <1>10, <2>1 DEF Inv, LayersFilled, Exists, Aggregates, Layers
<1>14. Knows(r)'
  BY <1>7, <1>9 DEF Knows, Ceding, At
<1>15. QED
  BY <1>9, <1>11, <1>12, <1>13, <1>14, OthersKnow DEF Inv

(* A handler moves and nothing of the programs changes. *)
LEMMA MoveInv ==
  ASSUME Inv, NEW r \in Request, NEW q, Become(r, q), Knows(r)',
         UNCHANGED <<program, consumed, cession, audit>>,
         drawn' \subseteq Cession, disturbed' \subseteq Program /\ died' \subseteq Cession
  PROVE  Inv'
<1>1. DOMAIN req' = Request /\ \A s \in Request \ {r} : req'[s] = req[s]
  BY BecomeDoes
<1>2. TypeOK'
  BY <1>1 DEF Inv, TypeOK, Exists, Layers
<1>3. LayersFilled'
  BY DEF Inv, LayersFilled, Exists, Aggregates, Layers
<1>4. HandlersKnow'
  BY <1>1, OthersKnow
<1>5. QED
  BY <1>2, <1>3, <1>4 DEF Inv

(* What cede computes from one read of a program is consistent. *)
LEMMA ComputedIsConsistent ==
  ASSUME Inv, NEW p \in Program, Exists(p), NEW gross \in Losses, NEW c \in Cession,
         NEW rem \in ApplyProgram(gross, Layers(p), consumed[p]),
         NEW q, q.program = p, q.rem = rem, q.state = consumed[p],
         q.todo = Aggregates(p), q.cession = c
  PROVE  Consistent(q)
<1>1. program[p] \in ProgramRow /\ Layers(p) \in Seq(Layer)
      /\ DOMAIN Layers(p) = 1 .. Len(Layers(p)) /\ Len(Layers(p)) \in Nat
  BY DEF Inv, TypeOK, Exists, ProgramRow, Layers
<1>2. consumed[p] \in Seq(State) /\ DOMAIN consumed[p] = DOMAIN Layers(p)
  BY DEF Inv, TypeOK
<1>3. rem \in [0 .. Len(Layers(p)) -> Nat] /\ rem[0] = gross /\ gross \in Nat \ {0}
  BY <1>1 DEF ApplyProgram
<1>4. ASSUME NEW i \in Aggregates(p)
      PROVE  /\ Filled(Layers(p)[i], consumed[p][i])
             /\ NextState(consumed[p][i], rem, i) \in State
             /\ Filled(Layers(p)[i], NextState(consumed[p][i], rem, i))
  <2> DEFINE layer == Layers(p)[i]  state == consumed[p][i]  loss == rem[i - 1]
             part == ApplyAggregate(loss, layer, state)
  <2>1. i \in 1 .. Len(Layers(p)) /\ layer \in Layer /\ layer.kind = "AGGREGATE"
    BY <1>1, <1>4 DEF Aggregates
  <2>2. layer.attach \in Nat /\ layer.limit \in Nat \ {0}
    BY <2>1, AggregateIsSlice
  <2>3. state \in State /\ loss \in Nat /\ rem[i] \in Nat
    BY <1>1, <1>2, <1>3, <2>1
  <2>4. Filled(layer, state)
    BY DEF Inv, LayersFilled
  <2>5. rem[i] = loss - part
    BY <2>1 DEF ApplyProgram, Ceded
  <2> HIDE DEF layer, state, loss
  <2>6. /\ part \in Nat
        /\ Filled(layer, [gross |-> state.gross + loss, ceded |-> state.ceded + part])
    BY <2>2, <2>3, <2>4, AggregateFills
  <2> HIDE DEF part
  <2>7. loss - rem[i] = part
    BY <2>3, <2>5, <2>6
  <2>8. NextState(state, rem, i) = [gross |-> state.gross + loss, ceded |-> state.ceded + part]
    BY <2>7 DEF NextState, CededBy, loss
  <2>9. NextState(state, rem, i) \in State
    BY <2>3, <2>6, <2>8 DEF State
  <2>10. QED
    BY <2>4, <2>6, <2>8, <2>9 DEF layer, state
<1>5. QED
  BY <1>1, <1>2, <1>3, <1>4 DEF Consistent

LEMMA CedeReadInv ==
  ASSUME Inv, NEW r \in Request, NEW p \in Program, NEW org \in Organisation,
         NEW gross \in Losses, CedeRead(r, p, org, gross)
  PROVE  Inv'
<1>1. /\ Exists(p) /\ drawn # Cession /\ drawn' = drawn \cup {Fresh}
      /\ disturbed' \in {disturbed, disturbed \cup {p}}
      /\ UNCHANGED <<program, consumed, cession, audit, died>>
  BY DEF CedeRead
<1>2. Fresh \in Cession
  BY <1>1 DEF Fresh, Inv, TypeOK
<1> DEFINE pc == IF Aggregates(p) = {} THEN "cede.record" ELSE "cede.layers"
<1>3. PICK rem \in ApplyProgram(gross, Layers(p), consumed[p]) :
        Become(r, [Idle EXCEPT !.program = p, !.rem = rem, !.state = consumed[p],
                     !.todo = Aggregates(p), !.cession = Fresh, !.pc = pc])
  BY DEF CedeRead, Begin
<1> HIDE DEF pc
<1>4. PICK q : q = [Idle EXCEPT !.program = p, !.rem = rem, !.state = consumed[p],
                      !.todo = Aggregates(p), !.cession = Fresh, !.pc = pc]
  OBVIOUS
<1>5. /\ q.program = p /\ q.rem = rem /\ q.state = consumed[p]
      /\ q.todo = Aggregates(p) /\ q.cession = Fresh /\ q.pc = pc
  BY <1>4 DEF Idle
<1>6. Consistent(q)
  BY <1>1, <1>2, <1>5, ComputedIsConsistent
<1>7. Become(r, q)
  BY <1>3, <1>4
<1>8. req'[r] = q
  BY <1>7, BecomeDoes
<1>9. Knows(r)'
  <2>1. Consistent(q)'
    BY <1>1, <1>6 DEF Consistent, Exists, Aggregates, Layers
  <2>2. QED
    BY <1>5, <1>8, <2>1 DEF Knows, At, pc
<1>10. drawn' \subseteq Cession /\ disturbed' \subseteq Program /\ died' \subseteq Cession
  BY <1>1, <1>2 DEF Inv, TypeOK
<1>11. QED
  BY <1>1, <1>7, <1>9, <1>10, MoveInv

(* The write is absolute, and it is one that keeps the layer filled,       *)
(* whatever another cession has written since the read.                    *)
LEMMA CedeLayerInv ==
  ASSUME Inv, NEW r \in Request, CedeLayer(r)
  PROVE  Inv'
<1>1. Consistent(req[r])
  BY DEF Inv, HandlersKnow, CedeLayer, At, Ceding
<1> DEFINE p == req[r].program
<1>2. PICK i \in req[r].todo :
        /\ UpdateLayerAggregateState(p, i, NextState(req[r].state[i], req[r].rem, i))
        /\ Become(r, [req[r] EXCEPT !.todo = req[r].todo \ {i},
                        !.pc = IF req[r].todo = {i} THEN "cede.record" ELSE "cede.layers"])
  BY DEF CedeLayer
<1>3. UNCHANGED <<program, cession, audit, drawn, disturbed, died>>
  BY DEF CedeLayer
<1>4. PICK next : next = NextState(req[r].state[i], req[r].rem, i)
  OBVIOUS
<1>5. /\ p \in Program /\ Exists(p) /\ i \in Aggregates(p)
      /\ next \in State /\ Filled(Layers(p)[i], next)
  BY <1>1, <1>4 DEF Consistent
<1>6. PICK o \in Program : o = p
  BY <1>5
<1> HIDE DEF p
<1>7. consumed' = [consumed EXCEPT ![o] = [consumed[o] EXCEPT ![i] = next]]
  BY <1>2, <1>4, <1>6 DEF UpdateLayerAggregateState
<1>8. /\ consumed[o] \in Seq(State) /\ DOMAIN consumed[o] = DOMAIN Layers(o)
      /\ i \in DOMAIN consumed[o]
  BY <1>5, <1>6 DEF Inv, TypeOK, Aggregates
<1>9. PICK states : states = [consumed[o] EXCEPT ![i] = next]
  OBVIOUS
<1>10. /\ states \in Seq(State) /\ DOMAIN states = DOMAIN consumed[o]
       /\ states[i] = next /\ \A j \in DOMAIN states \ {i} : states[j] = consumed[o][j]
  BY <1>5, <1>8, <1>9
<1>11. /\ consumed' \in [Program -> Seq(State)] /\ consumed'[o] = states
       /\ \A s \in Program \ {o} : consumed'[s] = consumed[s]
  BY <1>7, <1>9, <1>10 DEF Inv, TypeOK
<1>12. PICK q : q = [req[r] EXCEPT !.todo = req[r].todo \ {i},
                       !.pc = IF req[r].todo = {i} THEN "cede.record" ELSE "cede.layers"]
  OBVIOUS
<1>13. Become(r, q)
  BY <1>2, <1>12
<1>14. /\ q.program = req[r].program /\ q.cession = req[r].cession /\ q.rem = req[r].rem
       /\ q.state = req[r].state /\ q.todo = req[r].todo \ {i}
       /\ q.pc \in {"cede.record", "cede.layers"}
  BY <1>12
<1>15. DOMAIN req' = Request /\ req'[r] = q /\ \A s \in Request \ {r} : req'[s] = req[s]
  BY <1>13, BecomeDoes
<1>16. TypeOK'
  BY <1>3, <1>8, <1>10, <1>11, <1>15 DEF Inv, TypeOK, Exists, Layers
<1>17. LayersFilled'
  <2>1. ASSUME NEW s \in Program, Exists(s), NEW j \in Aggregates(s)
        PROVE  Filled(Layers(s)[j], consumed'[s][j])
    <3>1. Filled(Layers(s)[j], consumed[s][j]) /\ j \in DOMAIN Layers(s)
      BY <2>1 DEF Inv, LayersFilled, Aggregates
    <3>2. CASE s = o /\ j = i
      BY <1>5, <1>6, <1>10, <1>11, <3>2
    <3>3. CASE s # o \/ j # i
      BY <1>8, <1>10, <1>11, <3>1, <3>3
    <3>4. QED
      BY <3>2, <3>3
  <2>2. QED
    BY <1>3, <2>1 DEF LayersFilled, Exists, Aggregates, Layers
<1>18. Knows(r)'
  <2>1. Consistent(q)'
    BY <1>1, <1>3, <1>14 DEF Consistent, Exists, Aggregates, Layers
  <2>2. QED
    BY <1>14, <1>15, <2>1 DEF Knows, At
<1>19. QED
  BY <1>3, <1>15, <1>16, <1>17, <1>18, OthersKnow DEF Inv

LEMMA CedeRecordInv ==
  ASSUME Inv, NEW r \in Request, CedeRecord(r)
  PROVE  Inv'
<1>1. Consistent(req[r]) /\ UNCHANGED <<program, consumed, audit, drawn, disturbed, died>>
  BY DEF Inv, HandlersKnow, CedeRecord, At, Ceding
<1>2. PICK c \in Cession, p \in Program : c = req[r].cession /\ p = req[r].program
  BY <1>1 DEF Consistent
<1>3. PICK new : new = [program |-> p, rem |-> req[r].rem]
  OBVIOUS
<1>4. cession' = [cession EXCEPT ![c] = new]
  BY <1>2, <1>3 DEF CedeRecord, RecordCession
<1>5. PICK q : q = [Idle EXCEPT !.pc = "cede.audit", !.cession = c]
  OBVIOUS
<1>6. Become(r, q) /\ q.pc = "cede.audit" /\ q.cession = c
  BY <1>2, <1>5 DEF CedeRecord, Idle
<1>7. DOMAIN req' = Request /\ req'[r] = q /\ \A s \in Request \ {r} : req'[s] = req[s]
  BY <1>6, BecomeDoes
<1>8. TypeOK'
  <2>1. new.program = p /\ Exists(p) /\ new.rem \in [0 .. Len(Layers(p)) -> Nat]
    BY <1>1, <1>2, <1>3 DEF Consistent
  <2>2. /\ DOMAIN cession' = Cession /\ cession'[c] = new
        /\ \A d \in Cession \ {c} : cession'[d] = cession[d]
    BY <1>4 DEF Inv, TypeOK
  <2>3. QED
    BY <1>1, <1>7, <2>1, <2>2 DEF Inv, TypeOK, Exists, Layers
<1>9. LayersFilled'
  BY <1>1 DEF Inv, LayersFilled, Exists, Aggregates, Layers
<1>10. Knows(r)'
  BY <1>6, <1>7 DEF Knows, Ceding, At
<1>11. QED
  BY <1>1, <1>7, <1>8, <1>9, <1>10, OthersKnow DEF Inv

LEMMA RecordInv ==
  ASSUME Inv, NEW r \in Request, Record(r)
  PROVE  Inv'
<1>1. Become(r, Idle) /\ UNCHANGED <<program, consumed, cession, drawn, disturbed, died>>
  BY DEF Record
<1>2. DOMAIN req' = Request /\ req'[r] = Idle /\ \A s \in Request \ {r} : req'[s] = req[s]
  BY <1>1, BecomeDoes
<1>3. audit' \subseteq {"reinsurance.program.create"} \X Program
                         \cup {"reinsurance.cede"} \X Cession
  BY DEF Record, Inv, TypeOK, HandlersKnow, At
<1>4. TypeOK'
  BY <1>1, <1>2, <1>3 DEF Inv, TypeOK, Exists, Layers
<1>5. LayersFilled'
  BY <1>1 DEF Inv, LayersFilled, Exists, Aggregates, Layers
<1>6. Knows(r)'
  BY <1>2 DEF Knows, Ceding, At, Idle
<1>7. QED
  BY <1>1, <1>2, <1>4, <1>5, <1>6, OthersKnow DEF Inv

LEMMA CrashInv ==
  ASSUME Inv, NEW r \in Request, Crash(r)
  PROVE  Inv'
<1>1. Become(r, Idle) /\ UNCHANGED <<program, consumed, cession, audit, drawn>>
  BY DEF Crash
<1>2. req'[r] = Idle
  BY <1>1, BecomeDoes
<1>3. Knows(r)'
  BY <1>2 DEF Knows, Ceding, At, Idle
<1>4. Ceding(r) => req[r].program \in Program /\ req[r].cession \in Cession
  BY DEF Inv, HandlersKnow, Consistent
<1>5. drawn' \subseteq Cession /\ disturbed' \subseteq Program /\ died' \subseteq Cession
  BY <1>1, <1>4 DEF Crash, Inv, TypeOK
<1>6. QED
  BY <1>1, <1>3, <1>5, MoveInv

LEMMA NextInv ==
  ASSUME Inv, [Next]_vars
  PROVE  Inv'
<1>1. CASE UNCHANGED vars
  <2>1. TypeOK'
    BY <1>1 DEF vars, Inv, TypeOK, Exists, Layers
  <2>2. LayersFilled'
    BY <1>1 DEF vars, Inv, LayersFilled, Exists, Aggregates, Layers
  <2>3. HandlersKnow'
    BY <1>1 DEF vars, Inv, HandlersKnow, Consistent, Ceding, At, Exists, Aggregates, Layers
  <2>4. QED
    BY <2>1, <2>2, <2>3 DEF Inv
<1>2. ASSUME NEW r \in Request, Call(r) PROVE Inv'
  BY <1>2, CreateProgramInv, CedeReadInv DEF Call
<1>3. ASSUME NEW r \in Request, Step(r) \/ Crash(r) PROVE Inv'
  BY <1>3, CedeLayerInv, CedeRecordInv, RecordInv, CrashInv DEF Step
<1>4. QED
  BY <1>1, <1>2, <1>3 DEF Next

(***************************************************************************)
(* For any layers, losses and concurrent requests, with cessions of one    *)
(* program that overlap and processes that die between two writes: what an *)
(* aggregate layer has on its books as ceded is exactly the slice of what  *)
(* it has seen, never more than its limit, and every cession on its way    *)
(* will write such a state.                                                *)
(***************************************************************************)
THEOREM LayersStayFilled == Spec => []Inv
<1>1. Init => Inv
  BY InitInv
<1>2. Inv /\ [Next]_vars => Inv'
  BY NextInv
<1>3. QED
  BY <1>1, <1>2, PTL DEF Spec

-----------------------------------------------------------------------------
(* Reinsurance: the books of a program and its cessions. *)

(***************************************************************************)
(* What the books of a program rest on, beside Inv.                        *)
(***************************************************************************)

(* Two cessions that are under way on one program disturb it. *)
Apart ==
  \A r, s \in Request :
    Ceding(r) /\ Ceding(s) /\ r # s /\ req[r].program = req[s].program
      => req[r].program \in disturbed

(* The id of a cession under way is its own, and has no row yet. *)
Drawn ==
  /\ \A c \in Cession : cession[c] # None => c \in drawn
  /\ \A r \in Request : Ceding(r) =>
       /\ req[r].cession \in drawn /\ cession[req[r].cession] = None
       /\ \A s \in Request \ {r} : Ceding(s) => req[s].cession # req[r].cession

(* What an undisturbed cession has read is still so where it has not written. *)
Current ==
  \A r \in Request : Ceding(r) /\ req[r].program \notin disturbed =>
    \A i \in req[r].todo : consumed[req[r].program][i] = req[r].state[i]

(* A cession is recorded when every layer is written. *)
Written == \A r \in Request : At(r, "cede.record") => req[r].todo = {}

Placed == \A p \in Program : Exists(p) => Layers(p) \in Placements

Recorded == {c \in Cession : cession[c] # None}

Accounts == Apart /\ Drawn /\ Current /\ Written /\ Placed /\ IsFiniteSet(Recorded)

LEMMA InitAccounts == Init => Accounts
<1> SUFFICES ASSUME Init PROVE Accounts
  OBVIOUS
<1>1. Recorded = {}
  BY DEF Init, Recorded
<1>2. QED
  BY <1>1, FS_EmptySet
     DEF Init, Accounts, Apart, Drawn, Current, Written, Placed, Exists, Ceding, At, Idle

(* A handler leaves, or was never one that cedes, and no row changes. *)
LEMMA LeaveAccounts ==
  ASSUME Inv, Accounts, NEW r \in Request, NEW q, Become(r, q),
         q.pc \notin {"cede.layers", "cede.record"},
         UNCHANGED <<cession, drawn>>, disturbed \subseteq disturbed',
         \A p \in Program : Exists(p) => consumed'[p] = consumed[p],
         Placed'
  PROVE  Accounts'
<1>1. req'[r] = q /\ \A s \in Request \ {r} : req'[s] = req[s]
  BY BecomeDoes
<1>2. ASSUME NEW s \in Request, Ceding(s)'
      PROVE  s # r /\ Ceding(s) /\ req'[s] = req[s]
             /\ req[s].program \in Program /\ Exists(req[s].program)
  BY <1>1, <1>2 DEF Ceding, Inv, HandlersKnow, Consistent
<1>3. Apart'
  BY <1>2 DEF Accounts, Apart
<1>4. Drawn'
  BY <1>2 DEF Accounts, Drawn
<1>5. Current'
  BY <1>2 DEF Accounts, Current
<1>6. Written'
  BY <1>1 DEF Accounts, Written, At
<1>7. Recorded' = Recorded
  BY DEF Recorded
<1>8. QED
  BY <1>3, <1>4, <1>5, <1>6, <1>7 DEF Accounts

LEMMA CreateProgramAccounts ==
  ASSUME Inv, Accounts, NEW r \in Request, NEW p \in Program, NEW org \in Organisation,
         NEW layers \in Placements, CreateProgram(r, p, org, layers)
  PROVE  Accounts'
<1>1. PICK q : q = [Idle EXCEPT !.pc = "create.audit", !.program = p]
  OBVIOUS
<1>2. q.pc = "create.audit" /\ Become(r, q) /\ UNCHANGED <<cession, drawn, disturbed, died>>
  BY <1>1 DEF CreateProgram, Begin, Idle
<1>3. \A o \in Program : Exists(o) => o # p
  BY DEF CreateProgram
<1>4. \A o \in Program \ {p} : consumed'[o] = consumed[o] /\ program'[o] = program[o]
  BY DEF CreateProgram, InsertProgram, Inv, TypeOK
<1>5. program'[p].layers = layers
  BY DEF CreateProgram, InsertProgram, Inv, TypeOK
<1>6. Placed'
  BY <1>4, <1>5 DEF Accounts, Placed, Exists, Layers
<1>7. QED
  BY <1>2, <1>3, <1>4, <1>6, LeaveAccounts

LEMMA CedeReadAccounts ==
  ASSUME Inv, Accounts, NEW r \in Request, NEW p \in Program, NEW org \in Organisation,
         NEW gross \in Losses, CedeRead(r, p, org, gross)
  PROVE  Accounts'
<1>1. /\ drawn # Cession /\ drawn' = drawn \cup {Fresh}
      /\ disturbed' = IF \E s \in Request : Ceding(s) /\ req[s].program = p
                      THEN disturbed \cup {p} ELSE disturbed
      /\ UNCHANGED <<program, consumed, cession>>
  BY DEF CedeRead
<1>2. Fresh \in Cession /\ Fresh \notin drawn
  BY <1>1 DEF Fresh, Inv, TypeOK
<1> DEFINE pc == IF Aggregates(p) = {} THEN "cede.record" ELSE "cede.layers"
<1>3. PICK rem \in ApplyProgram(gross, Layers(p), consumed[p]) :
        Become(r, [Idle EXCEPT !.program = p, !.rem = rem, !.state = consumed[p],
                     !.todo = Aggregates(p), !.cession = Fresh, !.pc = pc])
  BY DEF CedeRead, Begin
<1>4. PICK q : q = [Idle EXCEPT !.program = p, !.rem = rem, !.state = consumed[p],
                      !.todo = Aggregates(p), !.cession = Fresh, !.pc = pc]
  OBVIOUS
<1>5. /\ q.program = p /\ q.state = consumed[p] /\ q.todo = Aggregates(p)
      /\ q.cession = Fresh /\ (q.pc = "cede.record" => q.todo = {})
  BY <1>4 DEF Idle
<1> HIDE DEF pc
<1>6. req'[r] = q /\ \A s \in Request \ {r} : req'[s] = req[s]
  BY <1>3, <1>4, BecomeDoes
<1>7. \A s \in Request \ {r} : (Ceding(s)' <=> Ceding(s)) /\ (At(s, "cede.record")' <=> At(s, "cede.record"))
  BY <1>6 DEF Ceding, At
<1>8. disturbed \subseteq disturbed'
  BY <1>1
<1>9. Apart'
  <2>1. ASSUME NEW s \in Request, NEW t \in Request, Ceding(s)', Ceding(t)', s # t,
               req'[s].program = req'[t].program
        PROVE  req'[s].program \in disturbed'
    <3>1. CASE s = r
      BY <1>1, <1>5, <1>6, <1>7, <2>1, <3>1
    <3>2. CASE t = r
      BY <1>1, <1>5, <1>6, <1>7, <2>1, <3>2
    <3>3. CASE s # r /\ t # r
      BY <1>6, <1>7, <1>8, <2>1, <3>3 DEF Accounts, Apart
    <3>4. QED
      BY <3>1, <3>2, <3>3
  <2>2. QED
    BY <2>1 DEF Apart
<1>10. Drawn'
  <2>1. cession[Fresh] = None
    BY <1>2 DEF Accounts, Drawn
  <2>2. \A c \in Cession : cession'[c] # None => c \in drawn'
    BY <1>1 DEF Accounts, Drawn
  <2>3. ASSUME NEW s \in Request, Ceding(s)'
        PROVE  /\ req'[s].cession \in drawn' /\ cession'[req'[s].cession] = None
               /\ \A t \in Request \ {s} : Ceding(t)' => req'[t].cession # req'[s].cession
    <3>1. CASE s = r
      BY <1>1, <1>2, <1>5, <1>6, <1>7, <2>1, <3>1 DEF Accounts, Drawn
    <3>2. CASE s # r
      <4>1. Ceding(s) /\ req'[s] = req[s]
        BY <1>6, <1>7, <2>3, <3>2
      <4>2. req[s].cession \in drawn /\ cession[req[s].cession] = None
        BY <4>1 DEF Accounts, Drawn
      <4>3. \A t \in Request \ {s} : Ceding(t)' => req'[t].cession # req[s].cession
        BY <1>2, <1>5, <1>6, <1>7, <4>1, <4>2 DEF Accounts, Drawn
      <4>4. QED
        BY <1>1, <4>1, <4>2, <4>3
    <3>3. QED
      BY <3>1, <3>2
  <2>4. QED
    BY <2>2, <2>3 DEF Drawn
<1>11. Current'
  <2>1. ASSUME NEW s \in Request, Ceding(s)', req'[s].program \notin disturbed',
               NEW i \in req'[s].todo
        PROVE  consumed'[req'[s].program][i] = req'[s].state[i]
    <3>1. CASE s = r
      BY <1>1, <1>5, <1>6, <2>1, <3>1
    <3>2. CASE s # r
      BY <1>1, <1>6, <1>7, <1>8, <2>1, <3>2 DEF Accounts, Current
    <3>3. QED
      BY <3>1, <3>2
  <2>2. QED
    BY <2>1 DEF Current
<1>12. Written'
  BY <1>5, <1>6, <1>7 DEF Accounts, Written, At
<1>13. Placed' /\ Recorded' = Recorded
  BY <1>1 DEF Accounts, Placed, Exists, Layers, Recorded
<1>14. QED
  BY <1>9, <1>10, <1>11, <1>12, <1>13 DEF Accounts

(* What one turn of the loop does, in one place. *)
LEMMA CedeLayerDoes ==
  ASSUME Inv, NEW r \in Request, CedeLayer(r)
  PROVE  \E i \in req[r].todo, p \in Program :
           /\ Ceding(r) /\ Ceding(r)' /\ p = req[r].program /\ Exists(p) /\ i \in Aggregates(p)
           /\ consumed'[p][i] = NextState(req[r].state[i], req[r].rem, i)
           /\ \A j \in DOMAIN Layers(p) \ {i} : consumed'[p][j] = consumed[p][j]
           /\ \A o \in Program \ {p} : consumed'[o] = consumed[o]
           /\ req'[r].program = p /\ req'[r].cession = req[r].cession
           /\ req'[r].rem = req[r].rem /\ req'[r].state = req[r].state
           /\ req'[r].todo = req[r].todo \ {i}
           /\ (req'[r].pc = "cede.record" => req'[r].todo = {})
           /\ \A s \in Request \ {r} : req'[s] = req[s]
           /\ UNCHANGED <<program, cession, audit, drawn, disturbed, died>>
<1>1. Consistent(req[r]) /\ req[r].pc = "cede.layers"
  BY DEF Inv, HandlersKnow, CedeLayer, At, Ceding
<1>2. PICK i \in req[r].todo :
        /\ UpdateLayerAggregateState(req[r].program, i, NextState(req[r].state[i], req[r].rem, i))
        /\ Become(r, [req[r] EXCEPT !.todo = req[r].todo \ {i},
                        !.pc = IF req[r].todo = {i} THEN "cede.record" ELSE "cede.layers"])
  BY DEF CedeLayer
<1>3. PICK p \in Program : p = req[r].program /\ Exists(p) /\ i \in Aggregates(p)
  BY <1>1 DEF Consistent
<1>4. PICK next : next = NextState(req[r].state[i], req[r].rem, i)
  OBVIOUS
<1>5. /\ consumed' = [consumed EXCEPT ![p] = [consumed[p] EXCEPT ![i] = next]]
      /\ consumed[p] \in Seq(State) /\ DOMAIN consumed[p] = DOMAIN Layers(p)
      /\ Aggregates(p) \subseteq DOMAIN Layers(p)
  BY <1>2, <1>3, <1>4 DEF UpdateLayerAggregateState, Inv, TypeOK, Aggregates
<1>6. PICK states : states = [consumed[p] EXCEPT ![i] = next]
  OBVIOUS
<1>7. states[i] = next /\ \A j \in DOMAIN Layers(p) \ {i} : states[j] = consumed[p][j]
  BY <1>3, <1>5, <1>6
<1>8. consumed'[p] = states /\ \A o \in Program \ {p} : consumed'[o] = consumed[o]
  BY <1>5, <1>6 DEF Inv, TypeOK
<1>9. PICK q : q = [req[r] EXCEPT !.todo = req[r].todo \ {i},
                      !.pc = IF req[r].todo = {i} THEN "cede.record" ELSE "cede.layers"]
  OBVIOUS
<1>10. req'[r] = q /\ \A s \in Request \ {r} : req'[s] = req[s]
  BY <1>2, <1>9, BecomeDoes
<1>11. /\ q.program = req[r].program /\ q.cession = req[r].cession /\ q.rem = req[r].rem
       /\ q.state = req[r].state /\ q.todo = req[r].todo \ {i}
  BY <1>9
<1>12. q.pc = IF req[r].todo = {i} THEN "cede.record" ELSE "cede.layers"
  BY <1>9
<1>13. q.pc \in {"cede.layers", "cede.record"} /\ (q.pc = "cede.record" => q.todo = {})
  BY <1>11, <1>12
<1>14. consumed'[p][i] = NextState(req[r].state[i], req[r].rem, i)
       /\ \A j \in DOMAIN Layers(p) \ {i} : consumed'[p][j] = consumed[p][j]
  BY <1>4, <1>7, <1>8
<1>15. Ceding(r) /\ Ceding(r)'
  BY <1>1, <1>10, <1>13 DEF Ceding
<1>16. UNCHANGED <<program, cession, audit, drawn, disturbed, died>>
  BY DEF CedeLayer
<1>17. QED
  BY <1>2, <1>3, <1>8, <1>10, <1>11, <1>13, <1>14, <1>15, <1>16

LEMMA CedeLayerAccounts ==
  ASSUME Inv, Accounts, NEW r \in Request, CedeLayer(r)
  PROVE  Accounts'
<1>1. PICK i \in req[r].todo, p \in Program :
        /\ Ceding(r) /\ Ceding(r)' /\ p = req[r].program /\ Exists(p) /\ i \in Aggregates(p)
        /\ consumed'[p][i] = NextState(req[r].state[i], req[r].rem, i)
        /\ \A j \in DOMAIN Layers(p) \ {i} : consumed'[p][j] = consumed[p][j]
        /\ \A o \in Program \ {p} : consumed'[o] = consumed[o]
        /\ req'[r].program = p /\ req'[r].cession = req[r].cession
        /\ req'[r].rem = req[r].rem /\ req'[r].state = req[r].state
        /\ req'[r].todo = req[r].todo \ {i}
        /\ (req'[r].pc = "cede.record" => req'[r].todo = {})
        /\ \A s \in Request \ {r} : req'[s] = req[s]
        /\ UNCHANGED <<program, cession, audit, drawn, disturbed, died>>
  BY CedeLayerDoes
<1>2. ASSUME NEW s \in Request, Ceding(s)'
      PROVE  /\ Ceding(s) /\ req'[s].program = req[s].program
             /\ req'[s].cession = req[s].cession /\ req'[s].state = req[s].state
             /\ req'[s].todo \subseteq req[s].todo
             /\ req[s].program \in Program /\ req[s].todo \subseteq Aggregates(req[s].program)
  <2>1. Ceding(s) /\ req'[s].program = req[s].program
        /\ req'[s].cession = req[s].cession /\ req'[s].state = req[s].state
        /\ req'[s].todo \subseteq req[s].todo
    <3>1. CASE s = r
      BY <1>1, <3>1
    <3>2. CASE s # r
      BY <1>1, <1>2, <3>2 DEF Ceding
    <3>3. QED
      BY <3>1, <3>2
  <2>2. QED
    BY <2>1 DEF Inv, HandlersKnow, Consistent
<1>3. Apart'
  BY <1>1, <1>2 DEF Accounts, Apart
<1>4. Drawn'
  BY <1>1, <1>2 DEF Accounts, Drawn
<1>5. Current'
  <2>1. ASSUME NEW s \in Request, Ceding(s)', req'[s].program \notin disturbed',
               NEW j \in req'[s].todo
        PROVE  consumed'[req'[s].program][j] = req'[s].state[j]
    <3>1. consumed[req[s].program][j] = req[s].state[j] /\ req[s].program \notin disturbed
          /\ j \in Aggregates(req[s].program)
      BY <1>1, <1>2, <2>1 DEF Accounts, Current
    <3>2. req[s].program = p => s = r
      BY <1>1, <1>2, <2>1, <3>1 DEF Accounts, Apart
    <3>3. CASE req[s].program = p
      <4>1. j \in DOMAIN Layers(p) \ {i}
        BY <1>1, <2>1, <3>1, <3>2, <3>3 DEF Aggregates
      <4>2. QED
        BY <1>1, <1>2, <2>1, <3>1, <3>3, <4>1
    <3>4. CASE req[s].program # p
      BY <1>1, <1>2, <2>1, <3>1, <3>4
    <3>5. QED
      BY <3>3, <3>4
  <2>2. QED
    BY <2>1 DEF Current
<1>6. Written'
  <2>1. ASSUME NEW s \in Request, At(s, "cede.record")' PROVE req'[s].todo = {}
    <3>1. CASE s = r
      BY <1>1, <2>1, <3>1 DEF At
    <3>2. CASE s # r
      BY <1>1, <2>1, <3>2 DEF At, Accounts, Written
    <3>3. QED
      BY <3>1, <3>2
  <2>2. QED
    BY <2>1 DEF Written
<1>7. Placed' /\ Recorded' = Recorded
  BY <1>1 DEF Accounts, Placed, Exists, Layers, Recorded
<1>8. QED
  BY <1>3, <1>4, <1>5, <1>6, <1>7 DEF Accounts

(* What recording a cession does, in one place. *)
LEMMA CedeRecordDoes ==
  ASSUME Inv, Accounts, NEW r \in Request, CedeRecord(r)
  PROVE  \E c \in Cession, p \in Program :
           /\ Ceding(r) /\ c = req[r].cession /\ p = req[r].program /\ Exists(p)
           /\ cession[c] = None /\ req[r].todo = {}
           /\ req[r].rem \in [0 .. Len(Layers(p)) -> Nat]
           /\ cession'[c] = [program |-> p, rem |-> req[r].rem] /\ cession'[c] # None
           /\ \A d \in Cession \ {c} : cession'[d] = cession[d]
           /\ ~ Ceding(r)' /\ \A s \in Request \ {r} : req'[s] = req[s]
           /\ UNCHANGED <<program, consumed, audit, drawn, disturbed, died>>
<1>1. /\ Ceding(r) /\ At(r, "cede.record")
      /\ UNCHANGED <<program, consumed, audit, drawn, disturbed, died>>
  BY DEF CedeRecord, At, Ceding
<1>2. Consistent(req[r])
  BY <1>1 DEF Inv, HandlersKnow
<1>3. PICK c \in Cession, p \in Program : c = req[r].cession /\ p = req[r].program
  BY <1>2 DEF Consistent
<1>4. Exists(p) /\ req[r].rem \in [0 .. Len(Layers(p)) -> Nat]
  BY <1>2, <1>3 DEF Consistent
<1>5. PICK new : new = [program |-> p, rem |-> req[r].rem]
  OBVIOUS
<1>6. new # None
  <2>1. Layers(p) \in Placements
    BY <1>4 DEF Accounts, Placed
  <2>2. new \in [program : Program, rem : [0 .. Len(Layers(p)) -> Nat]]
    BY <1>4, <1>5
  <2>3. QED
    BY <2>1, <2>2
<1>7. cession' = [cession EXCEPT ![c] = new]
  BY <1>3, <1>5 DEF CedeRecord, RecordCession
<1>8. cession'[c] = new /\ \A d \in Cession \ {c} : cession'[d] = cession[d]
  BY <1>7 DEF Inv, TypeOK
<1>9. PICK q : q = [Idle EXCEPT !.pc = "cede.audit", !.cession = req[r].cession]
  OBVIOUS
<1>10. Become(r, q) /\ q.pc = "cede.audit"
  BY <1>9 DEF CedeRecord, Idle
<1>11. ~ Ceding(r)' /\ \A s \in Request \ {r} : req'[s] = req[s]
  BY <1>10, BecomeDoes DEF Ceding
<1>12. cession[c] = None /\ req[r].todo = {}
  BY <1>1, <1>3 DEF Accounts, Drawn, Written
<1>13. QED
  BY <1>1, <1>3, <1>4, <1>5, <1>6, <1>8, <1>11, <1>12

LEMMA CedeRecordAccounts ==
  ASSUME Inv, Accounts, NEW r \in Request, CedeRecord(r)
  PROVE  Accounts'
<1>1. PICK c \in Cession, p \in Program :
        /\ Ceding(r) /\ c = req[r].cession /\ p = req[r].program /\ Exists(p)
        /\ cession[c] = None /\ req[r].todo = {}
        /\ req[r].rem \in [0 .. Len(Layers(p)) -> Nat]
        /\ cession'[c] = [program |-> p, rem |-> req[r].rem] /\ cession'[c] # None
        /\ \A d \in Cession \ {c} : cession'[d] = cession[d]
        /\ ~ Ceding(r)' /\ \A s \in Request \ {r} : req'[s] = req[s]
        /\ UNCHANGED <<program, consumed, audit, drawn, disturbed, died>>
  BY CedeRecordDoes
<1>2. ASSUME NEW s \in Request, Ceding(s)'
      PROVE  s # r /\ Ceding(s) /\ req'[s] = req[s]
  BY <1>1, <1>2 DEF Ceding
<1>3. Apart'
  BY <1>1, <1>2 DEF Accounts, Apart
<1>4. Drawn'
  <2>1. \A d \in Cession : cession'[d] # None => d \in drawn'
    BY <1>1 DEF Accounts, Drawn
  <2>2. ASSUME NEW s \in Request, Ceding(s)'
        PROVE  /\ req'[s].cession \in drawn' /\ cession'[req'[s].cession] = None
               /\ \A t \in Request \ {s} : Ceding(t)' => req'[t].cession # req'[s].cession
    <3>1. s # r /\ Ceding(s) /\ req'[s] = req[s]
      BY <1>2, <2>2
    <3>2. req[s].cession \in Cession
      BY <3>1 DEF Inv, HandlersKnow, Consistent
    <3>3. req[s].cession # c
      BY <1>1, <3>1 DEF Accounts, Drawn
    <3>4. req[s].cession \in drawn /\ cession[req[s].cession] = None
      BY <3>1 DEF Accounts, Drawn
    <3>5. \A t \in Request \ {s} : Ceding(t)' => req'[t].cession # req'[s].cession
      BY <1>2, <3>1 DEF Accounts, Drawn
    <3>6. QED
      BY <1>1, <3>1, <3>2, <3>3, <3>4, <3>5
  <2>3. QED
    BY <2>1, <2>2 DEF Drawn
<1>5. Current'
  BY <1>1, <1>2 DEF Accounts, Current
<1>6. Written'
  BY <1>1, <1>2 DEF Accounts, Written, At, Ceding
<1>7. Placed'
  BY <1>1 DEF Accounts, Placed, Exists, Layers
<1>8. IsFiniteSet(Recorded')
  <2>1. Recorded' \subseteq Recorded \cup {c}
    BY <1>1 DEF Recorded
  <2>2. IsFiniteSet(Recorded \cup {c})
    BY FS_AddElement DEF Accounts
  <2>3. QED
    BY <2>1, <2>2, FS_Subset
<1>9. QED
  BY <1>3, <1>4, <1>5, <1>6, <1>7, <1>8 DEF Accounts

LEMMA RecordAccounts ==
  ASSUME Inv, Accounts, NEW r \in Request, Record(r)
  PROVE  Accounts'
<1>1. Become(r, Idle) /\ UNCHANGED <<program, consumed, cession, drawn, disturbed, died>>
  BY DEF Record
<1>2. Placed'
  BY <1>1 DEF Accounts, Placed, Exists, Layers
<1>3. Idle.pc \notin {"cede.layers", "cede.record"}
  BY DEF Idle
<1>4. QED
  BY <1>1, <1>2, <1>3, LeaveAccounts

LEMMA CrashAccounts ==
  ASSUME Inv, Accounts, NEW r \in Request, Crash(r)
  PROVE  Accounts'
<1>1. Become(r, Idle) /\ UNCHANGED <<program, consumed, cession, drawn>>
      /\ disturbed \subseteq disturbed'
  BY DEF Crash
<1>2. Placed'
  BY <1>1 DEF Accounts, Placed, Exists, Layers
<1>3. Idle.pc \notin {"cede.layers", "cede.record"}
  BY DEF Idle
<1>4. QED
  BY <1>1, <1>2, <1>3, LeaveAccounts

HIDE RowAssumption

HIDE ReinsuranceAssumption

(* The books of layer i of program p. *)
Balanced(p, i) == consumed[p][i] = [gross |-> PresentedTo(p, i), ceded |-> TakenBy(p, i)]

(* The cessions that count for a layer, and what they retained, are all    *)
(* that its sums depend on.                                                *)
LEMMA SumsStay ==
  ASSUME NEW p, NEW i,
         CessionsOn(p)' = CessionsOn(p),
         \A c \in CessionsOn(p) : cession'[c].rem = cession[c].rem,
         Unrecorded(p, i)' = Unrecorded(p, i),
         \A r \in Unrecorded(p, i) : req'[r].rem = req[r].rem
  PROVE  PresentedTo(p, i)' = PresentedTo(p, i) /\ TakenBy(p, i)' = TakenBy(p, i)
<1> DEFINE on == CessionsOn(p)  due == Unrecorded(p, i)
<1>1. /\ [c \in on' |-> cession'[c].rem[i - 1]] = [c \in on |-> cession[c].rem[i - 1]]
      /\ [c \in on' |-> CededBy(cession'[c].rem, i)] = [c \in on |-> CededBy(cession[c].rem, i)]
  <2>1. /\ \A c \in on : cession'[c].rem[i - 1] = cession[c].rem[i - 1]
        /\ \A c \in on : CededBy(cession'[c].rem, i) = CededBy(cession[c].rem, i)
    OBVIOUS
  <2>2. on' = on
    OBVIOUS
  <2> HIDE DEF on
  <2>3. QED
    BY <2>1, <2>2
<1>2. /\ [r \in due' |-> req'[r].rem[i - 1]] = [r \in due |-> req[r].rem[i - 1]]
      /\ [r \in due' |-> CededBy(req'[r].rem, i)] = [r \in due |-> CededBy(req[r].rem, i)]
  <2>1. /\ \A r \in due : req'[r].rem[i - 1] = req[r].rem[i - 1]
        /\ \A r \in due : CededBy(req'[r].rem, i) = CededBy(req[r].rem, i)
    OBVIOUS
  <2>2. due' = due
    OBVIOUS
  <2> HIDE DEF due
  <2>3. QED
    BY <2>1, <2>2
<1>3. QED
  BY <1>1, <1>2 DEF PresentedTo, TakenBy

(* The rows of a program's cessions are finitely many, and their amounts   *)
(* are natural numbers.                                                    *)
LEMMA RowsOn ==
  ASSUME Inv, Accounts, NEW p \in Program, Exists(p), NEW i \in Aggregates(p)
  PROVE  /\ IsFiniteSet(CessionsOn(p))
         /\ \A c \in CessionsOn(p) : cession[c].rem[i - 1] \in Nat /\ cession[c].rem[i] \in Nat
         /\ \A r \in Unrecorded(p, i) : req[r].rem[i - 1] \in Nat /\ req[r].rem[i] \in Nat
<1>1. i \in 1 .. Len(Layers(p)) /\ Len(Layers(p)) \in Nat
  BY DEF Aggregates, Inv, TypeOK, ProgramRow, Layers, Exists
<1>2. i - 1 \in 0 .. Len(Layers(p)) /\ i \in 0 .. Len(Layers(p))
  BY <1>1
<1>3. CessionsOn(p) \subseteq Recorded
  BY DEF CessionsOn, Recorded
<1>4. \A c \in CessionsOn(p) : cession[c].rem \in [0 .. Len(Layers(p)) -> Nat]
  BY DEF CessionsOn, Inv, TypeOK
<1>5. \A r \in Unrecorded(p, i) : req[r].rem \in [0 .. Len(Layers(p)) -> Nat]
  BY DEF Unrecorded, Inv, HandlersKnow, Consistent
<1>6. QED
  BY <1>2, <1>3, <1>4, <1>5, FS_Subset DEF Accounts

(* On an undisturbed program there is one cession under way at most. *)
LEMMA Alone ==
  ASSUME Inv, Accounts, NEW p \in Program \ disturbed, NEW i,
         NEW r \in Request, Ceding(r), req[r].program = p
  PROVE  Unrecorded(p, i) = IF i \in req[r].todo THEN {} ELSE {r}
<1>1. \A s \in Request : Ceding(s) /\ req[s].program = p => s = r
  BY DEF Accounts, Apart
<1>2. QED
  BY <1>1 DEF Unrecorded

(* One turn of the loop brings the handler's share into the books of the   *)
(* layer that it writes.                                                   *)
LEMMA CedeLayerBooks ==
  ASSUME Inv, Accounts, StateIsSumOfCessions, NEW r \in Request, CedeLayer(r)
  PROVE  StateIsSumOfCessions'
<1>1. PICK i \in req[r].todo, p \in Program :
        /\ Ceding(r) /\ Ceding(r)' /\ p = req[r].program /\ Exists(p) /\ i \in Aggregates(p)
        /\ consumed'[p][i] = NextState(req[r].state[i], req[r].rem, i)
        /\ \A j \in DOMAIN Layers(p) \ {i} : consumed'[p][j] = consumed[p][j]
        /\ \A o \in Program \ {p} : consumed'[o] = consumed[o]
        /\ req'[r].program = p /\ req'[r].cession = req[r].cession
        /\ req'[r].rem = req[r].rem /\ req'[r].state = req[r].state
        /\ req'[r].todo = req[r].todo \ {i}
        /\ (req'[r].pc = "cede.record" => req'[r].todo = {})
        /\ \A s \in Request \ {r} : req'[s] = req[s]
        /\ UNCHANGED <<program, cession, audit, drawn, disturbed, died>>
  BY CedeLayerDoes
<1>2. ASSUME NEW o \in Program \ disturbed, Exists(o), NEW j \in Aggregates(o)
      PROVE  Balanced(o, j)'
  <2>1. CessionsOn(o)' = CessionsOn(o)
        /\ \A c \in CessionsOn(o) : cession'[c].rem = cession[c].rem
    BY <1>1 DEF CessionsOn
  <2>2. Balanced(o, j)
    BY <1>2 DEF StateIsSumOfCessions, Balanced
  <2>3. CASE o # p \/ j # i
    <3>1. Unrecorded(o, j)' = Unrecorded(o, j)
      <4>1. ASSUME NEW s \in Request
            PROVE  s \in Unrecorded(o, j)' <=> s \in Unrecorded(o, j)
        <5>1. CASE s = r
          BY <1>1, <2>3, <5>1 DEF Unrecorded
        <5>2. CASE s # r
          BY <1>1, <5>2 DEF Unrecorded, Ceding
        <5>3. QED
          BY <5>1, <5>2
      <4>2. QED
        BY <4>1 DEF Unrecorded
    <3>2. \A s \in Unrecorded(o, j) : req'[s].rem = req[s].rem
      BY <1>1 DEF Unrecorded
    <3>3. consumed'[o][j] = consumed[o][j]
      BY <1>1, <1>2, <2>3 DEF Aggregates
    <3>4. PresentedTo(o, j)' = PresentedTo(o, j) /\ TakenBy(o, j)' = TakenBy(o, j)
      BY <2>1, <3>1, <3>2, SumsStay
    <3>5. QED
      BY <2>2, <3>3, <3>4 DEF Balanced
  <2>4. CASE o = p /\ j = i
    <3> DEFINE on == CessionsOn(p)
               gross == SumOver([c \in on |-> cession[c].rem[i - 1]], on)
               ceded == SumOver([c \in on |-> CededBy(cession[c].rem, i)], on)
               rem == req[r].rem
    <3>1. Unrecorded(p, i) = {}
      BY <1>1, <1>2, <2>4, Alone
    <3>2. Unrecorded(p, i)' = {r}
      <4>1. \A s \in Request : Ceding(s) /\ req[s].program = p => s = r
        BY <1>1, <1>2, <2>4 DEF Accounts, Apart
      <4>2. ASSUME NEW s \in Request PROVE s \in Unrecorded(p, i)' <=> s = r
        <5>1. CASE s = r
          BY <1>1, <5>1 DEF Unrecorded
        <5>2. CASE s # r
          BY <1>1, <4>1, <5>2 DEF Unrecorded, Ceding
        <5>3. QED
          BY <5>1, <5>2
      <4>3. QED
        BY <4>2 DEF Unrecorded
    <3>3. gross \in Int /\ ceded \in Int /\ rem[i - 1] \in Nat /\ rem[i] \in Nat
      <4>1. IsFiniteSet(on)
            /\ \A c \in on : cession[c].rem[i - 1] \in Nat /\ cession[c].rem[i] \in Nat
        BY <1>1, RowsOn
      <4>2. gross \in Int
        <5> DEFINE f == [c \in on |-> cession[c].rem[i - 1]]
        <5>1. \A c \in on : f[c] \in Int
          BY <4>1
        <5> HIDE DEF f, on
        <5>2. SumOver(f, on) \in Int
          BY <4>1, <5>1, SumType, Int \in {Nat, Int}
        <5>3. QED
          BY <5>2 DEF f
      <4>3. ceded \in Int
        <5> DEFINE f == [c \in on |-> CededBy(cession[c].rem, i)]
        <5>1. \A c \in on : f[c] \in Int
          BY <4>1 DEF CededBy
        <5> HIDE DEF f, on
        <5>2. SumOver(f, on) \in Int
          BY <4>1, <5>1, SumType, Int \in {Nat, Int}
        <5>3. QED
          BY <5>2 DEF f
      <4>4. rem \in [0 .. Len(Layers(p)) -> Nat] /\ i \in 1 .. Len(Layers(p))
            /\ Len(Layers(p)) \in Nat
        BY <1>1 DEF Inv, HandlersKnow, Consistent, Aggregates, TypeOK, ProgramRow, Layers, Exists
      <4>5. i - 1 \in 0 .. Len(Layers(p)) /\ i \in 0 .. Len(Layers(p))
        BY <4>4
      <4>6. QED
        BY <4>2, <4>3, <4>4, <4>5
    <3>4. PresentedTo(p, i) = gross /\ TakenBy(p, i) = ceded
      <4>1. PresentedTo(p, i) = gross + 0 /\ TakenBy(p, i) = ceded + 0
        BY <3>1, SumEmpty DEF PresentedTo, TakenBy
      <4> HIDE DEF gross, ceded
      <4>2. QED
        BY <3>3, <4>1
    <3>5. PresentedTo(p, i)' = gross + rem[i - 1] /\ TakenBy(p, i)' = ceded + CededBy(rem, i)
      <4>1. /\ CessionsOn(p)' = on
            /\ [c \in on |-> cession'[c].rem[i - 1]] = [c \in on |-> cession[c].rem[i - 1]]
            /\ [c \in on |-> CededBy(cession'[c].rem, i)] = [c \in on |-> CededBy(cession[c].rem, i)]
        BY <1>1, <2>1, <2>4
      <4> DEFINE f == [s \in {r} |-> req'[s].rem[i - 1]]
                 g == [s \in {r} |-> CededBy(req'[s].rem, i)]
      <4>2. f[r] = rem[i - 1] /\ g[r] = CededBy(rem, i)
        BY <1>1
      <4>3. CededBy(rem, i) \in Int
        BY <3>3 DEF CededBy
      <4> HIDE DEF f, g, rem
      <4>4. SumOver(f, {r}) = rem[i - 1] /\ SumOver(g, {r}) = CededBy(rem, i)
        <5>1. f[r] \in Int /\ g[r] \in Int
          BY <3>3, <4>2, <4>3
        <5>2. SumOver(f, {r}) = f[r] /\ SumOver(g, {r}) = g[r]
          BY <5>1, SumOne
        <5>3. QED
          BY <4>2, <5>2
      <4>5. PresentedTo(p, i)' = gross + SumOver(f, {r}) /\ TakenBy(p, i)' = ceded + SumOver(g, {r})
        BY <3>2, <4>1 DEF PresentedTo, TakenBy, f, g
      <4>6. QED
        BY <4>4, <4>5
    <3>6. consumed'[p][i] = NextState([gross |-> gross, ceded |-> ceded], rem, i)
      <4>1. req[r].state[i] = consumed[p][i]
        BY <1>1, <1>2, <2>4 DEF Accounts, Current
      <4>2. consumed[p][i] = [gross |-> gross, ceded |-> ceded]
        BY <2>2, <2>4, <3>4 DEF Balanced
      <4>3. QED
        BY <1>1, <4>1, <4>2
    <3> HIDE DEF gross, ceded, rem
    <3>7. consumed'[p][i] = [gross |-> PresentedTo(p, i)', ceded |-> TakenBy(p, i)']
      BY <3>5, <3>6 DEF NextState
    <3>8. QED
      BY <2>4, <3>7 DEF Balanced
  <2>5. QED
    BY <2>3, <2>4
<1>3. QED
  BY <1>1, <1>2 DEF StateIsSumOfCessions, Balanced, Exists, Aggregates, Layers

(* A recorded cession counts as it did when it was about to be recorded.   *)
LEMMA CedeRecordBooks ==
  ASSUME Inv, Accounts, StateIsSumOfCessions, NEW r \in Request, CedeRecord(r)
  PROVE  StateIsSumOfCessions'
<1>1. PICK c \in Cession, p \in Program :
        /\ Ceding(r) /\ c = req[r].cession /\ p = req[r].program /\ Exists(p)
        /\ cession[c] = None /\ req[r].todo = {}
        /\ req[r].rem \in [0 .. Len(Layers(p)) -> Nat]
        /\ cession'[c] = [program |-> p, rem |-> req[r].rem] /\ cession'[c] # None
        /\ \A d \in Cession \ {c} : cession'[d] = cession[d]
        /\ ~ Ceding(r)' /\ \A s \in Request \ {r} : req'[s] = req[s]
        /\ UNCHANGED <<program, consumed, audit, drawn, disturbed, died>>
  BY CedeRecordDoes
<1>2. ASSUME NEW o \in Program \ disturbed, Exists(o), NEW j \in Aggregates(o)
      PROVE  Balanced(o, j)'
  <2>1. Balanced(o, j)
    BY <1>2 DEF StateIsSumOfCessions, Balanced
  <2>2. CASE o # p
    <3>1. CessionsOn(o)' = CessionsOn(o)
      <4>1. ASSUME NEW d \in Cession PROVE d \in CessionsOn(o)' <=> d \in CessionsOn(o)
        <5>1. CASE d = c
          BY <1>1, <2>2, <5>1 DEF CessionsOn
        <5>2. CASE d # c
          BY <1>1, <5>2 DEF CessionsOn
        <5>3. QED
          BY <5>1, <5>2
      <4>2. QED
        BY <4>1 DEF CessionsOn
    <3>2. \A d \in CessionsOn(o) : cession'[d].rem = cession[d].rem
      BY <1>1, <2>2 DEF CessionsOn
    <3>3. Unrecorded(o, j)' = Unrecorded(o, j)
      <4>1. ASSUME NEW s \in Request
            PROVE  s \in Unrecorded(o, j)' <=> s \in Unrecorded(o, j)
        <5>1. CASE s = r
          BY <1>1, <2>2, <5>1 DEF Unrecorded
        <5>2. CASE s # r
          BY <1>1, <5>2 DEF Unrecorded, Ceding
        <5>3. QED
          BY <5>1, <5>2
      <4>2. QED
        BY <4>1 DEF Unrecorded
    <3>4. \A s \in Unrecorded(o, j) : req'[s].rem = req[s].rem
      BY <1>1, <2>2 DEF Unrecorded
    <3>5. PresentedTo(o, j)' = PresentedTo(o, j) /\ TakenBy(o, j)' = TakenBy(o, j)
      BY <3>1, <3>2, <3>3, <3>4, SumsStay
    <3>6. QED
      BY <1>1, <2>1, <3>5 DEF Balanced
  <2>3. CASE o = p
    <3> DEFINE on == CessionsOn(p)
               rem == req[r].rem
               f == [d \in on |-> cession[d].rem[j - 1]]
               g == [d \in on |-> CededBy(cession[d].rem, j)]
               fn == [d \in on \cup {c} |-> cession'[d].rem[j - 1]]
               gn == [d \in on \cup {c} |-> CededBy(cession'[d].rem, j)]
               fr == [s \in {r} |-> req[s].rem[j - 1]]
               gr == [s \in {r} |-> CededBy(req[s].rem, j)]
    <3>1. Unrecorded(p, j) = {r}
      BY <1>1, <1>2, <2>3, Alone
    <3>2. Unrecorded(p, j)' = {}
      <4>1. \A s \in Request : Ceding(s) /\ req[s].program = p => s = r
        BY <1>1, <1>2, <2>3 DEF Accounts, Apart
      <4>2. ASSUME NEW s \in Request PROVE s \notin Unrecorded(p, j)'
        <5>1. CASE s = r
          BY <1>1, <5>1 DEF Unrecorded
        <5>2. CASE s # r
          BY <1>1, <4>1, <5>2 DEF Unrecorded, Ceding
        <5>3. QED
          BY <5>1, <5>2
      <4>3. QED
        BY <4>2 DEF Unrecorded
    <3>3. c \notin on /\ CessionsOn(p)' = on \cup {c}
      <4>1. c \notin on
        BY <1>1 DEF CessionsOn
      <4>2. ASSUME NEW d \in Cession PROVE d \in CessionsOn(p)' <=> d \in on \cup {c}
        <5>1. CASE d = c
          BY <1>1, <5>1 DEF CessionsOn
        <5>2. CASE d # c
          BY <1>1, <5>2 DEF CessionsOn
        <5>3. QED
          BY <5>1, <5>2
      <4>3. CessionsOn(p)' \subseteq Cession /\ on \cup {c} \subseteq Cession
        BY DEF CessionsOn
      <4>4. QED
        BY <4>1, <4>2, <4>3
    <3>4. /\ IsFiniteSet(on)
          /\ \A d \in on : cession[d].rem[j - 1] \in Nat /\ cession[d].rem[j] \in Nat
          /\ rem[j - 1] \in Nat /\ rem[j] \in Nat
      BY <1>1, <1>2, <2>3, <3>1, RowsOn
    <3>5. /\ \A d \in on : f[d] \in Int /\ g[d] \in Int /\ fn[d] = f[d] /\ gn[d] = g[d]
          /\ fn[c] = rem[j - 1] /\ gn[c] = CededBy(rem, j)
          /\ fr[r] = rem[j - 1] /\ gr[r] = CededBy(rem, j)
          /\ rem[j - 1] \in Int /\ CededBy(rem, j) \in Int
      <4>1. \A d \in on : cession'[d] = cession[d]
        BY <1>1, <3>3 DEF CessionsOn
      <4>2. \A d \in on : f[d] \in Int /\ g[d] \in Int
        BY <3>4 DEF CededBy
      <4>3. \A d \in on : fn[d] = f[d] /\ gn[d] = g[d]
        BY <4>1
      <4>4. cession'[c].rem = rem
        BY <1>1
      <4>5. CededBy(rem, j) \in Int
        BY <3>4 DEF CededBy
      <4>6. QED
        BY <3>4, <4>2, <4>3, <4>4, <4>5
    <3>6. /\ PresentedTo(p, j) = SumOver(f, on) + SumOver(fr, {r})
          /\ TakenBy(p, j) = SumOver(g, on) + SumOver(gr, {r})
      BY <3>1 DEF PresentedTo, TakenBy
    <3>7. /\ PresentedTo(p, j)' = SumOver(fn, on \cup {c}) + 0
          /\ TakenBy(p, j)' = SumOver(gn, on \cup {c}) + 0
      BY <3>2, <3>3, SumEmpty DEF PresentedTo, TakenBy
    <3> DEFINE more == on \cup {c}
    <3> HIDE DEF on, rem, f, g, fn, gn, fr, gr
    <3>8. IsFiniteSet(more) /\ more \ {c} = on
      BY <3>3, <3>4, FS_AddElement
    <3>9. \A d \in more : fn[d] \in Int /\ gn[d] \in Int
      BY <3>5
    <3>10. SumOver(fn, on) = SumOver(f, on) /\ SumOver(gn, on) = SumOver(g, on)
      BY <3>4, <3>5, SumCong
    <3>11. c \in more
      OBVIOUS
    <3> HIDE DEF more
    <3>12. /\ SumOver(fn, more) = fn[c] + SumOver(fn, more \ {c})
           /\ SumOver(gn, more) = gn[c] + SumOver(gn, more \ {c})
      BY <3>8, <3>9, <3>11, SumRemove
    <3>13. fr[r] \in Int /\ gr[r] \in Int
      BY <3>5
    <3>14. SumOver(fr, {r}) = fr[r] /\ SumOver(gr, {r}) = gr[r]
      BY <3>13, SumOne
    <3>15. SumOver(f, on) \in Int /\ SumOver(g, on) \in Int
      BY <3>4, <3>5, SumType, Int \in {Nat, Int}
    <3>16. PresentedTo(p, j)' = PresentedTo(p, j) /\ TakenBy(p, j)' = TakenBy(p, j)
      <4>1. /\ PresentedTo(p, j)' = SumOver(fn, more) + 0
            /\ TakenBy(p, j)' = SumOver(gn, more) + 0
        BY <3>7 DEF more
      <4>2. /\ SumOver(fn, more) = rem[j - 1] + SumOver(f, on)
            /\ SumOver(gn, more) = CededBy(rem, j) + SumOver(g, on)
        BY <3>5, <3>8, <3>10, <3>12
      <4>3. /\ PresentedTo(p, j) = SumOver(f, on) + rem[j - 1]
            /\ TakenBy(p, j) = SumOver(g, on) + CededBy(rem, j)
        BY <3>5, <3>6, <3>14
      <4>4. rem[j - 1] \in Int /\ CededBy(rem, j) \in Int
        BY <3>5
      <4>5. QED
        BY <3>15, <4>1, <4>2, <4>3, <4>4
    <3>17. QED
      BY <1>1, <2>1, <2>3, <3>16 DEF Balanced
  <2>4. QED
    BY <2>2, <2>3
<1>3. QED
  BY <1>1, <1>2 DEF StateIsSumOfCessions, Balanced, Exists, Aggregates, Layers

(* A program that is not disturbed keeps its books when its rows stay and  *)
(* the handler that moves is not one that counts for them.                 *)
LEMMA BooksStay ==
  ASSUME StateIsSumOfCessions, NEW r \in Request, NEW p \in Program \ disturbed, Exists(p),
         NEW i \in Aggregates(p), consumed'[p] = consumed[p], cession' = cession,
         \A s \in Request \ {r} : req'[s] = req[s],
         r \notin Unrecorded(p, i), r \notin Unrecorded(p, i)'
  PROVE  Balanced(p, i)'
<1>1. CessionsOn(p)' = CessionsOn(p)
      /\ \A c \in CessionsOn(p) : cession'[c].rem = cession[c].rem
  BY DEF CessionsOn
<1>2. Unrecorded(p, i)' = Unrecorded(p, i)
  <2>1. ASSUME NEW s \in Request
        PROVE  s \in Unrecorded(p, i)' <=> s \in Unrecorded(p, i)
    <3>1. CASE s = r
      BY <3>1
    <3>2. CASE s # r
      BY <3>2 DEF Unrecorded, Ceding
    <3>3. QED
      BY <3>1, <3>2
  <2>2. QED
    BY <2>1 DEF Unrecorded
<1>3. \A s \in Unrecorded(p, i) : req'[s].rem = req[s].rem
  BY DEF Unrecorded
<1>4. PresentedTo(p, i)' = PresentedTo(p, i) /\ TakenBy(p, i)' = TakenBy(p, i)
  BY <1>1, <1>2, <1>3, SumsStay
<1>5. QED
  BY <1>4 DEF StateIsSumOfCessions, Balanced

(* The same for a handler that takes no part in any program's books. *)
LEMMA LeaveBooks ==
  ASSUME Inv, StateIsSumOfCessions, NEW r \in Request, NEW q, Become(r, q),
         q.pc \notin {"cede.layers", "cede.record"},
         UNCHANGED <<program, consumed, cession>>, disturbed \subseteq disturbed',
         Ceding(r) => req[r].program \in disturbed'
  PROVE  StateIsSumOfCessions'
<1>1. req'[r] = q /\ \A s \in Request \ {r} : req'[s] = req[s]
  BY BecomeDoes
<1>2. ASSUME NEW p \in Program \ disturbed', Exists(p), NEW i \in Aggregates(p)
      PROVE  Balanced(p, i)'
  <2>1. r \notin Unrecorded(p, i) /\ r \notin Unrecorded(p, i)'
    BY <1>1 DEF Unrecorded, Ceding
  <2>2. QED
    BY <1>1, <1>2, <2>1, BooksStay
<1>3. QED
  BY <1>2 DEF StateIsSumOfCessions, Balanced, Exists, Aggregates, Layers

LEMMA CreateProgramBooks ==
  ASSUME Inv, StateIsSumOfCessions, NEW r \in Request, NEW p \in Program,
         NEW org \in Organisation, NEW layers \in Placements, CreateProgram(r, p, org, layers)
  PROVE  StateIsSumOfCessions'
<1>1. PICK q : q = [Idle EXCEPT !.pc = "create.audit", !.program = p]
  OBVIOUS
<1>2. /\ q.pc = "create.audit" /\ Become(r, q) /\ At(r, "idle") /\ ~ Exists(p)
      /\ UNCHANGED <<cession, disturbed>>
  BY <1>1 DEF CreateProgram, Begin, Idle
<1>3. req'[r] = q /\ \A s \in Request \ {r} : req'[s] = req[s]
  BY <1>2, BecomeDoes
<1>4. \A o \in Program \ {p} : consumed'[o] = consumed[o] /\ program'[o] = program[o]
  BY DEF CreateProgram, InsertProgram, Inv, TypeOK
<1>5. \A o \in Program : \A i : r \notin Unrecorded(o, i) /\ r \notin Unrecorded(o, i)'
  BY <1>2, <1>3 DEF Unrecorded, Ceding, At
<1>6. ASSUME NEW o \in Program \ disturbed, Exists(o), o # p, NEW i \in Aggregates(o)
      PROVE  Balanced(o, i)'
  BY <1>2, <1>3, <1>4, <1>5, <1>6, BooksStay
<1>7. ASSUME NEW i \in Aggregates(p)' PROVE Balanced(p, i)'
  <2>1. CessionsOn(p)' = {}
    BY <1>2 DEF CessionsOn, Inv, TypeOK
  <2>2. Unrecorded(p, i)' = {}
    <3>1. \A s \in Request : Ceding(s) => req[s].program # p
      BY <1>2 DEF Inv, HandlersKnow, Consistent
    <3>2. \A s \in Request \ {r} : Ceding(s)' => req'[s].program # p
      BY <1>3, <3>1 DEF Ceding
    <3>3. QED
      BY <1>5, <3>2 DEF Unrecorded
  <2>3. PresentedTo(p, i)' = 0 + 0 /\ TakenBy(p, i)' = 0 + 0
    BY <2>1, <2>2, SumEmpty DEF PresentedTo, TakenBy
  <2>4. program'[p].layers = layers
    BY DEF CreateProgram, InsertProgram, Inv, TypeOK
  <2>5. i \in DOMAIN layers
    BY <2>4 DEF Aggregates, Layers
  <2>6. PICK zero : zero = [j \in DOMAIN layers |-> [gross |-> 0, ceded |-> 0]]
    OBVIOUS
  <2>7. consumed' = [consumed EXCEPT ![p] = zero]
    BY <2>6 DEF CreateProgram, InsertProgram
  <2>8. consumed'[p] = zero
    BY <2>7 DEF Inv, TypeOK
  <2>9. consumed'[p][i] = [gross |-> 0, ceded |-> 0]
    BY <2>5, <2>6, <2>8
  <2>10. QED
    BY <2>3, <2>9 DEF Balanced
<1>8. \A o \in Program \ {p} : (Exists(o) <=> Exists(o)') /\ Aggregates(o)' = Aggregates(o)
  BY <1>4 DEF Exists, Aggregates, Layers
<1>9. QED
  BY <1>2, <1>6, <1>7, <1>8 DEF StateIsSumOfCessions, Balanced

LEMMA CedeReadBooks ==
  ASSUME Inv, StateIsSumOfCessions, NEW r \in Request, NEW p \in Program,
         NEW org \in Organisation, NEW gross \in Losses, CedeRead(r, p, org, gross)
  PROVE  StateIsSumOfCessions'
<1>1. /\ At(r, "idle") /\ disturbed \subseteq disturbed'
      /\ UNCHANGED <<program, consumed, cession>>
  BY DEF CedeRead, Begin
<1> DEFINE pc == IF Aggregates(p) = {} THEN "cede.record" ELSE "cede.layers"
<1>2. PICK rem \in ApplyProgram(gross, Layers(p), consumed[p]) :
        Become(r, [Idle EXCEPT !.program = p, !.rem = rem, !.state = consumed[p],
                     !.todo = Aggregates(p), !.cession = Fresh, !.pc = pc])
  BY DEF CedeRead, Begin
<1>3. PICK q : q = [Idle EXCEPT !.program = p, !.rem = rem, !.state = consumed[p],
                      !.todo = Aggregates(p), !.cession = Fresh, !.pc = pc]
  OBVIOUS
<1>4. q.program = p /\ q.todo = Aggregates(p)
  BY <1>3 DEF Idle
<1> HIDE DEF pc
<1>5. req'[r] = q /\ \A s \in Request \ {r} : req'[s] = req[s]
  BY <1>2, <1>3, BecomeDoes
<1>6. ASSUME NEW o \in Program \ disturbed, Exists(o), NEW i \in Aggregates(o)
      PROVE  Balanced(o, i)'
  <2>1. r \notin Unrecorded(o, i) /\ r \notin Unrecorded(o, i)'
    BY <1>1, <1>4, <1>5 DEF Unrecorded, Ceding, At
  <2>2. QED
    BY <1>1, <1>5, <1>6, <2>1, BooksStay
<1>7. QED
  BY <1>1, <1>6 DEF StateIsSumOfCessions, Balanced, Exists, Aggregates, Layers

LEMMA NextBooks ==
  ASSUME Inv, Accounts, StateIsSumOfCessions, [Next]_vars
  PROVE  Accounts' /\ StateIsSumOfCessions'
<1>1. CASE UNCHANGED vars
  <2>1. Accounts'
    BY <1>1 DEF vars, Accounts, Apart, Drawn, Current, Written, Placed, Recorded,
                Ceding, At, Exists, Layers
  <2>2. StateIsSumOfCessions'
    BY <1>1 DEF vars, StateIsSumOfCessions, Exists, Aggregates, Layers, PresentedTo, TakenBy,
                CessionsOn, Unrecorded, Ceding
  <2>3. QED
    BY <2>1, <2>2
<1>2. ASSUME NEW r \in Request, Call(r) PROVE Accounts' /\ StateIsSumOfCessions'
  BY <1>2, CreateProgramAccounts, CreateProgramBooks, CedeReadAccounts, CedeReadBooks DEF Call
<1>3. ASSUME NEW r \in Request, Step(r) PROVE Accounts' /\ StateIsSumOfCessions'
  <2>1. CASE CedeLayer(r)
    BY <2>1, CedeLayerAccounts, CedeLayerBooks
  <2>2. CASE CedeRecord(r)
    BY <2>2, CedeRecordAccounts, CedeRecordBooks
  <2>3. CASE Record(r)
    <3>1. /\ Become(r, Idle) /\ ~ Ceding(r)
          /\ UNCHANGED <<program, consumed, cession, drawn, disturbed, died>>
      BY <2>3 DEF Record, Ceding
    <3>2. StateIsSumOfCessions'
      BY <3>1, LeaveBooks DEF Idle
    <3>3. QED
      BY <2>3, <3>2, RecordAccounts
  <2>4. QED
    BY <1>3, <2>1, <2>2, <2>3 DEF Step
<1>4. ASSUME NEW r \in Request, Crash(r) PROVE Accounts' /\ StateIsSumOfCessions'
  <2>1. /\ Become(r, Idle) /\ UNCHANGED <<program, consumed, cession, drawn>>
        /\ IF Ceding(r) THEN disturbed' = disturbed \cup {req[r].program} ELSE disturbed' = disturbed
    BY <1>4 DEF Crash
  <2>2. StateIsSumOfCessions'
    BY <2>1, LeaveBooks DEF Idle
  <2>3. QED
    BY <1>4, <2>2, CrashAccounts
<1>5. QED
  BY <1>1, <1>2, <1>3, <1>4 DEF Next

(***************************************************************************)
(* For any programs, layers, losses and requests: as long as no two        *)
(* cessions of a program overlapped and none died half-way, what each of   *)
(* its aggregate layers has seen and ceded is the sum over its cessions.   *)
(***************************************************************************)
THEOREM BooksMatchCessions == Spec => []StateIsSumOfCessions
<1>1. Init => Inv /\ Accounts /\ StateIsSumOfCessions
  <2>1. Init => StateIsSumOfCessions
    BY DEF Init, StateIsSumOfCessions, Exists
  <2>2. QED
    BY <2>1, InitInv, InitAccounts
<1>2. Inv /\ Accounts /\ StateIsSumOfCessions /\ [Next]_vars
        => (Inv /\ Accounts /\ StateIsSumOfCessions)'
  BY NextInv, NextBooks
<1>3. QED
  BY <1>1, <1>2, PTL DEF Spec

-----------------------------------------------------------------------------
(* Reinsurance: the rows in memory. *)

(* The rows of a program in memory, as the database has them. *)
ProgramAgrees(p) ==
  mem.programs[p] =
    IF ~ Exists(p) THEN None
    ELSE [owner |-> program[p].owner,
          layers |-> [i \in DOMAIN Layers(p) |->
            [params |-> Layers(p)[i], gross |-> consumed[p][i].gross,
             ceded |-> consumed[p][i].ceded]]]

CessionsAgree(p) == mem.cessions[p] = {[id |-> c, rem |-> cession[c].rem] : c \in CessionsOn(p)}

(* The maps of the repository. *)
MemShape ==
  mem = [programs |-> [p \in Program |-> mem.programs[p]],
         cessions |-> [p \in Program |-> mem.cessions[p]]]

MemInv == MemShape /\ MemoryAgrees

LEMMA RowsSame ==
  ASSUME NEW p, ProgramAgrees(p), mem'.programs[p] = mem.programs[p],
         program'[p] = program[p], consumed'[p] = consumed[p]
  PROVE  ProgramAgrees(p)'
  BY DEF ProgramAgrees, Exists, Layers

LEMMA CessionsSame ==
  ASSUME NEW p, CessionsAgree(p), mem'.cessions[p] = mem.cessions[p], cession' = cession
  PROVE  CessionsAgree(p)'
  BY DEF CessionsAgree, CessionsOn

LEMMA MemCreateAgrees ==
  ASSUME Inv, Accounts, MemInv, NEW r \in Request, NEW p \in Program, NEW org \in Organisation,
         NEW layers \in Placements, CreateProgram(r, p, org, layers),
         MemCreateProgram(p, org, layers)
  PROVE  MemInv'
<1>1. PICK row : row = [owner |-> org,
        layers |-> [i \in DOMAIN layers |-> [params |-> layers[i], gross |-> 0, ceded |-> 0]]]
  OBVIOUS
<1>2. mem' = [mem EXCEPT !.programs = [mem.programs EXCEPT ![p] = row]]
  BY <1>1 DEF MemCreateProgram
<1>3. PICK programs : programs = mem.programs
  OBVIOUS
<1>4. PICK cessions : cessions = mem.cessions
  OBVIOUS
<1>5. mem = [programs |-> [o \in Program |-> programs[o]],
             cessions |-> [o \in Program |-> cessions[o]]]
  BY <1>3, <1>4 DEF MemInv, MemShape
<1>6. mem' = [programs |-> [[o \in Program |-> programs[o]] EXCEPT ![p] = row],
              cessions |-> [o \in Program |-> cessions[o]]]
  BY <1>2, <1>3, <1>5
<1>7. /\ mem'.programs = [[o \in Program |-> programs[o]] EXCEPT ![p] = row]
      /\ mem'.cessions = [o \in Program |-> cessions[o]]
  BY <1>6
<1>8. /\ mem'.programs[p] = row
      /\ \A o \in Program \ {p} : mem'.programs[o] = mem.programs[o]
      /\ \A o \in Program : mem'.cessions[o] = mem.cessions[o]
      /\ mem'.programs = [o \in Program |-> mem'.programs[o]]
      /\ mem'.cessions = [o \in Program |-> mem'.cessions[o]]
  BY <1>3, <1>4, <1>7
<1>9. MemShape'
  BY <1>6, <1>7, <1>8 DEF MemShape
<1>10. cession' = cession
  BY DEF CreateProgram
<1>11. \A o \in Program \ {p} : consumed'[o] = consumed[o] /\ program'[o] = program[o]
  BY DEF CreateProgram, InsertProgram, Inv, TypeOK
<1>12. \A o \in Program \ {p} : ProgramAgrees(o)'
  BY <1>8, <1>11, RowsSame DEF MemInv, MemoryAgrees, ProgramAgrees
<1>13. \A o \in Program : CessionsAgree(o)'
  BY <1>8, <1>10, CessionsSame DEF MemInv, MemoryAgrees, CessionsAgree
<1>14. ProgramAgrees(p)'
  <2>1. PICK new : new = [owner |-> org, layers |-> layers]
    OBVIOUS
  <2>2. program' = [program EXCEPT ![p] = new] /\ new.owner = org /\ new.layers = layers
    BY <2>1 DEF CreateProgram, InsertProgram
  <2>3. program'[p] = new
    BY <2>2 DEF Inv, TypeOK
  <2>4. new # None
    <3>1. new \in ProgramRow
      <4>1. layers \in Seq(Layer)
        BY ReinsuranceAssumption
      <4>2. QED
        BY <2>1, <4>1 DEF ProgramRow
    <3>2. QED
      BY <3>1, RowAssumption
  <2>5. PICK zero : zero = [i \in DOMAIN layers |-> [gross |-> 0, ceded |-> 0]]
    OBVIOUS
  <2>6. consumed' = [consumed EXCEPT ![p] = zero]
    BY <2>5 DEF CreateProgram, InsertProgram
  <2>7. consumed'[p] = zero
    BY <2>6 DEF Inv, TypeOK
  <2>8. \A i \in DOMAIN layers : zero[i].gross = 0 /\ zero[i].ceded = 0
    BY <2>5
  <2>9. [i \in DOMAIN layers |-> [params |-> layers[i], gross |-> 0, ceded |-> 0]]
          = [i \in DOMAIN layers |->
              [params |-> layers[i], gross |-> zero[i].gross, ceded |-> zero[i].ceded]]
    BY <2>8
  <2>10. mem'.programs[p] =
           [owner |-> new.owner, layers |-> [i \in DOMAIN new.layers |->
              [params |-> new.layers[i], gross |-> zero[i].gross, ceded |-> zero[i].ceded]]]
    BY <1>1, <1>8, <2>2, <2>9
  <2>11. QED
    BY <2>3, <2>4, <2>7, <2>10 DEF ProgramAgrees, Exists, Layers
<1>15. QED
  BY <1>9, <1>12, <1>13, <1>14 DEF MemInv, MemoryAgrees, ProgramAgrees, CessionsAgree

LEMMA MemLayerAgrees ==
  ASSUME Inv, Accounts, MemInv, NEW r \in Request, CedeLayer(r), NEW i \in req[r].todo \ req'[r].todo,
         MemUpdateLayerAggregateState(req[r].program, i, NextState(req[r].state[i], req[r].rem, i))
  PROVE  MemInv'
<1>1. PICK j \in req[r].todo, p \in Program :
        /\ Ceding(r) /\ Ceding(r)' /\ p = req[r].program /\ Exists(p) /\ j \in Aggregates(p)
        /\ consumed'[p][j] = NextState(req[r].state[j], req[r].rem, j)
        /\ \A k \in DOMAIN Layers(p) \ {j} : consumed'[p][k] = consumed[p][k]
        /\ \A o \in Program \ {p} : consumed'[o] = consumed[o]
        /\ req'[r].program = p /\ req'[r].cession = req[r].cession
        /\ req'[r].rem = req[r].rem /\ req'[r].state = req[r].state
        /\ req'[r].todo = req[r].todo \ {j}
        /\ (req'[r].pc = "cede.record" => req'[r].todo = {})
        /\ \A s \in Request \ {r} : req'[s] = req[s]
        /\ UNCHANGED <<program, cession, audit, drawn, disturbed, died>>
  BY CedeLayerDoes
<1>2. i = j /\ i \in DOMAIN Layers(p)
  BY <1>1 DEF Aggregates
<1>3. PICK next : next = NextState(req[r].state[i], req[r].rem, i)
  OBVIOUS
<1>4. consumed'[p][i] = next /\ \A k \in DOMAIN Layers(p) \ {i} : consumed'[p][k] = consumed[p][k]
  BY <1>1, <1>2, <1>3
<1>5. PICK programs, cessions : programs = mem.programs /\ cessions = mem.cessions
  OBVIOUS
<1>6. mem = [programs |-> [o \in Program |-> programs[o]],
             cessions |-> [o \in Program |-> cessions[o]]]
  BY <1>5 DEF MemInv, MemShape
<1>7. PICK layers : layers = [k \in DOMAIN Layers(p) |->
        [params |-> Layers(p)[k], gross |-> consumed[p][k].gross, ceded |-> consumed[p][k].ceded]]
  OBVIOUS
<1>8. programs[p] = [owner |-> program[p].owner, layers |-> layers]
  BY <1>1, <1>5, <1>7 DEF MemInv, MemoryAgrees
<1>9. PICK row : row = [layers[i] EXCEPT !.gross = next.gross, !.ceded = next.ceded]
  OBVIOUS
<1>10. row = [params |-> Layers(p)[i], gross |-> next.gross, ceded |-> next.ceded]
  BY <1>2, <1>7, <1>9
<1>11. PICK new : new = [layers EXCEPT ![i] = row]
  OBVIOUS
<1>12. new = [k \in DOMAIN Layers(p) |->
        [params |-> Layers(p)[k], gross |-> consumed'[p][k].gross, ceded |-> consumed'[p][k].ceded]]
  <2>1. DOMAIN layers = DOMAIN Layers(p)
    BY <1>7
  <2>2. new = [k \in DOMAIN Layers(p) |-> IF k = i THEN row ELSE layers[k]]
    BY <1>11, <2>1
  <2>3. \A k \in DOMAIN Layers(p) : (IF k = i THEN row ELSE layers[k]) =
          [params |-> Layers(p)[k], gross |-> consumed'[p][k].gross, ceded |-> consumed'[p][k].ceded]
    BY <1>4, <1>7, <1>10
  <2>4. QED
    BY <2>2, <2>3
<1>13. mem' = [mem EXCEPT !.programs[p].layers[i].gross = next.gross,
                          !.programs[p].layers[i].ceded = next.ceded]
  BY <1>1, <1>3 DEF MemUpdateLayerAggregateState
<1>14. /\ mem'.programs = [o \in Program |-> mem'.programs[o]]
       /\ mem'.cessions = [o \in Program |-> mem'.cessions[o]]
       /\ mem' = [programs |-> mem'.programs, cessions |-> mem'.cessions]
       /\ mem'.programs[p] = [owner |-> program[p].owner, layers |-> new]
       /\ \A o \in Program \ {p} : mem'.programs[o] = mem.programs[o]
       /\ mem'.cessions = mem.cessions
  <2>1. PICK one : one = [mem EXCEPT !.programs[p].layers[i].gross = next.gross]
    OBVIOUS
  <2>2. mem' = [one EXCEPT !.programs[p].layers[i].ceded = next.ceded]
    BY <1>13, <2>1
  <2>3. PICK half : half = [layers[i] EXCEPT !.gross = next.gross]
    OBVIOUS
  <2>4. PICK mid : mid = [layers EXCEPT ![i] = half]
    OBVIOUS
  <2>5. DOMAIN layers = DOMAIN Layers(p) /\ i \in DOMAIN layers
    BY <1>2, <1>7
  <2>6. row = [half EXCEPT !.ceded = next.ceded]
    BY <1>9, <2>3
  <2>7. mid[i] = half /\ new = [mid EXCEPT ![i] = row]
    BY <1>11, <2>4, <2>5
  <2>8. PICK rows : rows = [o \in Program |->
          IF o = p THEN [owner |-> program[p].owner, layers |-> mid] ELSE programs[o]]
    OBVIOUS
  <2>9. one = [programs |-> rows, cessions |-> [o \in Program |-> cessions[o]]]
    <3>1. one = [mem EXCEPT !.programs = [mem.programs EXCEPT ![p] =
                   [mem.programs[p] EXCEPT !.layers = [mem.programs[p].layers EXCEPT ![i] =
                     [mem.programs[p].layers[i] EXCEPT !.gross = next.gross]]]]]
      BY <2>1
    <3>2. mem.programs[p].layers = layers
      BY <1>5, <1>8
    <3>3. one = [mem EXCEPT !.programs = [mem.programs EXCEPT ![p] =
                   [mem.programs[p] EXCEPT !.layers = mid]]]
      BY <2>3, <2>4, <3>1, <3>2
    <3>4. [mem.programs[p] EXCEPT !.layers = mid] = [owner |-> program[p].owner, layers |-> mid]
      BY <1>5, <1>8
    <3>5. [mem.programs EXCEPT ![p] = [owner |-> program[p].owner, layers |-> mid]] = rows
      BY <1>6, <2>8
    <3>6. QED
      BY <1>6, <3>3, <3>4, <3>5
  <2>10. mem' = [programs |-> [rows EXCEPT ![p] = [owner |-> program[p].owner, layers |-> new]],
                 cessions |-> [o \in Program |-> cessions[o]]]
    <3>1. mem' = [one EXCEPT !.programs = [one.programs EXCEPT ![p] =
                    [one.programs[p] EXCEPT !.layers = [one.programs[p].layers EXCEPT ![i] =
                      [one.programs[p].layers[i] EXCEPT !.ceded = next.ceded]]]]]
      BY <2>2
    <3>2. one.programs = rows /\ one.programs[p] = [owner |-> program[p].owner, layers |-> mid]
      BY <2>8, <2>9
    <3>3. one.programs[p].layers = mid
      BY <3>2
    <3>4. mem' = [one EXCEPT !.programs = [one.programs EXCEPT ![p] =
                    [one.programs[p] EXCEPT !.layers = new]]]
      BY <2>6, <2>7, <3>1, <3>3
    <3>5. [one.programs[p] EXCEPT !.layers = new] = [owner |-> program[p].owner, layers |-> new]
      BY <3>2
    <3>6. QED
      BY <2>9, <3>2, <3>4, <3>5
  <2>11. /\ mem'.programs = [rows EXCEPT ![p] = [owner |-> program[p].owner, layers |-> new]]
         /\ mem'.cessions = [o \in Program |-> cessions[o]]
         /\ mem.programs = [o \in Program |-> programs[o]]
         /\ mem.cessions = [o \in Program |-> cessions[o]]
    BY <1>6, <2>10
  <2>12. /\ mem'.programs = [o \in Program |-> mem'.programs[o]]
         /\ mem'.programs[p] = [owner |-> program[p].owner, layers |-> new]
         /\ \A o \in Program \ {p} : mem'.programs[o] = mem.programs[o]
    BY <2>8, <2>11
  <2>13. /\ mem'.cessions = [o \in Program |-> mem'.cessions[o]]
         /\ mem'.cessions = mem.cessions
    BY <2>11
  <2>14. mem' = [programs |-> mem'.programs, cessions |-> mem'.cessions]
    BY <2>10
  <2>15. QED
    BY <2>12, <2>13, <2>14
<1>15. MemShape'
  BY <1>14 DEF MemShape
<1>16. \A o \in Program \ {p} : ProgramAgrees(o)'
  BY <1>1, <1>14, RowsSame DEF MemInv, MemoryAgrees, ProgramAgrees
<1>17. \A o \in Program : CessionsAgree(o)'
  BY <1>1, <1>14, CessionsSame DEF MemInv, MemoryAgrees, CessionsAgree
<1>18. ProgramAgrees(p)'
  BY <1>1, <1>12, <1>14 DEF ProgramAgrees, Exists, Layers
<1>19. QED
  BY <1>15, <1>16, <1>17, <1>18 DEF MemInv, MemoryAgrees, ProgramAgrees, CessionsAgree

LEMMA MemRecordAgrees ==
  ASSUME Inv, Accounts, MemInv, NEW r \in Request, CedeRecord(r),
         MemRecordCession(req[r].cession, req[r].program, req[r].rem)
  PROVE  MemInv'
<1>1. PICK c \in Cession, p \in Program :
        /\ Ceding(r) /\ c = req[r].cession /\ p = req[r].program /\ Exists(p)
        /\ cession[c] = None /\ req[r].todo = {}
        /\ req[r].rem \in [0 .. Len(Layers(p)) -> Nat]
        /\ cession'[c] = [program |-> p, rem |-> req[r].rem] /\ cession'[c] # None
        /\ \A d \in Cession \ {c} : cession'[d] = cession[d]
        /\ ~ Ceding(r)' /\ \A s \in Request \ {r} : req'[s] = req[s]
        /\ UNCHANGED <<program, consumed, audit, drawn, disturbed, died>>
  BY CedeRecordDoes
<1>2. PICK programs, cessions : programs = mem.programs /\ cessions = mem.cessions
  OBVIOUS
<1>3. mem = [programs |-> [o \in Program |-> programs[o]],
             cessions |-> [o \in Program |-> cessions[o]]]
  BY <1>2 DEF MemInv, MemShape
<1>4. PICK rows : rows = mem.cessions[p] \cup {[id |-> c, rem |-> req[r].rem]}
  OBVIOUS
<1>5. mem' = [mem EXCEPT !.cessions = [mem.cessions EXCEPT ![p] = rows]]
  BY <1>1, <1>4 DEF MemRecordCession
<1>6. /\ mem'.programs = [o \in Program |-> mem'.programs[o]]
      /\ mem'.cessions = [o \in Program |-> mem'.cessions[o]]
      /\ mem' = [programs |-> mem'.programs, cessions |-> mem'.cessions]
      /\ mem'.programs = mem.programs
      /\ mem'.cessions[p] = rows
      /\ \A o \in Program \ {p} : mem'.cessions[o] = mem.cessions[o]
  BY <1>2, <1>3, <1>5
<1>7. MemShape'
  BY <1>6 DEF MemShape
<1>8. \A o \in Program : ProgramAgrees(o)'
  BY <1>1, <1>6, RowsSame DEF MemInv, MemoryAgrees, ProgramAgrees
<1>9. ASSUME NEW o \in Program PROVE CessionsAgree(o)'
  <2>1. mem.cessions[o] = {[id |-> d, rem |-> cession[d].rem] : d \in CessionsOn(o)}
    BY DEF MemInv, MemoryAgrees
  <2>2. \A d \in Cession : d \in CessionsOn(o)' <=> d \in CessionsOn(o) \/ (d = c /\ o = p)
    BY <1>1 DEF CessionsOn
  <2>3. CessionsOn(o) \subseteq Cession \ {c} /\ CessionsOn(o)' \subseteq Cession
    BY <1>1 DEF CessionsOn
  <2>4. \A d \in CessionsOn(o) : cession'[d] = cession[d]
    BY <1>1, <2>3
  <2>5. CASE o # p
    <3>1. CessionsOn(o)' = CessionsOn(o)
      BY <2>2, <2>3, <2>5
    <3>2. QED
      BY <1>6, <2>1, <2>4, <2>5, <3>1 DEF CessionsAgree
  <2>6. CASE o = p
    <3>1. CessionsOn(o)' = CessionsOn(o) \cup {c}
      BY <2>2, <2>3, <2>6
    <3>2. cession'[c].rem = req[r].rem
      BY <1>1
    <3>3. {[id |-> d, rem |-> cession'[d].rem] : d \in CessionsOn(o) \cup {c}} =
            {[id |-> d, rem |-> cession[d].rem] : d \in CessionsOn(o)}
              \cup {[id |-> c, rem |-> req[r].rem]}
      BY <2>4, <3>2
    <3>4. QED
      BY <1>4, <1>6, <2>1, <2>6, <3>1, <3>3 DEF CessionsAgree
  <2>7. QED
    BY <2>5, <2>6
<1>10. QED
  BY <1>7, <1>8, <1>9 DEF MemInv, MemoryAgrees, ProgramAgrees, CessionsAgree

(* Nothing is written. *)
LEMMA MemStays ==
  ASSUME MemInv, UNCHANGED <<program, consumed, cession, mem>>
  PROVE  MemInv'
  BY DEF MemInv, MemShape, MemoryAgrees, CessionsOn, Exists, Layers

LEMMA MemNextIsNext == [MemNext]_memVars => [Next]_vars
  BY DEF MemNext, MemCall, MemStep, Next, Call, Step, memVars

LEMMA MemNextAgrees ==
  ASSUME Inv, Accounts, MemInv, [MemNext]_memVars
  PROVE  MemInv'
<1>1. CASE UNCHANGED memVars
  BY <1>1, MemStays DEF memVars, vars
<1>2. ASSUME NEW r \in Request, MemCall(r) PROVE MemInv'
  <2>1. ASSUME NEW p \in Program, NEW org \in Organisation, NEW gross \in Losses,
               CedeRead(r, p, org, gross), UNCHANGED mem
        PROVE  MemInv'
    BY <2>1, MemStays DEF CedeRead
  <2>2. QED
    BY <1>2, <2>1, MemCreateAgrees DEF MemCall
<1>3. ASSUME NEW r \in Request, MemStep(r) PROVE MemInv'
  <2>1. CASE Record(r) /\ UNCHANGED mem
    BY <2>1, MemStays DEF Record
  <2>2. QED
    BY <1>3, <2>1, MemLayerAgrees, MemRecordAgrees DEF MemStep
<1>4. ASSUME NEW r \in Request, Crash(r), UNCHANGED mem PROVE MemInv'
  BY <1>4, MemStays DEF Crash
<1>5. QED
  BY <1>1, <1>2, <1>3, <1>4 DEF MemNext

(***************************************************************************)
(* The repository that the tests run on holds the programs, the states of  *)
(* their layers and the cessions that the database holds, for any          *)
(* programs, losses and requests, however cessions overlap and die.        *)
(***************************************************************************)
THEOREM ReinsuranceMemory == MemSpec => []MemoryAgrees
<1>1. MemStart => Inv /\ Accounts /\ StateIsSumOfCessions /\ MemInv
  <2>1. MemStart => MemInv
    <3>1. SUFFICES ASSUME MemStart PROVE MemInv
      OBVIOUS
    <3>2. MemShape
      BY <3>1 DEF MemStart, MemInit, MemShape
    <3>3. \A p \in Program : CessionsOn(p) = {} /\ ~ Exists(p)
      BY <3>1 DEF MemStart, Init, CessionsOn, Exists
    <3>4. MemoryAgrees
      BY <3>1, <3>3 DEF MemStart, MemInit, MemoryAgrees
    <3>5. QED
      BY <3>2, <3>4 DEF MemInv
  <2>2. MemStart => StateIsSumOfCessions
    BY DEF MemStart, Init, StateIsSumOfCessions, Exists
  <2>3. QED
    BY <2>1, <2>2, InitInv, InitAccounts DEF MemStart
<1>2. Inv /\ Accounts /\ StateIsSumOfCessions /\ MemInv /\ [MemNext]_memVars
        => (Inv /\ Accounts /\ StateIsSumOfCessions /\ MemInv)'
  BY NextInv, NextBooks, MemNextIsNext, MemNextAgrees
<1>3. MemInv => MemoryAgrees
  BY DEF MemInv
<1>4. QED
  BY <1>1, <1>2, <1>3, PTL DEF MemSpec

-----------------------------------------------------------------------------
(* Vault: what the guard keeps. *)

USE VaultAssumption

Fields == {"status", "amount", "participants", "bps", "mode", "expires", "put"}

(* The storage of bundles in order: rows have their fields, and what is    *)
(* released is what ReleasedOnAttestation says.  Rows and claims are those *)
(* of now or those saved for a reversal.                                   *)
Stored(rows, paid, by) ==
  /\ rows = [b \in Bundle |-> rows[b]] /\ paid = [b \in Bundle |-> paid[b]]
  /\ by = [b \in Bundle |-> by[b]]
  /\ \A b \in Bundle :
       /\ rows[b] = NoBundle \/ DOMAIN rows[b] = Fields
       /\ rows[b].status = "RELEASED" =>
            /\ paid[b] <= rows[b].amount
            /\ rows[b].mode = "ATTESTATION"
            /\ <<by[b], b, paid[b]>> \in signed

(***************************************************************************)
(* The inductive invariant: at most one call is under way, which is what   *)
(* the guard is for; the storage is in order, and so is the one that is    *)
(* saved, whose ended bundles no step of the transaction has touched.      *)
(***************************************************************************)
VaultIInv ==
  /\ calls = <<>> \/ \E c : calls = <<c>>
  /\ entered <=> ~ Quiet
  /\ signed \subseteq Signer \X Bundle \X Payouts
  /\ Stored(bundle, claimed, attestor)
  /\ ~ Quiet =>
       /\ Stored(saved.bundle, saved.claimed, saved.attestor)
       /\ \A b \in Bundle : Ended(saved.bundle[b]) =>
            bundle[b] = saved.bundle[b] /\ claimed[b] = saved.claimed[b]

LEMMA VaultInitInv == VaultInit => VaultIInv
  BY DEF VaultInit, VaultIInv, Quiet, Stored, NoBundle

(* A call that the guard lets in is the only one. *)
LEMMA EnterDoes ==
  ASSUME NEW call, VaultIInv, Enter(call)
  PROVE  /\ Quiet /\ entered' /\ calls' = <<call>> /\ ~ Quiet'
         /\ saved' = Snapshot
<1>1. Quiet
  BY DEF Enter, VaultIInv
<1>2. Append(<<>>, call) = <<call>>
  OBVIOUS
<1>3. QED
  BY <1>1, <1>2 DEF Enter, Quiet

(* So a call changes one bundle that had not ended, and saves the rest.    *)
LEMMA OperateInv ==
  ASSUME VaultIInv, NEW call, Enter(call), NEW x \in Bundle, NEW row, NEW p, NEW s,
         signed' = signed, ~ Ended(bundle[x]), bundle' = [bundle EXCEPT ![x] = row],
         claimed' = [claimed EXCEPT ![x] = p], attestor' = [attestor EXCEPT ![x] = s],
         DOMAIN row = Fields,
         row.status = "RELEASED" =>
           /\ p <= row.amount /\ row.mode = "ATTESTATION"
           /\ <<s, x, p>> \in signed
  PROVE  VaultIInv'
<1>1. /\ Quiet /\ entered' /\ calls' = <<call>> /\ ~ Quiet' /\ saved' = Snapshot
  BY EnterDoes
<1>2. Stored(bundle, claimed, attestor)
  BY DEF VaultIInv
<1>3. Stored(bundle, claimed, attestor)'
  BY <1>2 DEF Stored
<1>4. saved'.bundle = bundle /\ saved'.claimed = claimed /\ saved'.attestor = attestor
  BY <1>1 DEF Snapshot
<1>5. Stored(saved.bundle, saved.claimed, saved.attestor)'
  BY <1>2, <1>4 DEF Stored
<1>6. \A b \in Bundle : Ended(saved'.bundle[b]) =>
        bundle'[b] = saved'.bundle[b] /\ claimed'[b] = saved'.claimed[b]
  BY <1>2, <1>4 DEF Stored
<1>7. QED
  BY <1>1, <1>3, <1>5, <1>6 DEF VaultIInv

LEMMA LockCapitalInv ==
  ASSUME VaultIInv, NEW b \in Bundle, NEW input \in LockInputs, LockCapital(b, input)
  PROVE  VaultIInv'
<1> DEFINE row == [status |-> "LOCKED", amount |-> SumOver(input.amounts, Places(input)),
        participants |-> input.participants, bps |-> input.bps, mode |-> ModeOf(input),
        expires |-> input.expires, put |-> input.amounts]
           call == [bundle |-> b, legs |->
       [i \in Places(input) |-> Leg(input.participants[i], Vault, input.amounts[i])]]
<1>1. /\ bundle[b].status = "NONE" /\ bundle' = [bundle EXCEPT ![b] = row] /\ Enter(call)
      /\ signed' = signed /\ claimed' = claimed /\ attestor' = attestor
  BY DEF LockCapital
<1>2. DOMAIN row = Fields /\ row.status = "LOCKED"
  BY DEF Fields
<1> HIDE DEF row, call
<1>3. PICK p, s : /\ claimed' = [claimed EXCEPT ![b] = p]
                  /\ attestor' = [attestor EXCEPT ![b] = s]
  <2>1. PICK p, s : p = claimed[b] /\ s = attestor[b]
    OBVIOUS
  <2>2. /\ claimed' = [claimed EXCEPT ![b] = p]
        /\ attestor' = [attestor EXCEPT ![b] = s]
    BY <1>1, <2>1 DEF VaultIInv, Stored
  <2>3. QED
    BY <2>2
<1>4. ~ Ended(bundle[b])
  BY <1>1 DEF Ended
<1>5. QED
  BY <1>1, <1>2, <1>3, <1>4, OperateInv

(* What is stored of a LOCKED bundle. *)
LEMMA LockedRow ==
  ASSUME VaultIInv, NEW b \in Bundle, Locked(b)
  PROVE  bundle[b].status = "LOCKED" /\ DOMAIN bundle[b] = Fields
<1>1. bundle[b] = NoBundle \/ DOMAIN bundle[b] = Fields
  BY DEF VaultIInv, Stored
<1>2. QED
  BY <1>1 DEF Locked, NoBundle

(* A row whose status changes keeps the rest. *)
LEMMA StatusOnly ==
  ASSUME VaultIInv, NEW b \in Bundle, Locked(b), NEW status
  PROVE  LET row == [bundle[b] EXCEPT !.status = status] IN
         /\ DOMAIN row = Fields /\ row.status = status
         /\ row.amount = bundle[b].amount /\ row.mode = bundle[b].mode
<1>1. DOMAIN bundle[b] = Fields
  BY LockedRow
<1>2. QED
  BY <1>1 DEF Fields

LEMMA ReleaseClaimInv ==
  ASSUME VaultIInv, NEW b \in Bundle, NEW payout \in Payouts, ReleaseClaim(b, payout)
  PROVE  VaultIInv'
<1> DEFINE row == [bundle[b] EXCEPT !.status = "RELEASED"]
           call == [bundle |-> b, legs |-> Shares(b, payout - Fee(b, payout))]
<1>1. /\ Locked(b) /\ payout <= bundle[b].amount /\ Attested(b, payout)
      /\ bundle' = [bundle EXCEPT ![b] = row] /\ claimed' = [claimed EXCEPT ![b] = payout]
      /\ attestor' = [attestor EXCEPT ![b] = roles.signer]
      /\ Enter(call) /\ signed' = signed
  BY DEF ReleaseClaim
<1>2. /\ DOMAIN row = Fields /\ row.status = "RELEASED"
      /\ row.amount = bundle[b].amount /\ row.mode = bundle[b].mode
  BY <1>1, StatusOnly
<1>3. bundle[b].mode = "ATTESTATION" /\ <<roles.signer, b, payout>> \in signed
  BY <1>1 DEF Attested, VaultIInv
<1>4. ~ Ended(bundle[b])
  BY <1>1 DEF Locked, Ended
<1> HIDE DEF row, call
<1>5. QED
  BY <1>1, <1>2, <1>3, <1>4, OperateInv

LEMMA ReturnCapitalInv ==
  ASSUME VaultIInv, NEW b \in Bundle, ReturnCapital(b)
  PROVE  VaultIInv'
<1> DEFINE row == [bundle[b] EXCEPT !.status = "RETURNED"]
           call == [bundle |-> b, legs |-> Shares(b, bundle[b].amount)]
<1>1. /\ Locked(b) /\ bundle' = [bundle EXCEPT ![b] = row]
      /\ Enter(call) /\ signed' = signed /\ claimed' = claimed /\ attestor' = attestor
  BY DEF ReturnCapital
<1>2. DOMAIN row = Fields /\ row.status = "RETURNED"
  BY <1>1, StatusOnly
<1>3. ~ Ended(bundle[b])
  BY <1>1 DEF Locked, Ended
<1>4. /\ claimed' = [claimed EXCEPT ![b] = claimed[b]]
      /\ attestor' = [attestor EXCEPT ![b] = attestor[b]]
  BY <1>1 DEF VaultIInv, Stored
<1> HIDE DEF row, call
<1>5. QED
  BY <1>1, <1>2, <1>3, <1>4, OperateInv

LEMMA TransferInv == ASSUME VaultIInv, NEW i, Transfer(i) PROVE VaultIInv'
<1>1. PICK c : calls = <<c>>
  BY DEF VaultIInv, Transfer, Due
<1>2. Len(calls) = 1
  BY <1>1
<1>3. calls' = [calls EXCEPT ![1] = [c EXCEPT !.legs = Restrict(@, DOMAIN @ \ {i})]]
  BY <1>1, <1>2 DEF Transfer
<1>4. calls' = <<[c EXCEPT !.legs = Restrict(@, DOMAIN @ \ {i})]>>
  <2> DEFINE d == [c EXCEPT !.legs = Restrict(@, DOMAIN @ \ {i})]
  <2>1. calls' = [<<c>> EXCEPT ![1] = d]
    BY <1>1, <1>3
  <2> HIDE DEF d
  <2>2. [<<c>> EXCEPT ![1] = d] = <<d>>
    OBVIOUS
  <2>3. QED
    BY <2>1, <2>2 DEF d
<1>5. ~ Quiet /\ ~ Quiet'
  BY <1>1, <1>4 DEF Quiet
<1>6. UNCHANGED <<bundle, entered, signed, saved, claimed, attestor>>
  BY DEF Transfer
<1>7. QED
  BY <1>4, <1>5, <1>6 DEF VaultIInv, Stored

LEMMA RevertInv == ASSUME VaultIInv, NEW i, Revert(i) PROVE VaultIInv'
<1>1. ~ Quiet /\ Quiet' /\ calls' = <<>>
  BY DEF Revert, Due, Quiet
<1>2. Stored(saved.bundle, saved.claimed, saved.attestor)
  BY <1>1 DEF VaultIInv
<1>3. QED
  BY <1>1, <1>2 DEF Revert, VaultIInv, Stored

LEMMA ReturnInv == ASSUME VaultIInv, Return PROVE VaultIInv'
<1>1. PICK c : calls = <<c>>
  BY DEF VaultIInv, Return
<1>2. Front(calls) = <<>>
  BY <1>1 DEF Front
<1>3. calls' = <<>> /\ Quiet'
  BY <1>2 DEF Return, Quiet
<1>4. UNCHANGED <<bundle, signed, claimed, attestor>> /\ ~ entered'
  BY DEF Return
<1>5. QED
  BY <1>3, <1>4 DEF VaultIInv, Stored

(* Governance, signers, spenders and time touch neither bundle nor claim. *)
LEMMA QuietInv ==
  ASSUME VaultIInv, UNCHANGED <<bundle, entered, calls, saved, claimed, attestor>>,
         signed \subseteq signed', signed' \subseteq Signer \X Bundle \X Payouts
  PROVE  VaultIInv'
<1>1. /\ Stored(bundle, claimed, attestor)'
      /\ ~ Quiet => Stored(saved.bundle, saved.claimed, saved.attestor)'
  BY DEF VaultIInv, Stored
<1>2. QED
  BY <1>1 DEF VaultIInv, Quiet

LEMMA VaultNextInv == VaultIInv /\ [VaultNext]_vaultVars => VaultIInv'
<1> SUFFICES ASSUME VaultIInv, [VaultNext]_vaultVars PROVE VaultIInv'
  OBVIOUS
<1>1. CASE Operate
  BY <1>1, LockCapitalInv, ReleaseClaimInv, ReturnCapitalInv DEF Operate
<1>2. CASE Proceed
  BY <1>2, TransferInv, RevertInv DEF Proceed
<1>4. CASE Return
  BY <1>4, ReturnInv
<1>5. CASE Govern
  <2>1. UNCHANGED <<bundle, entered, calls, saved, claimed, attestor, signed>>
    BY <1>5 DEF Govern, InitializeGovernance, SetRole, SetFeeParameters
  <2>2. QED
    BY <2>1, QuietInv DEF VaultIInv
<1>6. CASE Environment
  <2>1. UNCHANGED <<bundle, entered, calls, saved, claimed, attestor>>
    BY <1>6 DEF Environment, Attest, Spend, Tick, storage
  <2>2. signed \subseteq signed' /\ signed' \subseteq Signer \X Bundle \X Payouts
    BY <1>6 DEF Environment, Attest, Spend, Tick, VaultIInv
  <2>3. QED
    BY <2>1, <2>2, QuietInv
<1>7. CASE UNCHANGED vaultVars
  BY <1>7, QuietInv DEF vaultVars, VaultIInv
<1>8. QED
  BY <1>1, <1>2, <1>4, <1>5, <1>6, <1>7 DEF VaultNext

(* Whatever is released was attested by who was the signer at the release, *)
(* whoever calls back, whatever reverts, however often the signer changes. *)
THEOREM ReleasesAreAttested == VaultSpec => []ReleasedOnAttestation
<1>1. VaultIInv => ReleasedOnAttestation
  BY DEF VaultIInv, Stored, ReleasedOnAttestation
<1>2. QED
  BY VaultInitInv, VaultNextInv, <1>1, PTL DEF VaultSpec

(* A step starts a transaction, goes on with it, reverts it or ends it.    *)
LEMMA StepEndsOnce ==
  ASSUME VaultIInv, VaultIInv', [VaultNext]_vaultVars, NEW b \in Bundle,
         Ended((IF Quiet THEN Snapshot ELSE saved).bundle[b])
  PROVE  /\ bundle'[b] = (IF Quiet THEN Snapshot ELSE saved).bundle[b]
         /\ claimed'[b] = (IF Quiet THEN Snapshot ELSE saved).claimed[b]
<1>1. CASE Quiet
  <2>1. Ended(bundle[b])
    BY <1>1 DEF Snapshot
  <2>2. bundle'[b] = bundle[b] /\ claimed'[b] = claimed[b]
    <3>1. ASSUME NEW x \in Bundle, NEW input \in LockInputs, LockCapital(x, input)
          PROVE  bundle'[b] = bundle[b] /\ claimed'[b] = claimed[b]
      BY <2>1, <3>1 DEF LockCapital, Ended, VaultIInv, Stored
    <3>2. ASSUME NEW x \in Bundle, NEW payout \in Payouts, ReleaseClaim(x, payout)
          PROVE  bundle'[b] = bundle[b] /\ claimed'[b] = claimed[b]
      BY <2>1, <3>2 DEF ReleaseClaim, Locked, Ended, VaultIInv, Stored
    <3>3. ASSUME NEW x \in Bundle, ReturnCapital(x)
          PROVE  bundle'[b] = bundle[b] /\ claimed'[b] = claimed[b]
      BY <2>1, <3>3 DEF ReturnCapital, Locked, Ended, VaultIInv, Stored
    <3>4. CASE Govern \/ Environment \/ UNCHANGED vaultVars
      BY <3>4 DEF Govern, InitializeGovernance, SetRole, SetFeeParameters, Environment, Attest,
         Spend, Tick, storage, vaultVars
    <3>5. ~ Proceed /\ ~ Return
      BY <1>1 DEF Quiet, Proceed, Due, Transfer, Revert, Return
    <3>6. QED
      BY <3>1, <3>2, <3>3, <3>4, <3>5 DEF VaultNext, Operate
  <2>3. QED
    BY <1>1, <2>2 DEF Snapshot
<1>2. CASE ~ Quiet
  <2>1. bundle[b] = saved.bundle[b] /\ claimed[b] = saved.claimed[b]
    BY <1>2 DEF VaultIInv
  <2>2. ~ Operate
    BY <1>2 DEF Operate, LockCapital, ReleaseClaim, ReturnCapital, Enter, VaultIInv
  <2>3. ASSUME NEW i, Revert(i)
        PROVE  bundle'[b] = saved.bundle[b] /\ claimed'[b] = saved.claimed[b]
    BY <2>3 DEF Revert
  <2>4. CASE (\E i : Transfer(i)) \/ Return \/ Govern \/ Environment \/ UNCHANGED vaultVars
    <3>1. UNCHANGED <<bundle, claimed>>
      BY <2>4 DEF Transfer, Return, Govern, InitializeGovernance, SetRole, SetFeeParameters,
         Environment, Attest, Spend, Tick, storage, vaultVars
    <3>2. QED
      BY <1>2, <2>1, <3>1
  <2>5. QED
    BY <1>2, <2>2, <2>3, <2>4 DEF VaultNext, Proceed
<1>3. QED
  BY <1>1, <1>2

(* The guard is enough: no callback and no reversal touches what has ended. *)
THEOREM BundlesEndOnce == VaultSpec => EndsOnce
<1>1. VaultIInv /\ VaultIInv' /\ [VaultNext]_vaultVars =>
        [\A b \in Bundle :
           LET before == IF Quiet THEN Snapshot ELSE saved IN
           Ended(before.bundle[b]) =>
             bundle'[b] = before.bundle[b] /\ claimed'[b] = before.claimed[b]]_vaultVars
  BY StepEndsOnce
<1>2. QED
  BY VaultInitInv, VaultNextInv, <1>1, PTL DEF VaultSpec, EndsOnce

HIDE VaultAssumption

-----------------------------------------------------------------------------
(* Vault: the ledger of what is locked, charged, paid and still to come. *)

(* What a stored bundle is made of. *)
Row(r) ==
  /\ r.status \in {"LOCKED", "RELEASED", "RETURNED"} /\ r.mode \in Mode /\ r.amount \in Nat
  /\ IsFiniteSet(DOMAIN r.participants) /\ DOMAIN r.bps = DOMAIN r.participants
  /\ \A i \in DOMAIN r.participants :
       r.participants[i] \in Participant /\ r.bps[i] \in Nat /\ r.put[i] \in Nat
  /\ SumOver(r.bps, DOMAIN r.participants) = Denominator

(* Every place of a bundle has its share of net, or it is to be paid yet. *)
Settled(r, s, legs, net) ==
  \A i \in DOMAIN r.participants :
    IF i \in DOMAIN legs
    THEN s[i] = 0 /\ legs[i] = Leg(Vault, r.participants[i], Share(r, net, i))
    ELSE s[i] = Share(r, net, i)

(* Every place of a bundle has been charged, or it is to be charged yet.   *)
Charged(r, s, legs) ==
  \A i \in DOMAIN r.participants :
    /\ s[i] = 0
    /\ i \in DOMAIN legs => legs[i] = Leg(r.participants[i], Vault, r.put[i])

(* What a bundle's places have received fits what has become of it. *)
Accounted(r, paid, s, legs) ==
  \/ r = NoBundle /\ DOMAIN s = {} /\ DOMAIN legs = {}
  \/ /\ Row(r) /\ s = [i \in DOMAIN r.participants |-> s[i]]
     /\ DOMAIN legs \subseteq DOMAIN r.participants
     /\ \/ r.status = "LOCKED" /\ Charged(r, s, legs)
        \/ r.status = "RETURNED" /\ Settled(r, s, legs, r.amount)
        \/ r.status = "RELEASED" /\ paid \in Nat /\ \E net \in 0 .. paid : Settled(r, s, legs, net)

Of(x, legs, b) == IF b = x THEN legs ELSE <<>>

(* The books of the vault while the legs of a call on x are to come. *)
Ledger(rows, paid, s, bal, x, legs) ==
  /\ s = [b \in Bundle |-> s[b]] /\ bal \in [Account -> Nat]
  /\ IsFiniteSet({b \in Bundle : rows[b].status # "NONE"})
  /\ \A b \in Bundle : Accounted(rows[b], paid[b], s[b], Of(x, legs, b))
  /\ bal[Vault] + Incoming(legs, Vault) >= Outgoing(legs, Vault) + Held(rows)

Config ==
  /\ roles \in [governance : Governance \cup {Unset}, relayer : Relayer \cup {Unset},
                signer : Signer \cup {Unset}]
  /\ fees \in Fees \cup {[base |-> 0, premium |-> 0]}
  /\ now \in 0 .. MaxTime

LedgerInv ==
  /\ VaultIInv /\ Config
  /\ Quiet => Ledger(bundle, claimed, sent, balance, Unset, <<>>)
  /\ ~ Quiet =>
       /\ Ledger(saved.bundle, saved.claimed, saved.sent, saved.balance, Unset, <<>>)
       /\ calls[1].bundle \in Bundle
       /\ calls[1] = [bundle |-> calls[1].bundle, legs |-> calls[1].legs]
       /\ Ledger(bundle, claimed, sent, balance, calls[1].bundle, calls[1].legs)

-----------------------------------------------------------------------------
(* Sums of shares. *)

LEMMA TimesMonotone ==
  ASSUME NEW d \in Nat \ {0}, NEW x \in Int, NEW y \in Int, d * x <= d * y
  PROVE  x <= y
<1>1. SUFFICES ASSUME x >= y + 1 PROVE FALSE
  OBVIOUS
<1>2. d * (x - (y + 1)) >= 0
  <2>1. x - (y + 1) \in Nat
    BY <1>1
  <2>2. \A m, n \in Nat : m * n >= 0
    OBVIOUS
  <2>3. QED
    BY <2>1, <2>2
<1>3. d * (x - (y + 1)) = d * x - d * y - d
  OBVIOUS
<1>4. QED
  BY <1>2, <1>3

(* A share is a number of minor units, and as many times the denominator   *)
(* is at most the exact amount.                                            *)
LEMMA ShareIsFloor ==
  ASSUME NEW r, NEW i, r.bps[i] \in Nat, NEW net \in Nat
  PROVE  /\ Share(r, net, i) \in Nat
         /\ Denominator * Share(r, net, i) <= net * r.bps[i]
         /\ net * r.bps[i] < Denominator * Share(r, net, i) + Denominator
<1>1. PICK x \in Nat : x = net * r.bps[i]
  OBVIOUS
<1>2. PICK d \in Nat \ {0} : d = Denominator
  BY VaultAssumption
<1>3. x \div d \in Nat /\ d * (x \div d) <= x /\ x < d * (x \div d) + d
  OBVIOUS
<1>4. QED
  BY <1>1, <1>2, <1>3 DEF Share

(***************************************************************************)
(* What is paid out by the shares of a bundle is at most the total that is *)
(* divided: rounding down loses to the vault, never to the others.         *)
(***************************************************************************)
LEMMA SharesWithin ==
  ASSUME NEW r, Row(r), NEW net \in Nat, NEW A \in SUBSET DOMAIN r.participants, NEW s,
         \A i \in A : s[i] \in Nat /\ s[i] <= Share(r, net, i)
  PROVE  SumOver(s, A) \in 0 .. net
<1> DEFINE P == DOMAIN r.participants
           d == Denominator
           f == [i \in P |-> Share(r, net, i)]
           scaled == [i \in P |-> d * f[i]]
           exact == [i \in P |-> net * r.bps[i]]
<1>0. IsFiniteSet(P) /\ d \in Nat \ {0} /\ IsFiniteSet(A)
  BY FS_Subset, VaultAssumption DEF Row
<1>1. \A i \in P : /\ f[i] \in Nat /\ scaled[i] = d * f[i] /\ exact[i] = net * r.bps[i]
                   /\ r.bps[i] \in Nat /\ scaled[i] <= exact[i]
  BY ShareIsFloor DEF Row
<1>2. \A i \in P : scaled[i] \in Nat /\ exact[i] \in Nat
  <2>1. \A m, n \in Nat : m * n \in Nat
    OBVIOUS
  <2> HIDE DEF P, d, f, scaled, exact
  <2>2. QED
    BY <1>0, <1>1, <2>1
<1>3. SumOver(r.bps, P) = d
  BY DEF Row
<1>4. \A i \in A : s[i] \in Nat /\ s[i] <= f[i]
  OBVIOUS
<1>5. net \in Int /\ d \in Int /\ \A i \in P : f[i] \in Int /\ r.bps[i] \in Int
  <2> HIDE DEF P, d, f
  <2>1. QED
    BY <1>0, <1>1
<1>6. A \in SUBSET P
  OBVIOUS
<1> HIDE DEF P, d, f, scaled, exact
<1>7. SumOver(scaled, P) = d * SumOver(f, P)
  BY <1>0, <1>1, <1>5, SumScale
<1>8. SumOver(exact, P) = net * SumOver(r.bps, P)
  BY <1>0, <1>1, <1>5, SumScale
<1>9. SumOver(scaled, P) <= SumOver(exact, P)
  BY <1>0, <1>1, <1>2, SumMonotone, P \in SUBSET P
<1>10. SumOver(f, P) \in Int /\ SumOver(s, A) \in Nat
  BY <1>0, <1>1, <1>4, SumNat
<1>11. SumOver(f, P) <= net
  <2>1. d * SumOver(f, P) <= d * net
    BY <1>3, <1>5, <1>7, <1>8, <1>9, <1>10
  <2>2. QED
    BY <1>0, <1>5, <1>10, <2>1, TimesMonotone
<1>12. SumOver(s, A) <= SumOver(f, P)
  BY <1>0, <1>1, <1>4, <1>6, SumMonotone
<1>13. QED
  BY <1>10, <1>11, <1>12

(* A place has at most its share of net when it is settled. *)
LEMMA SettledPaid ==
  ASSUME NEW r, Row(r), NEW net \in Nat, NEW s, NEW legs, s = [i \in DOMAIN r.participants |-> s[i]],
         Settled(r, s, legs, net)
  PROVE  SumOver(s, DOMAIN s) \in 0 .. net
<1>1. \A i \in DOMAIN r.participants : Share(r, net, i) \in Nat
  BY ShareIsFloor DEF Row
<1>2. \A i \in DOMAIN r.participants : s[i] \in Nat /\ s[i] <= Share(r, net, i)
  BY <1>1 DEF Settled
<1>3. DOMAIN s = DOMAIN r.participants
  OBVIOUS
<1>4. QED
  BY <1>2, <1>3, SharesWithin

LEMMA ChargedPaid ==
  ASSUME NEW r, Row(r), NEW s, NEW legs, s = [i \in DOMAIN r.participants |-> s[i]],
         Charged(r, s, legs)
  PROVE  SumOver(s, DOMAIN s) = 0
<1>1. \A i \in DOMAIN r.participants : Share(r, 0, i) \in Nat
  BY ShareIsFloor DEF Row
<1>2. \A i \in DOMAIN r.participants : s[i] \in Nat /\ s[i] <= Share(r, 0, i)
  BY <1>1 DEF Charged
<1>3. DOMAIN s = DOMAIN r.participants
  OBVIOUS
<1>4. SumOver(s, DOMAIN s) \in 0 .. 0
  BY <1>2, <1>3, SharesWithin
<1>5. QED
  BY <1>4

(* What a ledger says of the payments. *)
LEMMA LedgerPays ==
  ASSUME NEW rows, NEW paid, NEW s, NEW bal, NEW x, NEW legs, Ledger(rows, paid, s, bal, x, legs),
         NEW b \in Bundle
  PROVE  /\ rows[b].status \in {"NONE", "LOCKED"} => SumOver(s[b], DOMAIN s[b]) = 0
         /\ rows[b].status = "RETURNED" => SumOver(s[b], DOMAIN s[b]) <= rows[b].amount
         /\ rows[b].status = "RELEASED" => SumOver(s[b], DOMAIN s[b]) <= paid[b]
<1>1. PICK r, p, t, l : r = rows[b] /\ p = paid[b] /\ t = s[b] /\ l = Of(x, legs, b)
  OBVIOUS
<1>2. Accounted(r, p, t, l)
  BY <1>1 DEF Ledger
<1>3. CASE r = NoBundle /\ DOMAIN t = {}
  BY <1>1, <1>3, SumEmpty DEF NoBundle
<1>4. CASE Row(r) /\ t = [i \in DOMAIN r.participants |-> t[i]] /\ r.status = "LOCKED" /\ Charged(r, t, l)
  BY <1>1, <1>4, ChargedPaid
<1>5. CASE Row(r) /\ t = [i \in DOMAIN r.participants |-> t[i]] /\ r.status = "RETURNED" /\ Settled(r, t, l, r.amount)
  <2>1. SumOver(t, DOMAIN t) \in 0 .. r.amount /\ r.amount \in Nat
    BY <1>5, SettledPaid DEF Row
  <2>2. QED
    BY <1>1, <1>5, <2>1
<1>6. CASE Row(r) /\ t = [i \in DOMAIN r.participants |-> t[i]] /\ r.status = "RELEASED" /\ p \in Nat
           /\ \E net \in 0 .. p : Settled(r, t, l, net)
  <2>1. PICK net \in 0 .. p : Settled(r, t, l, net)
    BY <1>6
  <2>2. net \in Nat /\ net <= p
    BY <1>6
  <2>3. SumOver(t, DOMAIN t) \in 0 .. net
    BY <1>6, <2>1, <2>2, SettledPaid
  <2>4. QED
    BY <1>1, <1>6, <2>2, <2>3
<1>7. QED
  BY <1>2, <1>3, <1>4, <1>5, <1>6 DEF Accounted

-----------------------------------------------------------------------------
(* Legs and what they move. *)

LegsFine(legs) ==
  /\ IsFiniteSet(DOMAIN legs)
  /\ \A i \in DOMAIN legs :
       /\ legs[i].amount \in Nat /\ legs[i].from # legs[i].to
       /\ legs[i].from \in Account /\ legs[i].to \in Account

LEMMA NothingMoves == \A a : Incoming(<<>>, a) = 0 /\ Outgoing(<<>>, a) = 0
<1>1. DOMAIN <<>> = {}
  OBVIOUS
<1>2. QED
  BY <1>1, SumEmpty DEF Incoming, Outgoing

LEMMA MovedIsNat ==
  ASSUME NEW legs, LegsFine(legs), NEW a
  PROVE  Incoming(legs, a) \in Nat /\ Outgoing(legs, a) \in Nat
<1> DEFINE D == DOMAIN legs
           f == [i \in D |-> IF legs[i].to = a THEN legs[i].amount ELSE 0]
           g == [i \in D |-> IF legs[i].from = a THEN legs[i].amount ELSE 0]
<1>1. IsFiniteSet(D) /\ \A i \in D : f[i] \in Nat /\ g[i] \in Nat
  BY DEF LegsFine
<1> HIDE DEF f, g, D
<1>2. SumOver(f, D) \in Nat /\ SumOver(g, D) \in Nat
  BY <1>1, SumNat
<1>3. QED
  BY <1>2 DEF Incoming, Outgoing, f, g, D

(* Doing one leg takes what it moves from what is to come. *)
LEMMA DoLeg ==
  ASSUME NEW legs, LegsFine(legs), NEW i \in DOMAIN legs, NEW a
  PROVE  LET rest == Restrict(legs, DOMAIN legs \ {i}) IN
         /\ LegsFine(rest) /\ DOMAIN rest = DOMAIN legs \ {i}
         /\ \A j \in DOMAIN rest : rest[j] = legs[j]
         /\ Incoming(legs, a) = (IF legs[i].to = a THEN legs[i].amount ELSE 0) + Incoming(rest, a)
         /\ Outgoing(legs, a) = (IF legs[i].from = a THEN legs[i].amount ELSE 0) + Outgoing(rest, a)
<1> DEFINE D == DOMAIN legs
           rest == Restrict(legs, D \ {i})
           R == DOMAIN rest
           f == [j \in D |-> IF legs[j].to = a THEN legs[j].amount ELSE 0]
           g == [j \in D |-> IF legs[j].from = a THEN legs[j].amount ELSE 0]
           fr == [j \in R |-> IF rest[j].to = a THEN rest[j].amount ELSE 0]
           gr == [j \in R |-> IF rest[j].from = a THEN rest[j].amount ELSE 0]
<1>1. R = D \ {i} /\ \A j \in R : rest[j] = legs[j]
  BY DEF Restrict
<1>2. IsFiniteSet(D) /\ IsFiniteSet(R)
  BY <1>1, FS_Subset, R \subseteq D DEF LegsFine
<1>3. LegsFine(rest)
  BY <1>1, <1>2 DEF LegsFine
<1>4. /\ \A j \in D : f[j] \in Int /\ g[j] \in Int
      /\ \A j \in R : fr[j] = f[j] /\ gr[j] = g[j]
      /\ f[i] = (IF legs[i].to = a THEN legs[i].amount ELSE 0)
      /\ g[i] = (IF legs[i].from = a THEN legs[i].amount ELSE 0)
  <2>1. \A j \in D : legs[j].amount \in Int
    BY DEF LegsFine
  <2>2. \A j \in D : f[j] \in Int
    BY <2>1
  <2>3. \A j \in D : g[j] \in Int
    BY <2>1
  <2>4. \A j \in R : j \in D /\ rest[j] = legs[j]
    BY <1>1
  <2>5. \A j \in R : fr[j] = f[j]
    BY <2>4
  <2>6. \A j \in R : gr[j] = g[j]
    BY <2>4
  <2>7. i \in D
    OBVIOUS
  <2>8. QED
    BY <2>2, <2>3, <2>5, <2>6, <2>7
<1>5. /\ Incoming(legs, a) = SumOver(f, D) /\ Outgoing(legs, a) = SumOver(g, D)
      /\ Incoming(rest, a) = SumOver(fr, R) /\ Outgoing(rest, a) = SumOver(gr, R)
  BY DEF Incoming, Outgoing
<1>6. i \in D
  OBVIOUS
<1> HIDE DEF f, g, fr, gr, D, R
<1>7. SumOver(f, D) = f[i] + SumOver(f, D \ {i}) /\ SumOver(g, D) = g[i] + SumOver(g, D \ {i})
  BY <1>2, <1>4, <1>6, SumRemove
<1>8. SumOver(fr, R) = SumOver(f, R) /\ SumOver(gr, R) = SumOver(g, R)
  BY <1>2, <1>4, SumCong
<1>9. QED
  BY <1>1, <1>3, <1>4, <1>5, <1>7, <1>8 DEF D, R

(* The legs of a call that is under way. *)
LEMMA CallLegs ==
  ASSUME NEW r, NEW paid, NEW s, NEW legs, Accounted(r, paid, s, legs)
  PROVE  /\ LegsFine(legs)
         /\ r.status = "LOCKED" => \A i \in DOMAIN legs : legs[i].to = Vault
         /\ r.status # "LOCKED" => \A i \in DOMAIN legs : legs[i].from = Vault
<1>0. Vault \in Account /\ Vault \notin Participant /\ Participant \subseteq Account
  BY VaultAssumption DEF Account
<1>1. CASE r = NoBundle /\ DOMAIN legs = {}
  <2>1. IsFiniteSet(DOMAIN legs)
    BY <1>1, FS_EmptySet
  <2>2. QED
    BY <1>1, <2>1 DEF LegsFine, NoBundle
<1>2. CASE Row(r) /\ DOMAIN legs \subseteq DOMAIN r.participants
  <2>1. IsFiniteSet(DOMAIN legs)
    BY <1>2, FS_Subset DEF Row
  <2>2. CASE r.status = "LOCKED" /\ Charged(r, s, legs)
    <3>1. \A i \in DOMAIN legs : /\ legs[i] = Leg(r.participants[i], Vault, r.put[i])
                                 /\ r.participants[i] \in Participant /\ r.put[i] \in Nat
      BY <1>2, <2>2 DEF Charged, Row
    <3>2. QED
      BY <1>0, <2>1, <2>2, <3>1 DEF LegsFine, Leg
  <2>3. ASSUME NEW net \in Nat, Settled(r, s, legs, net), r.status # "LOCKED"
        PROVE  LegsFine(legs) /\ \A i \in DOMAIN legs : legs[i].from = Vault
    <3>1. \A i \in DOMAIN legs : /\ legs[i] = Leg(Vault, r.participants[i], Share(r, net, i))
                                 /\ r.participants[i] \in Participant /\ r.bps[i] \in Nat
      BY <1>2, <2>3 DEF Settled, Row
    <3>2. \A i \in DOMAIN legs : Share(r, net, i) \in Nat
      BY <3>1, ShareIsFloor
    <3>3. QED
      BY <1>0, <2>1, <3>1, <3>2 DEF LegsFine, Leg
  <2>4. CASE r.status = "RETURNED" /\ Settled(r, s, legs, r.amount)
    <3>1. r.amount \in Nat
      BY <1>2 DEF Row
    <3>2. QED
      BY <2>3, <2>4, <3>1
  <2>5. CASE r.status = "RELEASED" /\ paid \in Nat /\ \E net \in 0 .. paid : Settled(r, s, legs, net)
    <3>1. PICK net \in 0 .. paid : Settled(r, s, legs, net)
      BY <2>5
    <3>2. net \in Nat
      BY <2>5, <3>1
    <3>3. QED
      BY <2>3, <2>5, <3>1, <3>2
  <2>6. r # NoBundle
    BY <1>2 DEF Row, NoBundle
  <2>7. QED
    BY <2>2, <2>4, <2>5, <2>6 DEF Accounted
<1>3. QED
  BY <1>1, <1>2 DEF Accounted

-----------------------------------------------------------------------------
(* What is locked, in all. *)

LockedIn(rows) == {b \in Bundle : rows[b].status = "LOCKED"}

LEMMA HeldIsNat ==
  ASSUME NEW rows, IsFiniteSet(LockedIn(rows)), \A b \in LockedIn(rows) : rows[b].amount \in Nat
  PROVE  Held(rows) \in Nat
<1> DEFINE f == [b \in Bundle |-> rows[b].amount]
<1>1. \A b \in LockedIn(rows) : f[b] \in Nat
  BY DEF LockedIn
<1>2. Held(rows) = SumOver(f, LockedIn(rows))
  BY DEF Held, LockedIn
<1> HIDE DEF f
<1>3. QED
  BY <1>1, <1>2, SumNat

(* A bundle that is no longer locked is no longer held. *)
LEMMA Unhold ==
  ASSUME NEW rows, NEW less, IsFiniteSet(LockedIn(rows)),
         \A b \in LockedIn(rows) : rows[b].amount \in Nat,
         NEW x \in LockedIn(rows), less[x].status # "LOCKED",
         \A b \in Bundle \ {x} : less[b] = rows[b]
  PROVE  Held(rows) = rows[x].amount + Held(less)
<1> DEFINE f == [b \in Bundle |-> rows[b].amount]
           g == [b \in Bundle |-> less[b].amount]
           L == LockedIn(rows)
<1>1. LockedIn(less) = L \ {x}
  BY DEF LockedIn
<1>2. /\ \A b \in L : f[b] \in Int /\ f[x] = rows[x].amount
      /\ \A b \in L \ {x} : g[b] = f[b]
  BY DEF LockedIn
<1>3. Held(rows) = SumOver(f, L) /\ Held(less) = SumOver(g, L \ {x})
  BY <1>1 DEF Held, LockedIn
<1>4. IsFiniteSet(L) /\ IsFiniteSet(L \ {x}) /\ x \in L
  BY FS_Subset, L \ {x} \subseteq L
<1> HIDE DEF f, g, L
<1>5. SumOver(f, L) = f[x] + SumOver(f, L \ {x})
  BY <1>2, <1>4, SumRemove
<1>6. SumOver(g, L \ {x}) = SumOver(f, L \ {x})
  BY <1>2, <1>4, SumCong
<1>7. QED
  BY <1>2, <1>3, <1>4, <1>5, <1>6

(* What a ledger says of its rows. *)
LEMMA LedgerHolds ==
  ASSUME NEW rows, NEW paid, NEW s, NEW bal, NEW x, NEW legs, Ledger(rows, paid, s, bal, x, legs)
  PROVE  /\ IsFiniteSet(LockedIn(rows))
         /\ \A b \in Bundle : rows[b].status # "NONE" => Row(rows[b])
         /\ \A b \in LockedIn(rows) : rows[b].amount \in Nat
         /\ Held(rows) \in Nat
<1>1. IsFiniteSet(LockedIn(rows))
  <2>1. LockedIn(rows) \subseteq {b \in Bundle : rows[b].status # "NONE"}
    BY DEF LockedIn
  <2>2. QED
    BY <2>1, FS_Subset DEF Ledger
<1>2. \A b \in Bundle : rows[b].status # "NONE" => Row(rows[b])
  BY DEF Ledger, Accounted, NoBundle
<1>3. \A b \in LockedIn(rows) : rows[b].amount \in Nat
  BY <1>2 DEF LockedIn, Row
<1>4. QED
  BY <1>1, <1>2, <1>3, HeldIsNat

-----------------------------------------------------------------------------
(* The ledger at each action. *)

(* A status that changes leaves the rest of a row alone. *)
LEMMA RowKeeps ==
  ASSUME NEW r, DOMAIN r = Fields, NEW status, NEW new, new = [r EXCEPT !.status = status]
  PROVE  /\ new.status = status /\ new.participants = r.participants /\ new.bps = r.bps
         /\ new.amount = r.amount /\ new.mode = r.mode /\ new.put = r.put
  BY DEF Fields

(* A bundle is locked: what its places are charged covers it. *)
LEMMA LockLedger ==
  ASSUME Ledger(bundle, claimed, sent, balance, Unset, <<>>), NEW b \in Bundle,
         NEW input \in LockInputs, LockCapital(b, input),
         NEW legs, legs = [i \in Places(input) |-> Leg(input.participants[i], Vault, input.amounts[i])],
         bundle = [o \in Bundle |-> bundle[o]]
  PROVE  Ledger(bundle', claimed', sent', balance', b, legs)
<1> DEFINE row == [status |-> "LOCKED", amount |-> SumOver(input.amounts, Places(input)),
        participants |-> input.participants, bps |-> input.bps, mode |-> ModeOf(input),
        expires |-> input.expires, put |-> input.amounts]
<1>1. /\ bundle[b].status = "NONE" /\ bundle' = [bundle EXCEPT ![b] = row]
      /\ sent' = [sent EXCEPT ![b] = [i \in Places(input) |-> 0]]
      /\ Matching(input) /\ SumOver(input.bps, DOMAIN input.bps) = Denominator
      /\ claimed' = claimed /\ balance' = balance
  BY DEF LockCapital
<1>2. PICK new : new = row
  OBVIOUS
<1>3. /\ new.status = "LOCKED" /\ new.amount = SumOver(input.amounts, Places(input))
      /\ new.participants = input.participants /\ new.bps = input.bps
      /\ new.mode = ModeOf(input) /\ new.put = input.amounts
  BY <1>2
<1>4. bundle' = [bundle EXCEPT ![b] = new]
  BY <1>1, <1>2
<1> HIDE DEF row
<1>5. bundle'[b] = new /\ \A o \in Bundle \ {b} : bundle'[o] = bundle[o]
  BY <1>4
<1> DEFINE P == Places(input)
<1>6. input \in LockInput
  BY VaultAssumption
<1>7. /\ IsFiniteSet(P) /\ P = DOMAIN input.participants
      /\ DOMAIN input.amounts = P /\ DOMAIN input.bps = P
      /\ \A i \in P : /\ input.participants[i] \in Participant
                      /\ input.amounts[i] \in Nat /\ input.bps[i] \in Nat
  <2>1. P = 1 .. Len(input.participants) /\ Len(input.participants) \in Nat
        /\ \A i \in P : input.participants[i] \in Participant
    BY <1>6 DEF LockInput, Places
  <2>2. IsFiniteSet(P)
    BY <2>1, FS_Interval, 1 \in Int, Len(input.participants) \in Int
  <2>3. DOMAIN input.amounts = P /\ DOMAIN input.bps = P
    BY <1>1 DEF Matching
  <2>4. input.amounts \in Seq(Nat) /\ input.bps \in Seq(Nat)
    BY <1>6 DEF LockInput
  <2>5. \A i \in DOMAIN input.amounts : input.amounts[i] \in Nat
    BY <2>4
  <2>6. \A i \in DOMAIN input.bps : input.bps[i] \in Nat
    BY <2>4
  <2>7. QED
    BY <2>1, <2>2, <2>3, <2>5, <2>6 DEF Places
<1>8. new.amount \in Nat
  <2> HIDE DEF P
  <2>1. SumOver(input.amounts, P) \in Nat
    BY <1>7, SumNat
  <2>2. QED
    BY <1>3, <2>1 DEF P
<1>9. Row(new)
  BY <1>1, <1>3, <1>7, <1>8 DEF Row, ModeOf, Mode
<1>10. sent' = [o \in Bundle |-> sent'[o]] /\ sent'[b] = [i \in P |-> 0]
       /\ \A o \in Bundle \ {b} : sent'[o] = sent[o]
  BY <1>1 DEF Ledger
<1>11. Accounted(new, claimed'[b], sent'[b], legs)
  <2>1. Charged(new, sent'[b], legs)
    BY <1>3, <1>7, <1>10 DEF Charged
  <2>2. DOMAIN legs = P /\ DOMAIN new.participants = P
    BY <1>3, <1>7
  <2>3. QED
    BY <1>3, <1>9, <1>10, <2>1, <2>2 DEF Accounted
<1>12. \A o \in Bundle : Accounted(bundle'[o], claimed'[o], sent'[o], Of(b, legs, o))
  <2>1. ASSUME NEW o \in Bundle \ {b}
        PROVE  Accounted(bundle'[o], claimed'[o], sent'[o], Of(b, legs, o))
    <3>1. Accounted(bundle[o], claimed[o], sent[o], <<>>)
      BY DEF Ledger, Of
    <3>2. QED
      BY <1>1, <1>5, <1>10, <3>1 DEF Of
  <2>2. QED
    BY <1>5, <1>11, <2>1 DEF Of
<1>13. IsFiniteSet({o \in Bundle : bundle'[o].status # "NONE"})
  <2> DEFINE old == {o \in Bundle : bundle[o].status # "NONE"}
  <2>1. IsFiniteSet(old)
    BY DEF Ledger
  <2>2. {o \in Bundle : bundle'[o].status # "NONE"} \subseteq old \cup {b}
    BY <1>5
  <2> HIDE DEF old
  <2>3. IsFiniteSet(old \cup {b})
    BY <2>1, FS_AddElement
  <2>4. QED
    BY <2>2, <2>3, FS_Subset
<1>14. Incoming(legs, Vault) = new.amount
  <2> DEFINE f == [i \in DOMAIN legs |-> IF legs[i].to = Vault THEN legs[i].amount ELSE 0]
             g == input.amounts
  <2>1. \A i \in P : f[i] = g[i]
    BY DEF Leg
  <2>2. DOMAIN legs = P
    OBVIOUS
  <2>3. Incoming(legs, Vault) = SumOver(f, P)
    BY <2>2 DEF Incoming
  <2> HIDE DEF f, g, P
  <2>4. SumOver(f, P) = SumOver(g, P)
    BY <1>7, <2>1, SumCong
  <2>5. QED
    BY <1>3, <2>3, <2>4 DEF g, P
<1>15. Outgoing(legs, Vault) = 0
  <2> DEFINE f == [i \in DOMAIN legs |-> IF legs[i].from = Vault THEN legs[i].amount ELSE 0]
  <2>1. \A i \in P : f[i] = 0
    <3>1. Vault \notin Participant
      BY VaultAssumption
    <3>2. QED
      BY <1>7, <3>1 DEF Leg
  <2>2. DOMAIN legs = P
    OBVIOUS
  <2>3. Outgoing(legs, Vault) = SumOver(f, P)
    BY <2>2 DEF Outgoing
  <2> HIDE DEF f, P
  <2>4. SumOver(f, P) = 0
    BY <1>7, <2>1, SumZero
  <2>5. QED
    BY <2>3, <2>4
<1>16. Held(bundle') = new.amount + Held(bundle)
  <2> DEFINE rows == bundle'
  <2>1. /\ IsFiniteSet(LockedIn(bundle)) /\ \A o \in LockedIn(bundle) : bundle[o].amount \in Nat
    BY LedgerHolds
  <2>2. LockedIn(rows) = LockedIn(bundle) \cup {b}
    BY <1>1, <1>3, <1>5 DEF LockedIn
  <2>3. IsFiniteSet(LockedIn(rows))
    BY <2>1, <2>2, FS_AddElement
  <2>4. b \in LockedIn(rows) /\ \A o \in LockedIn(rows) : rows[o].amount \in Nat
    BY <1>1, <1>5, <1>8, <2>1, <2>2 DEF LockedIn
  <2>5. bundle[b].status # "LOCKED" /\ \A o \in Bundle \ {b} : bundle[o] = rows[o]
    BY <1>1, <1>5
  <2>6. rows[b] = new
    BY <1>5
  <2> HIDE DEF rows
  <2>7. Held(rows) = rows[b].amount + Held(bundle)
    BY <2>3, <2>4, <2>5, Unhold
  <2>8. QED
    BY <2>6, <2>7 DEF rows
<1>17. Incoming(<<>>, Vault) = 0 /\ Outgoing(<<>>, Vault) = 0 /\ Held(bundle) \in Nat
  BY NothingMoves, LedgerHolds
<1>18. balance[Vault] \in Nat
  BY DEF Ledger, Account
<1>19. balance'[Vault] + Incoming(legs, Vault) >= Outgoing(legs, Vault) + Held(bundle')
  <2>1. balance[Vault] + Incoming(<<>>, Vault) >= Outgoing(<<>>, Vault) + Held(bundle)
    BY DEF Ledger
  <2>2. balance[Vault] >= Held(bundle)
    BY <1>17, <1>18, <2>1
  <2>3. balance'[Vault] = balance[Vault]
    BY <1>1
  <2>4. QED
    BY <1>8, <1>14, <1>15, <1>16, <1>17, <1>18, <2>2, <2>3
<1>20. balance' \in [Account -> Nat]
  BY <1>1 DEF Ledger
<1>21. QED
  BY <1>10, <1>12, <1>13, <1>19, <1>20 DEF Ledger

(* A bundle ends: its places are owed no more than what was held for it.   *)
LEMMA PayLedger ==
  ASSUME Ledger(bundle, claimed, sent, balance, Unset, <<>>), NEW b \in Bundle,
         bundle[b].status = "LOCKED", DOMAIN bundle[b] = Fields, bundle = [o \in Bundle |-> bundle[o]],
         NEW status \in {"RELEASED", "RETURNED"}, NEW net \in Nat, net <= bundle[b].amount,
         status = "RETURNED" => net = bundle[b].amount,
         status = "RELEASED" => claimed'[b] \in Nat /\ net <= claimed'[b],
         bundle' = [bundle EXCEPT ![b].status = status],
         \A o \in Bundle \ {b} : claimed'[o] = claimed[o], sent' = sent, balance' = balance,
         NEW legs, legs = Shares(b, net)
  PROVE  Ledger(bundle', claimed', sent', balance', b, legs)
<1>1. PICK r : r = bundle[b]
  OBVIOUS
<1>2. PICK new : new = [r EXCEPT !.status = status]
  OBVIOUS
<1>3. /\ new.status = status /\ new.participants = r.participants /\ new.bps = r.bps
      /\ new.amount = r.amount /\ new.mode = r.mode /\ new.put = r.put
  BY <1>1, <1>2, RowKeeps
<1>4. bundle'[b] = new /\ \A o \in Bundle \ {b} : bundle'[o] = bundle[o]
  BY <1>1, <1>2
<1>5. Row(r)
  BY <1>1, LedgerHolds
<1>6. Row(new)
  BY <1>3, <1>5 DEF Row
<1> DEFINE P == DOMAIN r.participants
<1>7. \A i \in P : r.bps[i] \in Nat /\ Share(r, net, i) \in Nat /\ Share(new, net, i) = Share(r, net, i)
  <2>1. \A i \in P : r.bps[i] \in Nat
    BY <1>5 DEF Row
  <2>2. \A i \in P : Share(new, net, i) = Share(r, net, i)
    BY <1>3 DEF Share
  <2>3. QED
    BY <2>1, <2>2, ShareIsFloor
<1>8. /\ DOMAIN legs = {i \in P : Share(r, net, i) > 0}
      /\ \A i \in DOMAIN legs : legs[i] = Leg(Vault, r.participants[i], Share(r, net, i))
  BY <1>1 DEF Shares
<1>9. sent[b] = [i \in P |-> sent[b][i]] /\ \A i \in P : sent[b][i] = 0
  <2>1. Accounted(r, claimed[b], sent[b], <<>>) /\ r # NoBundle /\ r.status = "LOCKED"
    BY <1>1 DEF Ledger, Of, NoBundle
  <2>2. QED
    BY <2>1 DEF Accounted, Charged
<1>10. Settled(new, sent[b], legs, net)
  <2>1. ASSUME NEW i \in P
        PROVE  IF i \in DOMAIN legs
               THEN sent[b][i] = 0 /\ legs[i] = Leg(Vault, new.participants[i], Share(new, net, i))
               ELSE sent[b][i] = Share(new, net, i)
    <3>1. Share(new, net, i) = Share(r, net, i) /\ Share(r, net, i) \in Nat
          /\ new.participants = r.participants /\ sent[b][i] = 0
      BY <1>3, <1>7, <1>9
    <3>2. i \in DOMAIN legs <=> Share(r, net, i) > 0
      BY <1>8
    <3>3. i \in DOMAIN legs => legs[i] = Leg(Vault, r.participants[i], Share(r, net, i))
      BY <1>8
    <3>4. QED
      BY <3>1, <3>2, <3>3
  <2>2. QED
    BY <1>3, <2>1 DEF Settled
<1>11. Accounted(new, claimed'[b], sent'[b], legs)
  <2>1. DOMAIN legs \subseteq DOMAIN new.participants
    BY <1>3, <1>8
  <2>2. sent'[b] = [i \in DOMAIN new.participants |-> sent'[b][i]]
    BY <1>3, <1>9
  <2>3. status = "RELEASED" => \E n \in 0 .. claimed'[b] : Settled(new, sent[b], legs, n)
    <3>1. status = "RELEASED" => net \in 0 .. claimed'[b]
      OBVIOUS
    <3>2. QED
      BY <1>10, <3>1
  <2>4. QED
    BY <1>1, <1>3, <1>6, <1>10, <2>1, <2>2, <2>3 DEF Accounted
<1>12. \A o \in Bundle : Accounted(bundle'[o], claimed'[o], sent'[o], Of(b, legs, o))
  <2>1. ASSUME NEW o \in Bundle \ {b}
        PROVE  Accounted(bundle'[o], claimed'[o], sent'[o], Of(b, legs, o))
    <3>1. Accounted(bundle[o], claimed[o], sent[o], <<>>)
      BY DEF Ledger, Of
    <3>2. QED
      BY <1>4, <3>1 DEF Of
  <2>2. QED
    BY <1>4, <1>11, <2>1 DEF Of
<1>13. IsFiniteSet({o \in Bundle : bundle'[o].status # "NONE"})
  <2>1. {o \in Bundle : bundle'[o].status # "NONE"} \subseteq {o \in Bundle : bundle[o].status # "NONE"}
    BY <1>4
  <2>2. QED
    BY <2>1, FS_Subset DEF Ledger
<1>14. Incoming(legs, Vault) = 0
  <2> DEFINE f == [i \in DOMAIN legs |-> IF legs[i].to = Vault THEN legs[i].amount ELSE 0]
             D == DOMAIN legs
  <2>1. \A i \in D : f[i] = 0
    <3>1. Vault \notin Participant /\ \A i \in D : r.participants[i] \in Participant
      BY <1>5, <1>8, VaultAssumption DEF Row
    <3>2. ASSUME NEW i \in D PROVE legs[i].to = r.participants[i]
      <4>1. legs[i] = Leg(Vault, r.participants[i], Share(r, net, i))
        BY <1>8
      <4>2. QED
        BY <4>1 DEF Leg
    <3>3. QED
      BY <3>1, <3>2
  <2>2. IsFiniteSet(D)
    BY <1>5, <1>8, FS_Subset, D \subseteq P DEF Row
  <2>3. Incoming(legs, Vault) = SumOver(f, D)
    BY DEF Incoming
  <2> HIDE DEF f, D
  <2>4. QED
    BY <2>1, <2>2, <2>3, SumZero
<1>15. Outgoing(legs, Vault) \in 0 .. net
  <2> DEFINE f == [i \in DOMAIN legs |-> IF legs[i].from = Vault THEN legs[i].amount ELSE 0]
             D == DOMAIN legs
  <2>1. \A i \in D : i \in P /\ f[i] = Share(r, net, i)
    <3>1. ASSUME NEW i \in D PROVE legs[i].from = Vault /\ legs[i].amount = Share(r, net, i)
      <4>1. legs[i] = Leg(Vault, r.participants[i], Share(r, net, i))
        BY <1>8
      <4>2. QED
        BY <4>1 DEF Leg
    <3>2. QED
      BY <1>8, <3>1
  <2>2. \A i \in D : f[i] \in Nat /\ f[i] <= Share(r, net, i)
    BY <1>7, <2>1
  <2>3. D \in SUBSET P
    BY <2>1
  <2>4. Outgoing(legs, Vault) = SumOver(f, D)
    BY DEF Outgoing
  <2> HIDE DEF f, D
  <2>5. QED
    BY <1>5, <2>2, <2>3, <2>4, SharesWithin
<1>16. Held(bundle) = r.amount + Held(bundle') /\ Held(bundle') \in Nat /\ r.amount \in Nat
  <2> DEFINE rows == bundle'
  <2>1. /\ IsFiniteSet(LockedIn(bundle)) /\ \A o \in LockedIn(bundle) : bundle[o].amount \in Nat
    BY LedgerHolds
  <2>2. b \in LockedIn(bundle)
    BY DEF LockedIn
  <2>3. rows[b].status # "LOCKED" /\ \A o \in Bundle \ {b} : rows[o] = bundle[o]
    BY <1>3, <1>4
  <2>4. LockedIn(rows) \subseteq LockedIn(bundle) /\ b \notin LockedIn(rows)
    BY <2>3 DEF LockedIn
  <2>5. IsFiniteSet(LockedIn(rows)) /\ \A o \in LockedIn(rows) : rows[o].amount \in Nat
    BY <2>1, <2>3, <2>4, FS_Subset DEF LockedIn
  <2> HIDE DEF rows
  <2>6. Held(bundle) = bundle[b].amount + Held(rows)
    BY <2>1, <2>2, <2>3, Unhold
  <2>7. Held(rows) \in Nat
    BY <2>5, HeldIsNat
  <2>8. QED
    BY <1>1, <2>1, <2>2, <2>6, <2>7 DEF rows
<1>17. balance'[Vault] + Incoming(legs, Vault) >= Outgoing(legs, Vault) + Held(bundle')
  <2>1. balance[Vault] + 0 >= 0 + Held(bundle)
    BY NothingMoves DEF Ledger
  <2>2. balance[Vault] \in Nat /\ balance'[Vault] = balance[Vault]
    BY DEF Ledger, Account
  <2>3. QED
    BY <1>1, <1>14, <1>15, <1>16, <2>1, <2>2
<1>18. QED
  BY <1>12, <1>13, <1>17 DEF Ledger

(* A leg is paid: what was to come has come. *)
LEMMA TransferLedger ==
  ASSUME NEW c, calls = <<c>>, c.bundle \in Bundle, NEW i, Transfer(i),
         Ledger(bundle, claimed, sent, balance, c.bundle, c.legs)
  PROVE  Ledger(bundle', claimed', sent', balance', c.bundle, Restrict(c.legs, DOMAIN c.legs \ {i}))
<1>1. Innermost = c
  BY DEF Innermost
<1>2. PICK x, legs : x \in Bundle /\ x = c.bundle /\ legs = c.legs
  OBVIOUS
<1>3. i \in DOMAIN legs
  BY <1>1, <1>2 DEF Transfer, Due
<1>4. PICK leg : leg = legs[i]
  OBVIOUS
<1>5. /\ balance[leg.from] >= leg.amount
      /\ balance' = [balance EXCEPT ![leg.from] = @ - leg.amount, ![leg.to] = @ + leg.amount]
      /\ sent' = IF leg.from = Vault THEN [sent EXCEPT ![x][i] = @ + leg.amount] ELSE sent
      /\ bundle' = bundle /\ claimed' = claimed
  BY <1>1, <1>2, <1>4 DEF Transfer
<1>6. Ledger(bundle, claimed, sent, balance, x, legs)
  BY <1>2
<1>7. PICK r : r = bundle[x]
  OBVIOUS
<1>8. Accounted(r, claimed[x], sent[x], legs)
  BY <1>2, <1>6, <1>7 DEF Ledger, Of
<1>9. LegsFine(legs) /\ (r.status = "LOCKED" => leg.to = Vault) /\ (r.status # "LOCKED" => leg.from = Vault)
  BY <1>3, <1>4, <1>8, CallLegs
<1>10. /\ leg.amount \in Nat /\ leg.from # leg.to /\ leg.from \in Account /\ leg.to \in Account
  BY <1>3, <1>4, <1>9 DEF LegsFine
<1> DEFINE rest == Restrict(legs, DOMAIN legs \ {i})
<1>11. /\ DOMAIN rest = DOMAIN legs \ {i} /\ LegsFine(rest)
       /\ \A j \in DOMAIN rest : rest[j] = legs[j]
       /\ Incoming(legs, Vault) = (IF leg.to = Vault THEN leg.amount ELSE 0) + Incoming(rest, Vault)
       /\ Outgoing(legs, Vault) = (IF leg.from = Vault THEN leg.amount ELSE 0) + Outgoing(rest, Vault)
  BY <1>3, <1>4, <1>9, DoLeg
<1>12. Incoming(rest, Vault) \in Nat /\ Outgoing(rest, Vault) \in Nat
  <2>1. LegsFine(rest)
    BY <1>11
  <2> HIDE DEF rest
  <2>2. QED
    BY <2>1, MovedIsNat
<1> HIDE DEF rest
<1>13. balance \in [Account -> Nat] /\ Vault \in Account
  BY <1>6 DEF Ledger, Account
<1>14. /\ balance' \in [Account -> Nat]
       /\ balance'[Vault] = balance[Vault] + (IF leg.to = Vault THEN leg.amount ELSE 0)
                                           - (IF leg.from = Vault THEN leg.amount ELSE 0)
  <2>1. PICK from \in Account, to \in Account, amount \in Nat :
          from = leg.from /\ to = leg.to /\ amount = leg.amount
    BY <1>10
  <2>2. from # to /\ balance[from] >= amount
    BY <1>5, <1>10, <2>1
  <2>3. balance' = [balance EXCEPT ![from] = @ - amount, ![to] = @ + amount]
    BY <1>5, <2>1
  <2>4. balance' = [a \in Account |-> IF a = from THEN balance[a] - amount
                                      ELSE IF a = to THEN balance[a] + amount ELSE balance[a]]
    BY <1>13, <2>2, <2>3
  <2>5. balance' \in [Account -> Nat]
    BY <1>13, <2>2, <2>4
  <2>6. balance'[Vault] = balance[Vault] + (IF to = Vault THEN amount ELSE 0)
                                         - (IF from = Vault THEN amount ELSE 0)
    BY <1>13, <2>2, <2>4
  <2>7. QED
    BY <2>1, <2>5, <2>6
<1>15. Held(bundle) \in Nat
  BY <1>6, LedgerHolds
<1>16. balance'[Vault] + Incoming(rest, Vault) >= Outgoing(rest, Vault) + Held(bundle)
  <2>1. balance[Vault] + Incoming(legs, Vault) >= Outgoing(legs, Vault) + Held(bundle)
    BY <1>6 DEF Ledger
  <2>2. balance[Vault] \in Nat /\ balance'[Vault] \in Nat
    BY <1>13, <1>14
  <2>3. QED
    BY <1>10, <1>11, <1>12, <1>14, <1>15, <2>1, <2>2
<1>17. /\ sent' = [o \in Bundle |-> sent'[o]] /\ \A o \in Bundle \ {x} : sent'[o] = sent[o]
       /\ leg.from # Vault => sent'[x] = sent[x]
       /\ leg.from = Vault => sent'[x] = [sent[x] EXCEPT ![i] = @ + leg.amount]
  BY <1>2, <1>5, <1>6 DEF Ledger
<1>18. Accounted(r, claimed[x], sent'[x], rest)
  <2>0. r # NoBundle /\ Row(r) /\ sent[x] = [j \in DOMAIN r.participants |-> sent[x][j]]
        /\ i \in DOMAIN r.participants /\ DOMAIN legs \subseteq DOMAIN r.participants
    <3>1. DOMAIN legs # {}
      BY <1>3
    <3>2. Row(r) /\ sent[x] = [j \in DOMAIN r.participants |-> sent[x][j]]
          /\ DOMAIN legs \subseteq DOMAIN r.participants
      BY <1>8, <3>1 DEF Accounted
    <3>3. r # NoBundle
      BY <3>2 DEF Row, NoBundle
    <3>4. QED
      BY <1>3, <3>2, <3>3
  <2>1. DOMAIN rest \subseteq DOMAIN r.participants
    BY <1>11, <2>0
  <2>2. CASE r.status = "LOCKED"
    <3>1. Charged(r, sent[x], legs)
      BY <1>8, <2>0, <2>2 DEF Accounted
    <3>2. leg.from # Vault
      BY <1>9, <1>10, <2>2
    <3>3. Charged(r, sent'[x], rest)
      BY <1>11, <1>17, <3>1, <3>2 DEF Charged
    <3>4. QED
      BY <1>17, <2>0, <2>1, <2>2, <3>2, <3>3 DEF Accounted
  <2>3. ASSUME NEW net \in Nat, Settled(r, sent[x], legs, net), r.status # "LOCKED"
        PROVE  Settled(r, sent'[x], rest, net)
               /\ sent'[x] = [j \in DOMAIN r.participants |-> sent'[x][j]]
    <3>1. sent'[x] = [sent[x] EXCEPT ![i] = @ + leg.amount]
      BY <1>9, <1>17, <2>3
    <3>2. sent'[x] = [j \in DOMAIN r.participants |->
            IF j = i THEN sent[x][i] + leg.amount ELSE sent[x][j]]
      BY <2>0, <3>1
    <3>3. sent[x][i] = 0 /\ leg = Leg(Vault, r.participants[i], Share(r, net, i))
      BY <1>3, <1>4, <2>0, <2>3 DEF Settled
    <3>4. leg.amount = Share(r, net, i)
      BY <3>3 DEF Leg
    <3>5. sent'[x][i] = Share(r, net, i)
      BY <1>10, <2>0, <3>2, <3>3, <3>4
    <3>6. ASSUME NEW j \in DOMAIN r.participants
          PROVE  IF j \in DOMAIN rest
                 THEN sent'[x][j] = 0 /\ rest[j] = Leg(Vault, r.participants[j], Share(r, net, j))
                 ELSE sent'[x][j] = Share(r, net, j)
      <4>1. CASE j = i
        BY <1>11, <3>5, <4>1
      <4>2. CASE j # i
        BY <1>11, <2>3, <3>2, <4>2 DEF Settled
      <4>3. QED
        BY <4>1, <4>2
    <3>7. sent'[x] = [j \in DOMAIN r.participants |-> sent'[x][j]]
      BY <3>2
    <3>8. QED
      BY <3>6, <3>7 DEF Settled
  <2>4. CASE r.status = "RETURNED" /\ Settled(r, sent[x], legs, r.amount)
    <3>1. r.amount \in Nat
      BY <2>0 DEF Row
    <3>2. QED
      BY <2>0, <2>1, <2>3, <2>4, <3>1 DEF Accounted
  <2>5. CASE r.status = "RELEASED" /\ claimed[x] \in Nat
             /\ \E net \in 0 .. claimed[x] : Settled(r, sent[x], legs, net)
    <3>1. PICK net \in 0 .. claimed[x] : Settled(r, sent[x], legs, net)
      BY <2>5
    <3>2. net \in Nat
      BY <2>5, <3>1
    <3>3. Settled(r, sent'[x], rest, net) /\ sent'[x] = [j \in DOMAIN r.participants |-> sent'[x][j]]
      BY <2>3, <2>5, <3>1, <3>2
    <3>4. QED
      BY <2>0, <2>1, <2>5, <3>1, <3>3 DEF Accounted
  <2>6. QED
    BY <1>8, <2>0, <2>2, <2>4, <2>5 DEF Accounted
<1>19. \A o \in Bundle : Accounted(bundle'[o], claimed'[o], sent'[o], Of(x, rest, o))
  <2>1. ASSUME NEW o \in Bundle \ {x}
        PROVE  Accounted(bundle'[o], claimed'[o], sent'[o], Of(x, rest, o))
    <3>1. Accounted(bundle[o], claimed[o], sent[o], <<>>)
      BY <1>6 DEF Ledger, Of
    <3>2. QED
      BY <1>5, <1>17, <3>1 DEF Of
  <2>2. QED
    BY <1>5, <1>7, <1>18, <2>1 DEF Of
<1>20. Ledger(bundle', claimed', sent', balance', x, rest)
  BY <1>5, <1>6, <1>14, <1>16, <1>17, <1>19 DEF Ledger
<1>21. QED
  BY <1>2, <1>20 DEF rest

(* When no leg is left, a ledger is that of no call. *)
LEMMA NoLegLeft ==
  ASSUME NEW rows, NEW paid, NEW s, NEW bal, NEW x, NEW legs, Ledger(rows, paid, s, bal, x, legs),
         DOMAIN legs = {}, NEW y
  PROVE  Ledger(rows, paid, s, bal, y, <<>>)
<1>1. DOMAIN <<>> = {}
  OBVIOUS
<1>2. ASSUME NEW r, NEW p, NEW t, NEW l, DOMAIN l = {}, Accounted(r, p, t, l)
      PROVE  Accounted(r, p, t, <<>>)
  <2>1. \A net : Settled(r, t, l, net) => Settled(r, t, <<>>, net)
    BY <1>1, <1>2 DEF Settled
  <2>2. Charged(r, t, l) => Charged(r, t, <<>>)
    BY <1>1, <1>2 DEF Charged
  <2>3. QED
    BY <1>1, <1>2, <2>1, <2>2 DEF Accounted
<1>3. \A b \in Bundle : Accounted(rows[b], paid[b], s[b], Of(y, <<>>, b))
  <2>1. ASSUME NEW b \in Bundle PROVE Accounted(rows[b], paid[b], s[b], <<>>)
    <3>1. DOMAIN Of(x, legs, b) = {}
      BY <1>1 DEF Of
    <3>2. Accounted(rows[b], paid[b], s[b], Of(x, legs, b))
      BY DEF Ledger
    <3>3. QED
      BY <1>2, <3>1, <3>2
  <2>2. QED
    BY <2>1 DEF Of
<1>4. Incoming(legs, Vault) = Incoming(<<>>, Vault) /\ Outgoing(legs, Vault) = Outgoing(<<>>, Vault)
  BY <1>1, NothingMoves, SumEmpty DEF Incoming, Outgoing
<1>5. QED
  BY <1>3, <1>4 DEF Ledger

LEMMA LedgerStarts == VaultInit => LedgerInv
<1> SUFFICES ASSUME VaultInit PROVE LedgerInv
  OBVIOUS
<1>1. VaultIInv /\ Quiet
  BY VaultInitInv DEF VaultInit, Quiet
<1>2. Config
  BY VaultAssumption DEF VaultInit, Config
<1>3. \A b \in Bundle : Accounted(bundle[b], claimed[b], sent[b], Of(Unset, <<>>, b))
  <2>1. DOMAIN <<>> = {}
    OBVIOUS
  <2>2. \A b \in Bundle : bundle[b] = NoBundle /\ sent[b] = <<>>
    BY DEF VaultInit
  <2>3. QED
    BY <2>1, <2>2 DEF Accounted, Of
<1>4. \A b \in Bundle : bundle[b].status = "NONE"
  BY DEF VaultInit, NoBundle
<1>5. IsFiniteSet({b \in Bundle : bundle[b].status # "NONE"})
  <2>1. {b \in Bundle : bundle[b].status # "NONE"} = {}
    BY <1>4
  <2>2. QED
    BY <2>1, FS_EmptySet
<1>6. Held(bundle) = 0
  <2>1. {b \in Bundle : bundle[b].status = "LOCKED"} = {}
    BY <1>4
  <2>2. QED
    BY <2>1, SumEmpty DEF Held
<1>7. balance \in [Account -> Nat] /\ balance[Vault] = 0
  BY VaultAssumption DEF VaultInit, Account
<1>8. balance[Vault] + Incoming(<<>>, Vault) >= Outgoing(<<>>, Vault) + Held(bundle)
  BY <1>6, <1>7, NothingMoves
<1>9. sent = [b \in Bundle |-> sent[b]]
  BY DEF VaultInit
<1>10. QED
  BY <1>1, <1>2, <1>3, <1>5, <1>7, <1>8, <1>9 DEF LedgerInv, Ledger

(* A call that starts saves a ledger of no call. *)
LEMMA CallStarts ==
  ASSUME LedgerInv, VaultIInv', NEW call, Enter(call), UNCHANGED <<roles, fees, now>>,
         call.bundle \in Bundle, call = [bundle |-> call.bundle, legs |-> call.legs],
         Ledger(bundle', claimed', sent', balance', call.bundle, call.legs)
  PROVE  LedgerInv'
<1>1. Quiet /\ calls' = <<call>> /\ ~ Quiet' /\ saved' = Snapshot
  BY EnterDoes DEF LedgerInv
<1>2. calls'[1] = call
  BY <1>1
<1>3. Ledger(bundle, claimed, sent, balance, Unset, <<>>)
  BY <1>1 DEF LedgerInv
<1>4. /\ saved'.bundle = bundle /\ saved'.claimed = claimed
      /\ saved'.sent = sent /\ saved'.balance = balance
  BY <1>1 DEF Snapshot
<1>5. Ledger(saved'.bundle, saved'.claimed, saved'.sent, saved'.balance, Unset, <<>>)
  BY <1>3, <1>4
<1>6. Config'
  BY DEF LedgerInv, Config
<1>7. Ledger(bundle', claimed', sent', balance', calls'[1].bundle, calls'[1].legs)
  BY <1>2
<1>8. QED
  BY <1>1, <1>2, <1>5, <1>6, <1>7 DEF LedgerInv

LEMMA LockCapitalLedger ==
  ASSUME LedgerInv, NEW b \in Bundle, NEW input \in LockInputs, LockCapital(b, input)
  PROVE  LedgerInv'
<1>1. PICK legs : legs = [i \in Places(input) |-> Leg(input.participants[i], Vault, input.amounts[i])]
  OBVIOUS
<1>2. PICK call : call = [bundle |-> b, legs |-> legs]
  OBVIOUS
<1>3. call.bundle = b /\ call.legs = legs /\ call = [bundle |-> call.bundle, legs |-> call.legs]
  BY <1>2
<1>4. Enter(call) /\ UNCHANGED <<roles, fees, now>>
  BY <1>1, <1>2 DEF LockCapital
<1>5. Quiet
  BY <1>4, EnterDoes DEF LedgerInv
<1>6. Ledger(bundle, claimed, sent, balance, Unset, <<>>) /\ bundle = [o \in Bundle |-> bundle[o]]
  BY <1>5 DEF LedgerInv, VaultIInv, Stored
<1>7. Ledger(bundle', claimed', sent', balance', b, legs)
  BY <1>1, <1>6, LockLedger
<1>8. VaultIInv'
  BY LockCapitalInv DEF LedgerInv
<1>9. QED
  BY <1>3, <1>4, <1>7, <1>8, CallStarts

LEMMA ReleaseClaimLedger ==
  ASSUME LedgerInv, NEW b \in Bundle, NEW payout \in Payouts, ReleaseClaim(b, payout)
  PROVE  LedgerInv'
<1>1. PICK net : net = payout - Fee(b, payout)
  OBVIOUS
<1>2. PICK legs : legs = Shares(b, net)
  OBVIOUS
<1>3. PICK call : call = [bundle |-> b, legs |-> legs]
  OBVIOUS
<1>4. call.bundle = b /\ call.legs = legs /\ call = [bundle |-> call.bundle, legs |-> call.legs]
  BY <1>3
<1>5. /\ Enter(call) /\ UNCHANGED <<roles, fees, now, sent, balance>> /\ Locked(b)
      /\ payout <= bundle[b].amount /\ Fee(b, payout) <= payout
      /\ bundle' = [bundle EXCEPT ![b].status = "RELEASED"]
      /\ claimed' = [claimed EXCEPT ![b] = payout]
  BY <1>1, <1>2, <1>3 DEF ReleaseClaim
<1>6. Quiet
  BY <1>5, EnterDoes DEF LedgerInv
<1>7. /\ Ledger(bundle, claimed, sent, balance, Unset, <<>>) /\ bundle = [o \in Bundle |-> bundle[o]]
      /\ claimed = [o \in Bundle |-> claimed[o]] /\ bundle[b].status = "LOCKED"
      /\ DOMAIN bundle[b] = Fields
  BY <1>5, <1>6, LockedRow DEF LedgerInv, VaultIInv, Stored
<1>8. payout \in Nat /\ Fee(b, payout) \in Nat
  <2>1. payout \in Nat
    BY VaultAssumption
  <2>2. fees.base \in Nat /\ fees.premium \in Nat
    <3>1. fees \in Fees \cup {[base |-> 0, premium |-> 0]}
      BY DEF LedgerInv, Config
    <3>2. fees \in [base : Nat, premium : Nat]
      BY <3>1, VaultAssumption
    <3>3. QED
      BY <3>2
  <2>3. PICK bps \in Nat : bps = fees.base + (IF bundle[b].mode = "ORACLE" THEN fees.premium ELSE 0)
    BY <2>2
  <2>4. PICK d \in Nat \ {0} : d = Denominator
    BY VaultAssumption
  <2>5. payout * bps \in Nat
    BY <2>1
  <2>6. \A m \in Nat : m \div d \in Nat
    OBVIOUS
  <2>7. Fee(b, payout) = (payout * bps) \div d
    BY <2>3, <2>4 DEF Fee
  <2>8. QED
    BY <2>1, <2>5, <2>6, <2>7
<1>9. net \in Nat /\ net <= payout
  BY <1>1, <1>5, <1>8
<1>10. bundle[b].amount \in Nat
  BY <1>7, LedgerHolds DEF Row
<1>11. net <= bundle[b].amount
  BY <1>5, <1>8, <1>9, <1>10
<1>12. claimed'[b] = payout /\ \A o \in Bundle \ {b} : claimed'[o] = claimed[o]
  BY <1>5, <1>7
<1>13. Ledger(bundle', claimed', sent', balance', b, legs)
  BY <1>2, <1>5, <1>7, <1>8, <1>9, <1>11, <1>12, PayLedger
<1>14. VaultIInv'
  BY ReleaseClaimInv DEF LedgerInv
<1>15. QED
  BY <1>4, <1>5, <1>13, <1>14, CallStarts

LEMMA ReturnCapitalLedger ==
  ASSUME LedgerInv, NEW b \in Bundle, ReturnCapital(b)
  PROVE  LedgerInv'
<1>1. PICK net : net = bundle[b].amount
  OBVIOUS
<1>2. PICK legs : legs = Shares(b, net)
  OBVIOUS
<1>3. PICK call : call = [bundle |-> b, legs |-> legs]
  OBVIOUS
<1>4. call.bundle = b /\ call.legs = legs /\ call = [bundle |-> call.bundle, legs |-> call.legs]
  BY <1>3
<1>5. /\ Enter(call) /\ UNCHANGED <<roles, fees, now, sent, balance, claimed>> /\ Locked(b)
      /\ bundle' = [bundle EXCEPT ![b].status = "RETURNED"]
  BY <1>1, <1>2, <1>3 DEF ReturnCapital
<1>6. Quiet
  BY <1>5, EnterDoes DEF LedgerInv
<1>7. /\ Ledger(bundle, claimed, sent, balance, Unset, <<>>) /\ bundle = [o \in Bundle |-> bundle[o]]
      /\ bundle[b].status = "LOCKED" /\ DOMAIN bundle[b] = Fields
  BY <1>5, <1>6, LockedRow DEF LedgerInv, VaultIInv, Stored
<1>8. net \in Nat
  BY <1>1, <1>7, LedgerHolds DEF Row
<1>9. net <= bundle[b].amount
  BY <1>1, <1>8
<1>10. Ledger(bundle', claimed', sent', balance', b, legs)
  BY <1>1, <1>2, <1>5, <1>7, <1>8, <1>9, PayLedger
<1>11. VaultIInv'
  BY ReturnCapitalInv DEF LedgerInv
<1>12. QED
  BY <1>4, <1>5, <1>10, <1>11, CallStarts

(* The one call that is under way, and the ledger with its legs. *)
LEMMA UnderWay ==
  ASSUME LedgerInv, ~ Quiet
  PROVE  \E c : /\ calls = <<c>> /\ Len(calls) = 1 /\ Innermost = c /\ c.bundle \in Bundle
                /\ c = [bundle |-> c.bundle, legs |-> c.legs]
                /\ Ledger(bundle, claimed, sent, balance, c.bundle, c.legs)
<1>1. PICK c : calls = <<c>>
  BY DEF LedgerInv, VaultIInv, Quiet
<1>2. Len(calls) = 1 /\ calls[1] = c /\ Innermost = c
  BY <1>1 DEF Innermost
<1>3. /\ c.bundle \in Bundle /\ c = [bundle |-> c.bundle, legs |-> c.legs]
      /\ Ledger(bundle, claimed, sent, balance, c.bundle, c.legs)
  BY <1>2 DEF LedgerInv
<1>4. QED
  BY <1>1, <1>2, <1>3

LEMMA TransferKeepsLedger == ASSUME LedgerInv, NEW i, Transfer(i) PROVE LedgerInv'
<1>1. ~ Quiet
  BY DEF Transfer, Due, Quiet
<1>2. PICK c : /\ calls = <<c>> /\ Len(calls) = 1 /\ Innermost = c /\ c.bundle \in Bundle
               /\ c = [bundle |-> c.bundle, legs |-> c.legs]
               /\ Ledger(bundle, claimed, sent, balance, c.bundle, c.legs)
  BY <1>1, UnderWay
<1>3. i \in DOMAIN c.legs
  BY <1>2 DEF Transfer, Due
<1>4. Ledger(bundle', claimed', sent', balance', c.bundle, Restrict(c.legs, DOMAIN c.legs \ {i}))
  BY <1>2, TransferLedger
<1>5. PICK rest : rest = Restrict(c.legs, DOMAIN c.legs \ {i})
  OBVIOUS
<1>6. calls' = [calls EXCEPT ![1].legs = rest]
  BY <1>2, <1>5 DEF Transfer
<1>7. PICK d : d = [bundle |-> c.bundle, legs |-> rest]
  OBVIOUS
<1>8. calls' = <<d>>
  <2>1. d = [c EXCEPT !.legs = rest]
    BY <1>2, <1>7
  <2>2. calls' = [<<c>> EXCEPT ![1] = d]
    BY <1>2, <1>6, <2>1
  <2>3. QED
    BY <2>2
<1>9. /\ calls'[1] = d /\ d.bundle = c.bundle /\ d.legs = rest
      /\ d = [bundle |-> d.bundle, legs |-> d.legs]
  BY <1>7, <1>8
<1>10. ~ Quiet'
  BY <1>8 DEF Quiet
<1>11. VaultIInv' /\ UNCHANGED <<roles, fees, now, saved>>
  BY TransferInv DEF Transfer, LedgerInv
<1>12. Config'
  BY <1>11 DEF LedgerInv, Config
<1>13. Ledger(bundle', claimed', sent', balance', calls'[1].bundle, calls'[1].legs)
  BY <1>4, <1>5, <1>9
<1>14. Ledger(saved'.bundle, saved'.claimed, saved'.sent, saved'.balance, Unset, <<>>)
  BY <1>1, <1>11 DEF LedgerInv
<1>15. calls'[1].bundle \in Bundle /\ calls'[1] = [bundle |-> calls'[1].bundle, legs |-> calls'[1].legs]
  BY <1>2, <1>9
<1>16. QED
  BY <1>10, <1>11, <1>12, <1>13, <1>14, <1>15 DEF LedgerInv

LEMMA RevertKeepsLedger == ASSUME LedgerInv, NEW i, Revert(i) PROVE LedgerInv'
<1>1. ~ Quiet /\ Quiet'
  BY DEF Revert, Due, Quiet
<1>2. Ledger(saved.bundle, saved.claimed, saved.sent, saved.balance, Unset, <<>>)
  BY <1>1 DEF LedgerInv
<1>3. /\ bundle' = saved.bundle /\ balance' = saved.balance
      /\ claimed' = saved.claimed /\ sent' = saved.sent /\ UNCHANGED <<roles, fees, now>>
  BY DEF Revert
<1>4. VaultIInv'
  BY RevertInv DEF LedgerInv
<1>5. QED
  BY <1>1, <1>2, <1>3, <1>4 DEF LedgerInv, Config

LEMMA ReturnKeepsLedger == ASSUME LedgerInv, Return PROVE LedgerInv'
<1>1. ~ Quiet
  BY DEF Return, Quiet
<1>2. PICK c : /\ calls = <<c>> /\ Len(calls) = 1 /\ Innermost = c /\ c.bundle \in Bundle
               /\ c = [bundle |-> c.bundle, legs |-> c.legs]
               /\ Ledger(bundle, claimed, sent, balance, c.bundle, c.legs)
  BY <1>1, UnderWay
<1>3. DOMAIN c.legs = {}
  BY <1>2 DEF Return
<1>4. Ledger(bundle, claimed, sent, balance, Unset, <<>>)
  BY <1>2, <1>3, NoLegLeft
<1>5. calls' = <<>> /\ Quiet'
  <2>1. Front(calls) = <<>>
    BY <1>2 DEF Front
  <2>2. QED
    BY <2>1 DEF Return, Quiet
<1>6. VaultIInv' /\ UNCHANGED <<bundle, claimed, sent, balance, roles, fees, now>>
  BY ReturnInv DEF Return, LedgerInv
<1>7. QED
  BY <1>4, <1>5, <1>6 DEF LedgerInv, Config

(* Outside of a call nothing but what participants own changes. *)
LEMMA OutsideKeepsLedger ==
  ASSUME LedgerInv, VaultIInv', UNCHANGED <<bundle, calls, saved, claimed, sent>>, Config',
         Quiet => balance' \in [Account -> Nat] /\ balance'[Vault] = balance[Vault],
         ~ Quiet => balance' = balance
  PROVE  LedgerInv'
<1>1. CASE Quiet
  <2>1. Ledger(bundle, claimed, sent, balance, Unset, <<>>)
    BY <1>1 DEF LedgerInv
  <2>2. Ledger(bundle, claimed, sent, balance', Unset, <<>>)
    BY <1>1, <2>1 DEF Ledger
  <2>3. QED
    BY <1>1, <2>2 DEF LedgerInv, Quiet
<1>2. CASE ~ Quiet
  BY <1>2 DEF LedgerInv, Quiet
<1>3. QED
  BY <1>1, <1>2

LEMMA GovernKeepsLedger == ASSUME LedgerInv, Govern, VaultIInv' PROVE LedgerInv'
<1>1. UNCHANGED <<bundle, balance, now, calls, saved, claimed, sent>>
  BY DEF Govern, InitializeGovernance, SetRole, SetFeeParameters
<1>2. Config'
  <2>0. /\ roles \in [governance : Governance \cup {Unset}, relayer : Relayer \cup {Unset},
                signer : Signer \cup {Unset}]
        /\ fees \in Fees \cup {[base |-> 0, premium |-> 0]}
        /\ now \in 0 .. MaxTime
    BY DEF LedgerInv, Config
  <2>1. ASSUME NEW g \in Governance, InitializeGovernance(g) PROVE Config'
    BY <2>0, <2>1 DEF InitializeGovernance, Config
  <2>2. ASSUME NEW r \in Relayer, SetRole("relayer", r) PROVE Config'
    BY <2>0, <2>2 DEF SetRole, Config
  <2>3. ASSUME NEW s \in Signer, SetRole("signer", s) PROVE Config'
    BY <2>0, <2>3 DEF SetRole, Config
  <2>4. ASSUME NEW f \in Fees, SetFeeParameters(f) PROVE Config'
    BY <2>0, <2>4 DEF SetFeeParameters, Config
  <2>5. QED
    BY <2>1, <2>2, <2>3, <2>4 DEF Govern
<1>3. Quiet => balance \in [Account -> Nat]
  BY DEF LedgerInv, Ledger
<1>4. QED
  BY <1>1, <1>2, <1>3, OutsideKeepsLedger

LEMMA EnvironmentKeepsLedger == ASSUME LedgerInv, Environment, VaultIInv' PROVE LedgerInv'
<1>1. UNCHANGED <<bundle, calls, saved, claimed, sent, roles, fees>> /\ Quiet
  BY DEF Environment, Attest, Spend, Tick, storage
<1>2. balance \in [Account -> Nat]
  BY <1>1 DEF LedgerInv, Ledger
<1>3. balance' \in [Account -> Nat] /\ balance'[Vault] = balance[Vault]
  <2>1. ASSUME NEW p \in Participant, Spend(p)
        PROVE  balance' \in [Account -> Nat] /\ balance'[Vault] = balance[Vault]
    <3>1. p # Vault /\ p \in Account
      BY VaultAssumption DEF Account
    <3>2. QED
      BY <1>2, <2>1, <3>1 DEF Spend
  <2>2. QED
    BY <1>2, <2>1 DEF Environment, Attest, Tick
<1>4. now' \in 0 .. MaxTime
  <2>1. now \in 0 .. MaxTime /\ MaxTime \in Nat
    BY VaultAssumption DEF LedgerInv, Config
  <2>2. now' = now \/ (now < MaxTime /\ now' = now + 1)
    BY DEF Environment, Attest, Spend, Tick
  <2>3. QED
    BY <2>1, <2>2
<1>5. Config'
  BY <1>1, <1>4 DEF LedgerInv, Config
<1>6. QED
  BY <1>1, <1>3, <1>5, OutsideKeepsLedger

LEMMA LedgerKept == LedgerInv /\ [VaultNext]_vaultVars => LedgerInv'
<1> SUFFICES ASSUME LedgerInv, [VaultNext]_vaultVars PROVE LedgerInv'
  OBVIOUS
<1>0. VaultIInv'
  BY VaultNextInv DEF LedgerInv
<1>1. CASE Operate
  BY <1>1, LockCapitalLedger, ReleaseClaimLedger, ReturnCapitalLedger DEF Operate
<1>2. CASE Proceed
  BY <1>2, TransferKeepsLedger, RevertKeepsLedger DEF Proceed
<1>3. CASE Return
  BY <1>3, ReturnKeepsLedger
<1>4. CASE Govern
  BY <1>0, <1>4, GovernKeepsLedger
<1>5. CASE Environment
  BY <1>0, <1>5, EnvironmentKeepsLedger
<1>6. CASE UNCHANGED vaultVars
  BY <1>6, VaultNextInv DEF vaultVars, LedgerInv, Config, Quiet
<1>7. QED
  BY <1>1, <1>2, <1>3, <1>4, <1>5, <1>6 DEF VaultNext

-----------------------------------------------------------------------------
(* Vault: solvency. *)

(* A ledger's rows have their types, and its shares their places. *)
LEMMA LedgerTypes ==
  ASSUME LedgerInv
  PROVE  /\ \A b \in Bundle : bundle[b] = NoBundle \/
              /\ bundle[b].status \in {"LOCKED", "RELEASED", "RETURNED"}
              /\ bundle[b].mode \in Mode /\ bundle[b].amount \in Nat
              /\ DOMAIN sent[b] = DOMAIN bundle[b].participants
         /\ balance \in [Account -> Nat]
<1>1. ASSUME NEW r, NEW p, NEW t, NEW l, Accounted(r, p, t, l)
      PROVE  r = NoBundle \/
               /\ r.status \in {"LOCKED", "RELEASED", "RETURNED"}
               /\ r.mode \in Mode /\ r.amount \in Nat
               /\ DOMAIN t = DOMAIN r.participants
  BY <1>1 DEF Accounted, Row
<1>2. \E x, legs : Ledger(bundle, claimed, sent, balance, x, legs)
  BY DEF LedgerInv
<1>3. PICK x, legs : Ledger(bundle, claimed, sent, balance, x, legs)
  BY <1>2
<1>4. \A b \in Bundle : Accounted(bundle[b], claimed[b], sent[b], Of(x, legs, b))
  BY <1>3 DEF Ledger
<1>5. balance \in [Account -> Nat]
  BY <1>3 DEF Ledger
<1>6. QED
  BY <1>1, <1>4, <1>5

(* What is moving is what the one call under way has left to move. *)
LEMMA OneCallMoves ==
  ASSUME NEW c, calls = <<c>>, Incoming(c.legs, Vault) \in Nat, Outgoing(c.legs, Vault) \in Nat
  PROVE  MovingIn = Incoming(c.legs, Vault) /\ MovingOut = Outgoing(c.legs, Vault)
<1> DEFINE f == [k \in DOMAIN calls |-> Incoming(calls[k].legs, Vault)]
           g == [k \in DOMAIN calls |-> Outgoing(calls[k].legs, Vault)]
<1>1. DOMAIN calls = {1} /\ calls[1] = c
  <2>1. Len(calls) = 1 /\ calls[1] = c /\ DOMAIN calls = 1 .. 1
    OBVIOUS
  <2>2. QED
    BY <2>1
<1>2. f[1] = Incoming(c.legs, Vault) /\ g[1] = Outgoing(c.legs, Vault)
  BY <1>1
<1>3. MovingIn = SumOver(f, {1}) /\ MovingOut = SumOver(g, {1})
  BY <1>1 DEF MovingIn, MovingOut
<1> HIDE DEF f, g
<1>4. f[1] \in Int /\ g[1] \in Int
  BY <1>2
<1>5. QED
  BY <1>2, <1>3, <1>4, SumOne

LEMMA LedgerSolvent == ASSUME LedgerInv PROVE Solvent
<1>1. CASE Quiet
  <2>1. DOMAIN calls = {}
    BY <1>1 DEF Quiet
  <2>2. MovingIn = 0 /\ MovingOut = 0
    BY <2>1, SumEmpty DEF MovingIn, MovingOut
  <2>3. balance[Vault] + Incoming(<<>>, Vault) >= Outgoing(<<>>, Vault) + Held(bundle)
    BY <1>1 DEF LedgerInv, Ledger
  <2>4. QED
    BY <2>2, <2>3, NothingMoves DEF Solvent
<1>2. CASE ~ Quiet
  <2>1. PICK c : /\ calls = <<c>> /\ Len(calls) = 1 /\ Innermost = c /\ c.bundle \in Bundle
                 /\ c = [bundle |-> c.bundle, legs |-> c.legs]
                 /\ Ledger(bundle, claimed, sent, balance, c.bundle, c.legs)
    BY <1>2, UnderWay
  <2>2. Accounted(bundle[c.bundle], claimed[c.bundle], sent[c.bundle], c.legs)
    BY <2>1 DEF Ledger, Of
  <2>3. Incoming(c.legs, Vault) \in Nat /\ Outgoing(c.legs, Vault) \in Nat
    BY <2>2, CallLegs, MovedIsNat
  <2>4. MovingIn = Incoming(c.legs, Vault) /\ MovingOut = Outgoing(c.legs, Vault)
    BY <2>1, <2>3, OneCallMoves
  <2>5. QED
    BY <2>1, <2>4 DEF Ledger, Solvent
<1>3. QED
  BY <1>1, <1>2

(***************************************************************************)
(* The vault is solvent: whatever the token calls back, fails or moves,    *)
(* its balance and what is coming cover what is locked and what is owed.   *)
(***************************************************************************)
THEOREM VaultStaysSolvent == VaultSpec => []VaultInv
<1>1. LedgerInv => VaultInv
  <2> SUFFICES ASSUME LedgerInv PROVE VaultInv
    OBVIOUS
  <2>1. (entered <=> ~ Quiet) /\ signed \subseteq Signer \X Bundle \X Payouts /\ Config
    BY DEF LedgerInv, VaultIInv
  <2>2. VaultTypeOK
    BY <2>1, LedgerTypes DEF VaultTypeOK, Config
  <2>3. QED
    BY <2>2, LedgerSolvent DEF VaultInv
<1>2. QED
  BY LedgerStarts, LedgerKept, <1>1, PTL DEF VaultSpec

-----------------------------------------------------------------------------
(* What is paid. *)

LEMMA TimesStrict ==
  ASSUME NEW d \in Nat \ {0}, NEW x \in Int, NEW y \in Int, d * x < d * y
  PROVE  x < y
<1>1. SUFFICES ASSUME x >= y PROVE FALSE
  OBVIOUS
<1>2. d * (x - y) >= 0
  <2>1. x - y \in Nat
    BY <1>1
  <2>2. \A m, n \in Nat : m * n >= 0
    OBVIOUS
  <2>3. QED
    BY <2>1, <2>2
<1>3. d * (x - y) = d * x - d * y
  OBVIOUS
<1>4. QED
  BY <1>2, <1>3

(* An amount that is its share of a total, rounded either way, differs     *)
(* from that share rounded down by one minor unit at most.                 *)
LEMMA RoundedShare ==
  ASSUME NEW d \in Nat \ {0}, NEW exact \in Nat, NEW share \in Nat, NEW put \in Nat,
         d * share <= exact, exact < d * share + d,
         put * d < exact + d, exact < put * d + d
  PROVE  share \in {put - 1, put}
<1>1. d * put < d * (share + 2)
  <2>1. d * (share + 2) = d * share + d + d /\ d * put = put * d
    OBVIOUS
  <2>2. d * put \in Nat /\ d * share \in Nat
    OBVIOUS
  <2>3. QED
    BY <2>1, <2>2
<1>2. d * share < d * (put + 1)
  <2>1. d * (put + 1) = d * put + d /\ d * put = put * d
    OBVIOUS
  <2>2. d * put \in Nat /\ d * share \in Nat
    OBVIOUS
  <2>3. QED
    BY <2>1, <2>2
<1>3. put < share + 2 /\ share < put + 1
  BY <1>1, <1>2, TimesStrict
<1>4. QED
  BY <1>3

LEMMA LedgerIsFair == ASSUME LedgerInv PROVE FairReturn
<1> SUFFICES ASSUME Quiet, NEW b \in Bundle, bundle[b].status = "RETURNED",
                    NEW i \in DOMAIN bundle[b].participants,
                    bundle[b].put[i] * Denominator < bundle[b].amount * bundle[b].bps[i] + Denominator,
                    bundle[b].amount * bundle[b].bps[i] < bundle[b].put[i] * Denominator + Denominator
             PROVE  sent[b][i] \in {bundle[b].put[i] - 1, bundle[b].put[i]}
  BY DEF FairReturn
<1>1. PICK r : r = bundle[b]
  OBVIOUS
<1>2. Accounted(r, claimed[b], sent[b], <<>>)
  BY <1>1 DEF LedgerInv, Ledger, Of
<1>3. Row(r) /\ Settled(r, sent[b], <<>>, r.amount)
  BY <1>1, <1>2 DEF Accounted, NoBundle
<1>4. r.bps[i] \in Nat /\ r.put[i] \in Nat /\ r.amount \in Nat
  BY <1>1, <1>3 DEF Row
<1>5. sent[b][i] = Share(r, r.amount, i)
  <2>1. i \notin DOMAIN <<>>
    OBVIOUS
  <2>2. QED
    BY <1>1, <1>3, <2>1 DEF Settled
<1>6. PICK share \in Nat : share = Share(r, r.amount, i)
  BY <1>4, ShareIsFloor
<1>7. PICK d \in Nat \ {0} : d = Denominator
  BY VaultAssumption
<1>8. PICK exact \in Nat : exact = r.amount * r.bps[i]
  BY <1>4
<1>9. PICK put \in Nat : put = r.put[i]
  BY <1>4
<1>10. d * share <= exact /\ exact < d * share + d
  BY <1>4, <1>6, <1>7, <1>8, ShareIsFloor
<1>11. put * d < exact + d /\ exact < put * d + d
  BY <1>1, <1>7, <1>8, <1>9
<1>12. share \in {put - 1, put}
  BY <1>10, <1>11, RoundedShare
<1>13. QED
  BY <1>1, <1>5, <1>6, <1>9, <1>12

(* What a bundle pays is what its end allows. *)
LEMMA LedgerIsPaid == ASSUME LedgerInv PROVE PaidWithinLock
<1>1. ReleasedOnAttestation
  BY DEF LedgerInv, VaultIInv, Stored, ReleasedOnAttestation
<1>2. PICK x, legs : Ledger(bundle, claimed, sent, balance, x, legs)
  BY DEF LedgerInv
<1>3. \A b \in Bundle :
        /\ bundle[b].status \in {"NONE", "LOCKED"} => Paid(b) = 0
        /\ bundle[b].status = "RETURNED" => Paid(b) <= bundle[b].amount
        /\ bundle[b].status = "RELEASED" => Paid(b) <= claimed[b]
  BY <1>2, LedgerPays DEF Paid
<1>4. QED
  BY <1>1, <1>3 DEF PaidWithinLock, Locked

(***************************************************************************)
(* What the participants of a bundle receive is what its end allows: no    *)
(* more than was attested or put in, and a fair part of what is returned.  *)
(***************************************************************************)
THEOREM PaymentsFit == VaultSpec => []PaidOut
<1>1. LedgerInv => PaidOut
  BY LedgerIsFair, LedgerIsPaid DEF PaidOut
<1>2. QED
  BY LedgerStarts, LedgerKept, <1>1, PTL DEF VaultSpec
=============================================================================

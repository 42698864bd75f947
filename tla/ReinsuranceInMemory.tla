------------------------ MODULE ReinsuranceInMemory ------------------------
(***************************************************************************)
(* InMemoryReinsuranceRepository of persistence/in-memory.ts beside the    *)
(* database of Reinsurance.tla: every write is made to both.  A program    *)
(* carries the state of its layers, which is overwritten in place.         *)
(***************************************************************************)
EXTENDS Reinsurance

VARIABLE mem

memVars == <<vars, mem>>

MemInit == mem = [programs |-> [p \in Program |-> None], cessions |-> [p \in Program |-> {}]]

MemCreateProgram(p, org, layers) ==
  mem' = [mem EXCEPT !.programs[p] =
    [owner |-> org,
     layers |-> [i \in DOMAIN layers |-> [params |-> layers[i], gross |-> 0, ceded |-> 0]]]]

(* Mutant of MemUpdateLayerAggregateState: what was ceded is added. *)
MemAddToLayerAggregateState(p, i, state) ==
  mem' = [mem EXCEPT !.programs[p].layers[i].gross = state.gross,
                     !.programs[p].layers[i].ceded = @ + state.ceded]

MemUpdateLayerAggregateState(p, i, state) ==
  mem' = [mem EXCEPT !.programs[p].layers[i].gross = state.gross,
                     !.programs[p].layers[i].ceded = state.ceded]

MemRecordCession(c, p, rem) ==
  mem' = [mem EXCEPT !.cessions[p] = @ \cup {[id |-> c, rem |-> rem]}]

-----------------------------------------------------------------------------
(* A request arrives; a program is created in both. *)
MemCall(r) ==
  \E p \in Program, org \in Organisation :
    \/ \E layers \in Placements :
         CreateProgram(r, p, org, layers) /\ MemCreateProgram(p, org, layers)
    \/ \E gross \in Losses : CedeRead(r, p, org, gross) /\ UNCHANGED mem

(* A handler takes its next step; what it writes, it writes to both. *)
MemStep(r) ==
  LET q == req[r] IN
  \/ /\ CedeLayer(r)
     /\ \E i \in q.todo \ req'[r].todo :
          MemUpdateLayerAggregateState(q.program, i, NextState(q.state[i], q.rem, i))
  \/ CedeRecord(r) /\ MemRecordCession(q.cession, q.program, q.rem)
  \/ Record(r) /\ UNCHANGED mem

MemNext == \E r \in Request : MemCall(r) \/ MemStep(r) \/ (Crash(r) /\ UNCHANGED mem)

MemStart == Init /\ MemInit

MemSpec == MemStart /\ [][MemNext]_memVars

(***************************************************************************)
(* The repository that the tests run on holds the programs, the states of  *)
(* their layers and the cessions that the database holds, however cessions *)
(* overlap: its writes are as unconditional as the database's.             *)
(***************************************************************************)
MemoryAgrees ==
  \A p \in Program :
    /\ mem.programs[p] =
         IF ~ Exists(p) THEN None
         ELSE [owner |-> program[p].owner,
               layers |-> [i \in DOMAIN Layers(p) |->
                 [params |-> Layers(p)[i], gross |-> consumed[p][i].gross,
                  ceded |-> consumed[p][i].ceded]]]
    /\ mem.cessions[p] = {[id |-> c, rem |-> cession[c].rem] : c \in CessionsOn(p)}
=============================================================================

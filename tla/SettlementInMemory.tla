------------------------- MODULE SettlementInMemory -------------------------
(***************************************************************************)
(* InMemorySettlementRepository of persistence/in-memory.ts beside the     *)
(* database of Settlement.tla: every write is made to both.                *)
(***************************************************************************)
EXTENDS Settlement

VARIABLE mem

memVars == <<vars, mem>>

MemInit == mem = [t \in Transaction |-> None]

MemCreate(t, order, fee) ==
  mem' = [mem EXCEPT ![t] =
    [status |-> "PENDING", method |-> order.method, destination |-> order.destination,
     currency |-> order.currency, gross |-> order.gross, fee |-> fee,
     net |-> order.gross - fee, ref |-> None]]

(* Mutant of MemSetStatus: the detail is stored when the row has none yet  *)
(* and only for a success.                                                 *)
MemSetStatusOfSuccess(t, status, ref) ==
  mem' = [mem EXCEPT ![t].status = status,
                     ![t].ref = IF status = "CONFIRMED" THEN ref ELSE @]

(* setStatus keeps what it is not told anew. *)
MemSetStatus(t, status, ref) ==
  mem' = [mem EXCEPT ![t].status = status, ![t].ref = IF ref = None THEN @ ELSE ref]

-----------------------------------------------------------------------------
(* A write of a handler, to both. *)
WriteBoth(r) ==
  LET q == req[r] IN
  \/ \E t \in Transaction, order \in Orders :
       Create(r, t, order) /\ MemCreate(t, order, Fee(order.gross, order.fee))
  \/ Submit(r) /\ MemSetStatus(q.id, "SUBMITTED", None)
  \/ Conclude(r) /\ MemSetStatus(q.id, IF q.succeeded THEN "CONFIRMED" ELSE "FAILED", q.ref)

(* Any other step of a handler. *)
OnTheRails(r) ==
  /\ \/ SendNull(r) \/ SendStripe(r) \/ StartWorkflow(r)
     \/ PollAnswered(r) \/ PollTimesOut(r) \/ Record(r)
  /\ UNCHANGED mem

MemStep(r) == (~ At(r, "idle") /\ WriteBoth(r)) \/ OnTheRails(r)

MemNext ==
  \/ \E r \in Request :
       WriteBoth(r) \/ OnTheRails(r) \/ (UNCHANGED mem /\ (PollThrows(r) \/ Crash(r)))
  \/ \E t \in Transaction : WorkflowEnds(t) /\ UNCHANGED mem

MemStart == Init /\ MemInit

MemSpec == MemStart /\ [][MemNext]_memVars

(* As FairSpec: what is not waiting goes on. *)
MemFairSpec == MemSpec /\ \A r \in Request : WF_memVars(MemStep(r))

(* The repository that the tests run on holds the transactions that the    *)
(* database holds, each with the reference its outcome left.               *)
MemoryAgrees == mem = row
=============================================================================

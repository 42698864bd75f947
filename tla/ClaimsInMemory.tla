--------------------------- MODULE ClaimsInMemory ---------------------------
(***************************************************************************)
(* InMemoryClaimsRepository of persistence/in-memory.ts beside the         *)
(* database of Claims.tla: every write of a handler is made to both, the   *)
(* reads that decide what it does next are those of the database, and      *)
(* requests come one at a time.                                            *)
(***************************************************************************)
EXTENDS Claims

VARIABLE mem

memVars == <<vars, mem>>

MemInit == mem = [claims |-> [c \in Claim |-> None], payouts |-> [c \in Claim |-> {}]]

MemCreate(c, l) ==
  mem' = [mem EXCEPT !.claims[c] =
    [status |-> "REPORTED", lst |-> l, loss |-> None, review |-> None, decision |-> None,
     evidence |-> FALSE]]

MemAddEvidence(c) == mem' = [mem EXCEPT !.claims[c].evidence = TRUE]
MemSetStatus(c, status) == mem' = [mem EXCEPT !.claims[c].status = status]
MemSetLoss(c, loss, review, status) ==
  mem' = [mem EXCEPT !.claims[c].loss = loss, !.claims[c].review = review,
                     !.claims[c].status = status]

(* Mutant of MemSetApproval: the decision is kept, the status is not. *)
MemSetApprovalOnly(c, decision) == mem' = [mem EXCEPT !.claims[c].decision = decision]

MemSetApproval(c, decision) ==
  mem' = [mem EXCEPT !.claims[c].decision = decision, !.claims[c].status = decision]

MemSetSettled(c) == mem' = [mem EXCEPT !.claims[c].status = "SETTLED"]

(* recordPayouts replaces what is there: it has no unique key to refuse. *)
MemRecordPayouts(c, paid) ==
  mem' = [mem EXCEPT !.payouts[c] = {<<p, paid[p]>> : p \in Having(paid)}]

MemTotalApprovedLoss(l) ==
  LET relevant == {c \in Claim : /\ mem.claims[c] # None
                                 /\ mem.claims[c].lst = l
                                 /\ mem.claims[c].status \in {"APPROVED", "SETTLED"}
                                 /\ mem.claims[c].loss # None}
  IN  SumOver([c \in relevant |-> mem.claims[c].loss], relevant)

-----------------------------------------------------------------------------
(* A write of a handler, to both. *)
WriteBoth(r) ==
  LET q == req[r]  c == q.claim IN
  \/ \E d \in Claim, l \in Listing : Called("report") /\ Report(r, d, l) /\ MemCreate(d, l)
  \/ \E d \in Claim : Called("addEvidence") /\ AddEvidence(r, d) /\ MemAddEvidence(d)
  \/ AdvanceSet(r) /\ MemSetStatus(c, q.to)
  \/ LossSet(r) /\ MemSetLoss(c, q.loss, ReviewOf(q.loss), claim'[c].status)
  \/ DecideSet(r) /\ MemSetApproval(c, q.to)
  \/ SettleSet(r) /\ MemSetSettled(c)
  \/ /\ PayoutsRecord(r)
     /\ \E paid \in ClaimPayouts(q.loss, q.rows) :
          /\ MemRecordPayouts(c, paid)
          /\ Payable(c, q.rows) => \A p \in Having(paid) : payouts'[c][p] = paid[p]

(* Any other step of a handler. *)
ReadOnly(r) == (Arrive(r) \/ Step(r) \/ Crash(r)) /\ UNCHANGED <<claim, payouts, mem>>

(* One request at a time, while syndications change. *)
MemNext ==
  \/ \E r \in Request :
       /\ \A s \in Request \ {r} : At(s, "idle")
       /\ WriteBoth(r) \/ ReadOnly(r)
  \/ SyndicationNext /\ UNCHANGED mem

MemSpec == Init /\ MemInit /\ [][MemNext]_memVars

(***************************************************************************)
(* The repository that the tests run on holds the claims and the payouts   *)
(* that the database holds, and its totalApprovedLoss, which the coverage  *)
(* test asks, is the same, as long as one request is handled at a time.    *)
(***************************************************************************)
MemoryAgrees ==
  /\ mem.claims = claim
  /\ \A c \in Claim : mem.payouts[c] = {<<p, payouts[c][p]>> : p \in Having(payouts[c])}
  /\ \A l \in Listing : MemTotalApprovedLoss(l) = TotalApprovedLoss(l)
=============================================================================

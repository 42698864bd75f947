---------------------------- MODULE ClaimsProofs ----------------------------
(***************************************************************************)
(* Proofs about Claims, for any claims, concurrent requests, losses,       *)
(* capacities and ceiling, over any syndications that keep to Commitments. *)
(***************************************************************************)
EXTENDS ClaimsInMemory, Sums, TLAPS

USE DEF InsertClaim, PushEvidence, SetStatus, SetLoss, SetApproval, SetSettled

(* What a split pays: something to each provider with a row and to nobody  *)
(* else, the whole loss together.                                          *)
LEMMA ClaimPayoutsExact ==
  ASSUME NEW loss \in Nat, NEW rows \in [Provider -> Shares \cup {None}],
         NEW paid \in ClaimPayouts(loss, rows)
  PROVE  /\ paid \in [Provider -> Nat \cup {None}]
         /\ Having(paid) = Having(rows)
         /\ SumOver([p \in Having(paid) |-> paid[p]], Having(paid)) = loss
<1> DEFINE W == Having(rows)
<1>1. PICK parts \in AllocateMoney(loss, [p \in W |-> rows[p]]) :
        paid = [p \in Provider |-> IF p \in W THEN parts[p] ELSE None]
  BY DEF ClaimPayouts
<1>2. parts \in [W -> 0 .. loss] /\ SumOver(parts, W) = loss
  BY <1>1 DEF AllocateMoney
<1>3. W \subseteq Provider
  BY DEF Having
<1>4. \A p \in W : parts[p] \in Nat /\ parts[p] # None
  BY <1>2, CommitmentsAssumption
<1> HIDE DEF W
<1>5. Having(paid) = W
  BY <1>1, <1>3, <1>4 DEF Having
<1>6. [p \in W |-> paid[p]] = parts
  BY <1>1, <1>2, <1>3
<1>7. paid \in [Provider -> Nat \cup {None}]
  BY <1>1, <1>4
<1>8. QED
  BY <1>2, <1>5, <1>6, <1>7 DEF W

-----------------------------------------------------------------------------
(* Type correctness. *)

LEMMA InitType == Init => TypeOK
BY DEF Init, PromiseInit, TypeOK, Nobody, Status, Idle, RequestState, RequestOK, ReadySteps

LEMMA IdleOK == RequestOK(Idle)
BY DEF RequestOK, Idle, Nobody, RequestState, ReadySteps

(* A step of one request leaves the others as they are. *)
LEMMA BecomeOK ==
  ASSUME TypeOK, NEW r \in Request, NEW q, RequestOK(q), Become(r, q)
  PROVE  /\ req' \in [Request -> RequestState]
         /\ \A s \in Request : RequestOK(req'[s])
         /\ req'[r] = q
         /\ \A s \in Request : s # r => req'[s] = req[s]
BY DEF TypeOK, Become, RequestOK

(* What an action that begins a request has in common with the others. *)
Created(c, row) == claim' = [claim EXCEPT ![c] = row]
Arrived(r) ==
  \E q : /\ RequestOK(q) /\ Become(r, q)
         /\ q.claim \in Claim
         /\ q.pc \in {"audit", "advance.syndication", "advance.set", "loss.syndication",
                      "decide.set", "settle.set"}
         /\ q.pc = "audit" => q.then = "process"
         /\ q.pc \in {"loss.syndication", "decide.set"} => q.lst = claim[q.claim].lst
         /\ \/ Exists(q.claim) /\ UNCHANGED claim
            \/ /\ q.pc = "audit" /\ Exists(q.claim)
               /\ Created(q.claim, [claim[q.claim] EXCEPT !.evidence = TRUE])
            \/ /\ q.pc = "audit" /\ ~ Exists(q.claim)
               /\ \E l \in Listing : Created(q.claim,
                    [status |-> "REPORTED", lst |-> l, loss |-> None, review |-> None,
                     decision |-> None, evidence |-> FALSE])
         /\ UNCHANGED <<promise, payouts, audit>>

LEMMA ArriveBegins ==
  ASSUME TypeOK, NEW r \in Request, Arrive(r)
  PROVE  Arrived(r)
<1>1. Nobody \in [Provider -> Shares \cup {None}]
  BY DEF Nobody
<1>2. ASSUME NEW c \in Claim, Exists(c)
      PROVE  claim[c] \in ClaimRow /\ claim[c].lst \in Listing
  BY <1>2 DEF TypeOK, Exists, ClaimRow
<1>3. ASSUME NEW c \in Claim, NEW pc \in ReadySteps, NEW to \in ClaimStatus \cup {None},
             NEW l \in Listing \cup {None}, NEW loss \in Nat \cup {None},
             NEW then \in Causes \cup {None},
             \/ pc \in {"audit", "settle.set"} /\ then = "process"
             \/ /\ pc \in {"advance.syndication", "advance.set"}
                /\ to \in ClaimStatus /\ l \in Listing /\ then = "process"
             \/ pc = "loss.syndication" /\ l \in Listing /\ loss \in Nat \ {0}
             \/ pc = "decide.set" /\ l \in Listing /\ to \in Decisions
      PROVE  RequestOK([pc |-> pc, claim |-> c, to |-> to, lst |-> l, loss |-> loss,
                        rows |-> Nobody, then |-> then])
  BY <1>1, <1>3 DEF RequestOK, RequestState, ReadySteps, Causes
<1>4. {"audit", "settle.set", "advance.syndication", "advance.set", "loss.syndication",
       "decide.set"} \subseteq ReadySteps
      /\ "process" \in Causes /\ Decisions \subseteq ClaimStatus
  BY DEF ReadySteps, Causes, Decisions, ClaimStatus
<1>5. ASSUME NEW c \in Claim, NEW l \in Listing, Report(r, c, l)
      PROVE  Arrived(r)
  <2>1. PICK q : q = [Idle EXCEPT !.pc = "audit", !.claim = c, !.then = "process"]
    OBVIOUS
  <2>2. q = [pc |-> "audit",
            claim |-> c, to |-> None, lst |-> None, loss |-> None,
            rows |-> Nobody, then |-> "process"]
    BY <2>1 DEF Idle
  <2>3. ~ Exists(c) /\ Created(c, [status |-> "REPORTED", lst |-> l, loss |-> None,
         review |-> None, decision |-> None, evidence |-> FALSE])
    BY <1>5 DEF Report, Created
  <2>4. RequestOK(q)
    BY <1>2, <1>3, <1>4, <2>2, <2>3, ClaimsAssumption
  <2>5. Become(r, q) /\ UNCHANGED <<promise, payouts, audit>>
    BY <1>5, <2>1 DEF Report, Begin
  <2>6. QED
    BY <2>2, <2>3, <2>4, <2>5 DEF Arrived
<1>6. ASSUME NEW c \in Claim, AddEvidence(r, c)
      PROVE  Arrived(r)
  <2>1. PICK q : q = [Idle EXCEPT !.pc = "audit", !.claim = c, !.then = "process"]
    OBVIOUS
  <2>2. q = [pc |-> "audit",
            claim |-> c, to |-> None, lst |-> None, loss |-> None,
            rows |-> Nobody, then |-> "process"]
    BY <2>1 DEF Idle
  <2>3. Exists(c) /\ Created(c, [claim[c] EXCEPT !.evidence = TRUE])
    BY <1>6 DEF AddEvidence, Created
  <2>4. RequestOK(q)
    BY <1>2, <1>3, <1>4, <2>2, <2>3, ClaimsAssumption
  <2>5. Become(r, q) /\ UNCHANGED <<promise, payouts, audit>>
    BY <1>6, <2>1 DEF AddEvidence, Begin
  <2>6. QED
    BY <2>2, <2>3, <2>4, <2>5 DEF Arrived
<1>7. ASSUME NEW c \in Claim, NEW to \in Targets, AdvanceStart(r, c, to)
      PROVE  Arrived(r)
  <2>1. PICK q : q = [Idle EXCEPT !.claim = c, !.to = to, !.lst = claim[c].lst, !.then = "process",
          !.pc = IF to = "COVERAGE_CONFIRMED" THEN "advance.syndication" ELSE "advance.set"]
    OBVIOUS
  <2>2. q = [pc |-> IF to = "COVERAGE_CONFIRMED" THEN "advance.syndication" ELSE "advance.set",
            claim |-> c, to |-> to, lst |-> claim[c].lst, loss |-> None,
            rows |-> Nobody, then |-> "process"]
    BY <2>1 DEF Idle
  <2>3. Exists(c) /\ UNCHANGED claim
    BY <1>7 DEF AdvanceStart, Created
  <2>4. RequestOK(q)
    BY <1>2, <1>3, <1>4, <2>2, <2>3, ClaimsAssumption
  <2>5. Become(r, q) /\ UNCHANGED <<promise, payouts, audit>>
    BY <1>7, <2>1 DEF AdvanceStart, Begin
  <2>6. QED
    BY <2>2, <2>3, <2>4, <2>5 DEF Arrived
<1>8. ASSUME NEW c \in Claim, NEW loss \in Losses, LossStart(r, c, loss)
      PROVE  Arrived(r)
  <2>1. PICK q : q = [Idle EXCEPT !.pc = "loss.syndication", !.claim = c,
              !.lst = claim[c].lst, !.loss = loss]
    OBVIOUS
  <2>2. q = [pc |-> "loss.syndication",
            claim |-> c, to |-> None, lst |-> claim[c].lst, loss |-> loss,
            rows |-> Nobody, then |-> None]
    BY <2>1 DEF Idle
  <2>3. Exists(c) /\ UNCHANGED claim
    BY <1>8 DEF LossStart, Created
  <2>4. RequestOK(q)
    BY <1>2, <1>3, <1>4, <2>2, <2>3, ClaimsAssumption
  <2>5. Become(r, q) /\ UNCHANGED <<promise, payouts, audit>>
    BY <1>8, <2>1 DEF LossStart, Begin
  <2>6. QED
    BY <2>2, <2>3, <2>4, <2>5 DEF Arrived
<1>9. ASSUME NEW c \in Claim, NEW d \in Decisions, DecideStart(r, c, d)
      PROVE  Arrived(r)
  <2>1. PICK q : q = [Idle EXCEPT !.pc = "decide.set", !.claim = c, !.lst = claim[c].lst, !.to = d]
    OBVIOUS
  <2>2. q = [pc |-> "decide.set",
            claim |-> c, to |-> d, lst |-> claim[c].lst, loss |-> None,
            rows |-> Nobody, then |-> None]
    BY <2>1 DEF Idle
  <2>3. Exists(c) /\ UNCHANGED claim
    BY <1>9 DEF DecideStart, Created
  <2>4. RequestOK(q)
    BY <1>2, <1>3, <1>4, <2>2, <2>3, ClaimsAssumption
  <2>5. Become(r, q) /\ UNCHANGED <<promise, payouts, audit>>
    BY <1>9, <2>1 DEF DecideStart, Begin
  <2>6. QED
    BY <2>2, <2>3, <2>4, <2>5 DEF Arrived
<1>10. ASSUME NEW c \in Claim, SettleStart(r, c)
      PROVE  Arrived(r)
  <2>1. PICK q : q = [Idle EXCEPT !.pc = "settle.set", !.claim = c, !.then = "process"]
    OBVIOUS
  <2>2. q = [pc |-> "settle.set",
            claim |-> c, to |-> None, lst |-> None, loss |-> None,
            rows |-> Nobody, then |-> "process"]
    BY <2>1 DEF Idle
  <2>3. Exists(c) /\ UNCHANGED claim
    BY <1>10 DEF SettleStart, Created
  <2>4. RequestOK(q)
    BY <1>2, <1>3, <1>4, <2>2, <2>3, ClaimsAssumption
  <2>5. Become(r, q) /\ UNCHANGED <<promise, payouts, audit>>
    BY <1>10, <2>1 DEF SettleStart, Begin
  <2>6. QED
    BY <2>2, <2>3, <2>4, <2>5 DEF Arrived
<1>11. QED
  BY <1>5, <1>6, <1>7, <1>8, <1>9, <1>10 DEF Arrive

(* An update of a claim changes that claim and no other. *)
LEMMA Written ==
  ASSUME TypeOK, NEW c \in Claim, NEW row \in ClaimRow, Created(c, row)
  PROVE  /\ claim' \in [Claim -> ClaimRow \cup {None}]
         /\ claim'[c] = row /\ row # None
         /\ \A d \in Claim : d # c => claim'[d] = claim[d]
BY ClaimRowAssumption DEF TypeOK, Created

(* What the updates of the handlers write. *)
LEMMA StatusRow ==
  ASSUME NEW row \in ClaimRow, NEW status \in ClaimStatus
  PROVE  /\ [row EXCEPT !.status = status] \in ClaimRow
         /\ [row EXCEPT !.status = status].lst = row.lst
         /\ [row EXCEPT !.status = status].loss = row.loss
         /\ [row EXCEPT !.status = status].decision = row.decision
BY DEF ClaimRow

LEMMA EvidenceRow ==
  ASSUME NEW row \in ClaimRow
  PROVE  /\ [row EXCEPT !.evidence = TRUE] \in ClaimRow
         /\ [row EXCEPT !.evidence = TRUE].lst = row.lst
         /\ [row EXCEPT !.evidence = TRUE].loss = row.loss
         /\ [row EXCEPT !.evidence = TRUE].decision = row.decision
BY DEF ClaimRow

LEMMA ReportedRow ==
  ASSUME NEW l \in Listing
  PROVE  [status |-> "REPORTED", lst |-> l, loss |-> None, review |-> None,
          decision |-> None, evidence |-> FALSE] \in ClaimRow
BY DEF ClaimRow, ClaimStatus

LEMMA RowOf ==
  ASSUME TypeOK, NEW c \in Claim, Exists(c)
  PROVE  claim[c] \in ClaimRow
BY DEF TypeOK, Exists

LEMMA ArriveType ==
  ASSUME TypeOK, NEW r \in Request, Arrive(r)
  PROVE  TypeOK'
<1>1. Arrived(r)
  BY ArriveBegins
<1>2. claim' \in [Claim -> ClaimRow \cup {None}]
  BY <1>1, Written, EvidenceRow, ReportedRow, RowOf DEF Arrived, TypeOK
<1>3. /\ req' \in [Request -> RequestState]
      /\ \A s \in Request : RequestOK(req'[s])
  BY <1>1, BecomeOK DEF Arrived
<1>4. QED
  BY <1>1, <1>2, <1>3 DEF Arrived, TypeOK, promise

-----------------------------------------------------------------------------
(* What each step of a handler does, in terms of the row and the request   *)
(* that it leaves behind.                                                  *)

Moves(r, q) == RequestOK(q) /\ Become(r, q)

LEMMA MovesOK ==
  ASSUME TypeOK, NEW r \in Request, NEW q, Moves(r, q)
  PROVE  /\ req' \in [Request -> RequestState]
         /\ \A s \in Request : RequestOK(req'[s])
         /\ req'[r] = q
         /\ \A s \in Request : s # r => req'[s] = req[s]
BY BecomeOK DEF Moves

LEMMA ReviewKind == ASSUME NEW loss PROVE ReviewOf(loss) \in Reviews
BY DEF ReviewOf, Reviews

LEMMA AdvanceSetDoes ==
  ASSUME TypeOK, NEW r \in Request, AdvanceSet(r)
  PROVE  LET q == req[r] IN
         /\ q.pc = "advance.set" /\ q.claim \in Claim /\ q.to \in ClaimStatus
         /\ q.then = "process"
         /\ Created(q.claim, [claim[q.claim] EXCEPT !.status = q.to])
         /\ Moves(r, [q EXCEPT !.pc = "audit"])
         /\ UNCHANGED <<promise, payouts, audit>>
<1>1. RequestOK(req[r]) /\ req[r].pc = "advance.set"
  BY DEF TypeOK, AdvanceSet, At
<1>2. RequestOK([req[r] EXCEPT !.pc = "audit"])
  BY <1>1 DEF RequestOK, RequestState, ReadySteps, Causes
<1>3. QED
  BY <1>1, <1>2 DEF AdvanceSet, Goto, Moves, Created, RequestOK

LEMMA SettleSetDoes ==
  ASSUME TypeOK, NEW r \in Request, SettleSet(r)
  PROVE  LET q == req[r] IN
         /\ q.pc = "settle.set" /\ q.claim \in Claim /\ q.then = "process"
         /\ Created(q.claim, [claim[q.claim] EXCEPT !.status = "SETTLED"])
         /\ Moves(r, [q EXCEPT !.pc = "audit"])
         /\ UNCHANGED <<promise, payouts, audit>>
<1>1. RequestOK(req[r]) /\ req[r].pc = "settle.set"
  BY DEF TypeOK, SettleSet, At
<1>2. RequestOK([req[r] EXCEPT !.pc = "audit"])
  BY <1>1 DEF RequestOK, RequestState, ReadySteps, Causes
<1>3. QED
  BY <1>1, <1>2 DEF SettleSet, Goto, Moves, Created, RequestOK

LEMMA LossSetDoes ==
  ASSUME TypeOK, NEW r \in Request, LossSet(r)
  PROVE  LET q == req[r]
             review == ReviewOf(q.loss)
         IN
         /\ q.pc = "loss.set" /\ q.claim \in Claim /\ q.loss \in Nat \ {0}
         /\ q.lst \in Listing
         /\ Created(q.claim, [claim[q.claim] EXCEPT !.loss = q.loss, !.review = review,
              !.status = IF review = "AUTO" THEN "APPROVED" ELSE "AWAITING_APPROVAL"])
         /\ Moves(r, [q EXCEPT !.then = "loss",
              !.pc = IF review = "AUTO" THEN "payouts.list" ELSE "audit"])
         /\ UNCHANGED <<promise, payouts, audit>>
<1>1. RequestOK(req[r]) /\ req[r].pc = "loss.set"
  BY DEF TypeOK, LossSet, At
<1>2. ASSUME NEW pc \in {"payouts.list", "audit"}
      PROVE  RequestOK([req[r] EXCEPT !.then = "loss", !.pc = pc])
  BY <1>1 DEF RequestOK, RequestState, ReadySteps, Causes
<1>3. QED
  BY <1>1, <1>2 DEF LossSet, Moves, Created, RequestOK

LEMMA DecideSetDoes ==
  ASSUME TypeOK, NEW r \in Request, Exists(req[r].claim), DecideSet(r)
  PROVE  LET q == req[r]
             loss == claim[q.claim].loss
         IN
         /\ q.pc = "decide.set" /\ q.claim \in Claim /\ q.to \in Decisions
         /\ Created(q.claim, [claim[q.claim] EXCEPT !.decision = q.to, !.status = q.to])
         /\ \/ Moves(r, [q EXCEPT !.pc = "audit", !.then = "decide"])
            \/ Moves(r, Idle)
            \/ /\ loss # None
               /\ Moves(r, [q EXCEPT !.pc = "payouts.list", !.then = "decide", !.loss = loss])
         /\ UNCHANGED <<promise, payouts, audit>>
<1>1. RequestOK(req[r]) /\ req[r].pc = "decide.set"
  BY DEF TypeOK, DecideSet, At
<1>2. claim[req[r].claim] \in ClaimRow
  BY <1>1, RowOf DEF RequestOK
<1>3. RequestOK([req[r] EXCEPT !.pc = "audit", !.then = "decide"])
  BY <1>1 DEF RequestOK, RequestState, ReadySteps, Causes
<1>4. ASSUME NEW loss \in Nat \ {0}
      PROVE  RequestOK([req[r] EXCEPT !.pc = "payouts.list", !.then = "decide", !.loss = loss])
  BY <1>1 DEF RequestOK, RequestState, ReadySteps, Causes
<1>5. claim[req[r].claim].loss # None => claim[req[r].claim].loss \in Nat \ {0}
  BY <1>2 DEF ClaimRow
<1>6. Created(req[r].claim, [claim[req[r].claim] EXCEPT !.decision = req[r].to, !.status = req[r].to])
  BY <1>1 DEF DecideSet, Created
<1>7. QED
  BY <1>1, <1>3, <1>4, <1>5, <1>6, IdleOK DEF DecideSet, Moves, Finish, RequestOK

LEMMA PayoutsListDoes ==
  ASSUME TypeOK, NEW r \in Request, PayoutsList(r)
  PROVE  LET q == req[r] IN
         /\ q.pc = "payouts.list" /\ q.claim \in Claim /\ q.lst \in Listing
         /\ q.loss \in Nat \ {0}
         /\ \/ Moves(r, Idle)
            \/ Moves(r, [q EXCEPT !.pc = "payouts.record", !.rows = holding[q.lst]])
         /\ UNCHANGED <<promise, claim, payouts, audit>>
<1>1. RequestOK(req[r]) /\ req[r].pc = "payouts.list"
  BY DEF TypeOK, PayoutsList, At
<1>2. holding[req[r].lst] \in [Provider -> Shares \cup {None}]
  BY <1>1 DEF TypeOK, RequestOK
<1>3. RequestOK([req[r] EXCEPT !.pc = "payouts.record", !.rows = holding[req[r].lst]])
  BY <1>1, <1>2 DEF RequestOK, RequestState, ReadySteps
<1>4. QED
  BY <1>1, <1>3, IdleOK DEF PayoutsList, Moves, Finish, RequestOK

(* The payouts are all made, on a claim the rows have none on, or none is. *)
LEMMA PayoutsRecordDoes ==
  ASSUME TypeOK, NEW r \in Request, PayoutsRecord(r)
  PROVE  LET q == req[r] IN
         /\ q.pc = "payouts.record" /\ q.claim \in Claim /\ q.loss \in Nat \ {0}
         /\ q.rows \in [Provider -> Shares \cup {None}]
         /\ \/ /\ Payable(q.claim, q.rows)
               /\ \E paid \in ClaimPayouts(q.loss, q.rows) :
                    payouts' = [payouts EXCEPT ![q.claim] = [p \in Provider |->
                                  IF paid[p] = None THEN payouts[q.claim][p] ELSE paid[p]]]
               /\ Moves(r, [q EXCEPT !.pc = "payouts.audit"])
            \/ Moves(r, Idle) /\ UNCHANGED payouts
         /\ UNCHANGED <<promise, claim, audit>>
<1>1. RequestOK(req[r]) /\ req[r].pc = "payouts.record"
  BY DEF TypeOK, PayoutsRecord, At
<1>2. RequestOK([req[r] EXCEPT !.pc = "payouts.audit"])
  BY <1>1 DEF RequestOK, RequestState, ReadySteps
<1>3. QED
  BY <1>1, <1>2, IdleOK DEF PayoutsRecord, Moves, Finish, Goto, RequestOK, RequestState

LEMMA AuditDoes ==
  ASSUME TypeOK, NEW r \in Request, PayoutsAudit(r) \/ Record(r)
  PROVE  LET q == req[r] IN
         /\ q.claim \in Claim
         /\ \/ /\ q.pc = "payouts.audit" /\ audit' = audit \cup {<<"payouts", q.claim>>}
               /\ Moves(r, [q EXCEPT !.pc = "audit"])
            \/ /\ q.pc = "audit" /\ q.then \in Causes /\ Moves(r, Idle)
               /\ audit' = audit \cup {<<q.then, q.claim>>}
         /\ UNCHANGED <<promise, claim, payouts>>
<1>1. RequestOK(req[r]) /\ req[r].pc \in {"payouts.audit", "audit"}
  BY DEF TypeOK, PayoutsAudit, Record, At
<1>2. req[r].pc = "payouts.audit" => RequestOK([req[r] EXCEPT !.pc = "audit"])
  BY <1>1 DEF RequestOK, RequestState, ReadySteps
<1>3. QED
  BY <1>1, <1>2, IdleOK DEF PayoutsAudit, Record, At, Moves, Finish, Goto, RequestOK

(* The steps that write nothing but the request. *)
LEMMA CheckDoes ==
  ASSUME TypeOK, NEW r \in Request,
         AdvanceSyndication(r) \/ LossSyndication(r) \/ LossCoverage(r) \/ Crash(r)
  PROVE  LET q == req[r] IN
         /\ \/ Moves(r, Idle)
            \/ q.pc = "advance.syndication" /\ Moves(r, [q EXCEPT !.pc = "advance.set"])
            \/ /\ q.pc = "loss.syndication" /\ q.lst \in Listing
               /\ Moves(r, [q EXCEPT !.pc = "loss.coverage", !.to = synd[q.lst]])
            \/ /\ q.pc = "loss.coverage" /\ q.to = "BOUND"
               /\ Moves(r, [q EXCEPT !.pc = "loss.set"])
         /\ UNCHANGED <<promise, claim, payouts, audit>>
<1>1. RequestOK(req[r])
  BY DEF TypeOK
<1>2. ASSUME req[r].pc = "advance.syndication"
      PROVE  RequestOK([req[r] EXCEPT !.pc = "advance.set"])
  BY <1>1, <1>2 DEF RequestOK, RequestState, ReadySteps
<1>3. ASSUME req[r].pc = "loss.syndication", NEW status \in Status
      PROVE  RequestOK([req[r] EXCEPT !.pc = "loss.coverage", !.to = status])
  BY <1>1, <1>3 DEF RequestOK, RequestState, ReadySteps
<1>4. ASSUME req[r].pc = "loss.coverage"
      PROVE  RequestOK([req[r] EXCEPT !.pc = "loss.set"])
  BY <1>1, <1>4 DEF RequestOK, RequestState, ReadySteps
<1>5. req[r].pc = "loss.syndication" => req[r].lst \in Listing /\ synd[req[r].lst] \in Status
  BY <1>1 DEF RequestOK, TypeOK
<1>6. CASE AdvanceSyndication(r)
  BY <1>2, <1>6, IdleOK DEF AdvanceSyndication, Require, Goto, Finish, At, Moves
<1>7. CASE LossSyndication(r)
  BY <1>3, <1>5, <1>7 DEF LossSyndication, At, Moves
<1>8. CASE LossCoverage(r)
  BY <1>4, <1>8, IdleOK DEF LossCoverage, Covered, Require, Goto, Finish, At, Moves
<1>9. CASE Crash(r)
  BY <1>9, IdleOK DEF Crash, Finish, Moves
<1>10. QED
  BY <1>6, <1>7, <1>8, <1>9

-----------------------------------------------------------------------------
(* The inductive invariant.  Beyond the properties, it says that a loss    *)
(* stands only behind a BOUND syndication, that one is bound to providers  *)
(* who still hold their rows, and that only claims that were reported are  *)
(* paid or audited.                                                        *)

LossBehindBound ==
  \A c \in Claim : Exists(c) /\ claim[c].loss # None => synd[claim[c].lst] = "BOUND"
BoundHeld ==
  \A l \in Listing : synd[l] = "BOUND" =>
    Having(bound[l]) # {} /\ Having(bound[l]) \subseteq Having(holding[l])
Recorded ==
  \A c \in Claim : Paid(c) \/ (\E a \in Actions : <<a, c>> \in audit) => Exists(c)

Stored == /\ PaidAfterTests /\ HoldersPay /\ ClaimsAudited
          /\ LossBehindBound /\ BoundHeld /\ Recorded
IInv == TypeOK /\ Stored /\ HandlersKnow

(* What no step takes back, and every handler therefore relies on. *)
Grows ==
  /\ \A c \in Claim : Exists(c) =>
       /\ Exists(c)' /\ claim'[c].lst = claim[c].lst
       /\ claim[c].loss # None => claim'[c].loss # None
       /\ claim[c].decision # None => claim'[c].decision # None
  /\ \A c \in Claim : Paid(c) => payouts'[c] = payouts[c]
  /\ \A l \in Listing : synd[l] = "BOUND" =>
       /\ synd'[l] = "BOUND" /\ bound'[l] = bound[l]
       /\ Having(holding[l]) \subseteq Having(holding'[l])

LEMMA PaidPersists ==
  ASSUME Grows, NEW c \in Claim, Paid(c)
  PROVE  Paid(c)'
BY DEF Grows, Paid

(* What an existing claim and its syndication have, they keep. *)
LEMMA ClaimPersists ==
  ASSUME TypeOK, Grows, NEW c \in Claim, Exists(c)
  PROVE  /\ claim[c].lst \in Listing /\ Exists(c)' /\ claim'[c].lst = claim[c].lst
         /\ synd[claim[c].lst] = "BOUND" =>
              /\ synd'[claim[c].lst] = "BOUND" /\ bound'[claim[c].lst] = bound[claim[c].lst]
              /\ Having(holding[claim[c].lst]) \subseteq Having(holding'[claim[c].lst])
<1>1. claim[c].lst \in Listing
  BY RowOf DEF ClaimRow
<1>2. QED
  BY <1>1 DEF Grows

(* A step of another request leaves true what a request knows. *)
LEMMA KnowsPersists ==
  ASSUME TypeOK, Grows, NEW s \in Request, Knows(req[s]), req'[s] = req[s]
  PROVE  Knows(req[s])'
<1>1. RequestOK(req[s])
  BY DEF TypeOK
<1>2. CASE req[s].pc = "idle"
  BY <1>2 DEF Knows
<1>3. CASE req[s].pc # "idle"
  <2>1. req[s].claim \in Claim /\ Exists(req[s].claim)
    BY <1>1, <1>3 DEF RequestOK, Knows
  <2>2. /\ Exists(req[s].claim)' /\ claim'[req[s].claim].lst = claim[req[s].claim].lst
        /\ claim[req[s].claim].lst \in Listing
        /\ claim[req[s].claim].loss # None => claim'[req[s].claim].loss # None
        /\ claim[req[s].claim].decision # None => claim'[req[s].claim].decision # None
    BY <2>1, ClaimPersists DEF Grows
  <2>3. Paid(req[s].claim) => Paid(req[s].claim)'
    BY <2>1, PaidPersists
  <2>4. req[s].lst \in Listing /\ synd[req[s].lst] = "BOUND" =>
          /\ synd'[req[s].lst] = "BOUND" /\ bound'[req[s].lst] = bound[req[s].lst]
          /\ Having(holding[req[s].lst]) \subseteq Having(holding'[req[s].lst])
    BY DEF Grows
  <2>5. QED
    BY <1>3, <2>1, <2>2, <2>3, <2>4 DEF Knows
<1>4. QED
  BY <1>2, <1>3

LEMMA OthersKnow ==
  ASSUME TypeOK, HandlersKnow, Grows, NEW r \in Request,
         \A s \in Request : s # r => req'[s] = req[s],
         Knows(req[r])'
  PROVE  HandlersKnow'
<1>1. ASSUME NEW s \in Request
      PROVE  Knows(req[s])'
  <2>1. CASE s = r
    BY <2>1
  <2>2. CASE s # r
    BY <2>2, KnowsPersists DEF HandlersKnow
  <2>3. QED
    BY <2>1, <2>2
<1>2. QED
  BY <1>1 DEF HandlersKnow

LEMMA IdleKnows == ASSUME NEW r, req'[r] = Idle PROVE Knows(req[r])'
BY DEF Knows, Idle

(* As long as no payout is made, what is paid stays tested and audited. *)
LEMMA PaidKept ==
  ASSUME TypeOK, Stored, Grows, UNCHANGED payouts
  PROVE  PaidAfterTests' /\ HoldersPay'
<1>1. ASSUME NEW c \in Claim, Paid(c)'
      PROVE  /\ Paid(c) /\ Exists(c) /\ PaidTotal(c)' = PaidTotal(c)
             /\ synd[claim[c].lst] = "BOUND"
  BY <1>1 DEF Paid, PaidTotal, Stored, Recorded, PaidAfterTests
<1>2. PaidAfterTests'
  BY <1>1, ClaimPersists DEF PaidAfterTests, Stored, Grows
<1>3. HoldersPay'
  BY <1>1, ClaimPersists DEF HoldersPay, Stored
<1>4. QED
  BY <1>2, <1>3

LEMMA AuditKept ==
  ASSUME TypeOK, Stored, Grows, UNCHANGED audit
  PROVE  ClaimsAudited'
<1>1. ASSUME NEW c \in Claim, NEW a \in Actions, <<a, c>> \in audit
      PROVE  Exists(c)
  BY <1>1 DEF Stored, Recorded
<1>2. {"payouts", "decide", "loss"} \subseteq Actions
  BY DEF Actions, Causes
<1>3. QED
  BY <1>1, <1>2, PaidPersists DEF ClaimsAudited, Stored, Grows

LEMMA RecordedKept ==
  ASSUME TypeOK, Stored, Grows, UNCHANGED <<payouts, audit>>
  PROVE  Recorded'
BY DEF Recorded, Stored, Grows, Paid

-----------------------------------------------------------------------------
(* One lemma for the steps of each kind. *)

(* A step that writes no more than its request. *)
LEMMA KeepsClaims ==
  ASSUME IInv, UNCHANGED <<promise, claim, payouts, audit>>
  PROVE  Stored' /\ Grows
<1>1. Grows
  BY DEF Grows, Exists, promise
<1>2. LossBehindBound' /\ BoundHeld'
  BY DEF IInv, Stored, LossBehindBound, BoundHeld, Exists, promise
<1>3. QED
  BY <1>1, <1>2, PaidKept, AuditKept, RecordedKept DEF IInv, Stored

(* A step that writes one claim: the claim keeps its syndication, and a    *)
(* loss or a decision it has; a loss is behind a BOUND syndication.        *)
LEMMA WriteClaim ==
  ASSUME IInv, NEW c \in Claim, NEW row \in ClaimRow, Created(c, row),
         UNCHANGED <<promise, payouts, audit>>,
         Exists(c) => /\ row.lst = claim[c].lst
                      /\ claim[c].loss # None => row.loss # None
                      /\ claim[c].decision # None => row.decision # None,
         row.loss # None => synd[row.lst] = "BOUND"
  PROVE  /\ claim' \in [Claim -> ClaimRow \cup {None}] /\ claim'[c] = row
         /\ Exists(c)' /\ Stored' /\ Grows
<1>1. /\ claim' \in [Claim -> ClaimRow \cup {None}]
      /\ claim'[c] = row /\ row # None
      /\ \A d \in Claim : d # c => claim'[d] = claim[d]
  BY Written DEF IInv
<1>2. Grows
  BY <1>1 DEF Grows, Exists, promise
<1>3. LossBehindBound' /\ BoundHeld'
  BY <1>1 DEF IInv, Stored, LossBehindBound, BoundHeld, Exists, promise
<1>4. QED
  BY <1>1, <1>2, <1>3, PaidKept, AuditKept, RecordedKept DEF IInv, Stored, Exists

(* The types of a step that moves a request on and writes at most claims. *)
LEMMA MoveType ==
  ASSUME TypeOK, NEW r \in Request, NEW q, Moves(r, q),
         claim' \in [Claim -> ClaimRow \cup {None}],
         payouts' \in [Claim -> [Provider -> Nat \cup {None}]],
         audit' \subseteq Actions \X Claim, UNCHANGED promise
  PROVE  TypeOK'
BY MovesOK DEF TypeOK, promise

(* A step that moves one request on keeps the invariant when what is       *)
(* stored and what that request knows are in order.                        *)
LEMMA MoveInv ==
  ASSUME IInv, NEW r \in Request, NEW q, Moves(r, q), TypeOK', Stored', Grows, Knows(q)'
  PROVE  IInv'
<1>1. req'[r] = q /\ \A s \in Request : s # r => req'[s] = req[s]
  BY MovesOK DEF IInv
<1>2. Knows(req[r])'
  BY <1>1
<1>3. HandlersKnow'
  BY <1>1, <1>2, OthersKnow DEF IInv
<1>4. QED
  BY <1>3 DEF IInv

LEMMA MoveIdle ==
  ASSUME IInv, NEW r \in Request, Moves(r, Idle), TypeOK', Stored', Grows
  PROVE  IInv'
<1>1. req'[r] = Idle /\ \A s \in Request : s # r => req'[s] = req[s]
  BY MovesOK DEF IInv
<1>2. QED
  BY <1>1, IdleKnows, OthersKnow DEF IInv

LEMMA ArriveInv ==
  ASSUME IInv, NEW r \in Request, Arrive(r)
  PROVE  IInv'
<1>1. TypeOK' /\ TypeOK
  BY ArriveType DEF IInv
<1>2. PICK q : /\ RequestOK(q) /\ Become(r, q) /\ q.claim \in Claim
               /\ q.pc \in {"audit", "advance.syndication", "advance.set", "loss.syndication",
                            "decide.set", "settle.set"}
               /\ q.pc = "audit" => q.then = "process"
               /\ q.pc \in {"loss.syndication", "decide.set"} => q.lst = claim[q.claim].lst
               /\ \/ Exists(q.claim) /\ UNCHANGED claim
                  \/ /\ q.pc = "audit" /\ Exists(q.claim)
                     /\ Created(q.claim, [claim[q.claim] EXCEPT !.evidence = TRUE])
                  \/ /\ q.pc = "audit" /\ ~ Exists(q.claim)
                     /\ \E l \in Listing : Created(q.claim,
                          [status |-> "REPORTED", lst |-> l, loss |-> None, review |-> None,
                           decision |-> None, evidence |-> FALSE])
               /\ UNCHANGED <<promise, payouts, audit>>
  BY <1>1, ArriveBegins DEF Arrived
<1>3. Stored' /\ Grows /\ Exists(q.claim)' /\ (q.pc # "audit" => UNCHANGED claim)
  <2>1. CASE Exists(q.claim) /\ UNCHANGED claim
    BY <1>2, <2>1, KeepsClaims DEF Exists
  <2>2. CASE q.pc = "audit" /\ Exists(q.claim)
             /\ Created(q.claim, [claim[q.claim] EXCEPT !.evidence = TRUE])
    <3>1. claim[q.claim] \in ClaimRow
      BY <1>1, <1>2, <2>2, RowOf
    <3>2. claim[q.claim].loss # None => synd[claim[q.claim].lst] = "BOUND"
      BY <1>2, <2>2 DEF IInv, Stored, LossBehindBound
    <3>3. QED
      BY <1>2, <2>2, <3>1, <3>2, EvidenceRow, WriteClaim
  <2>3. CASE q.pc = "audit" /\ ~ Exists(q.claim)
             /\ \E l \in Listing : Created(q.claim,
                  [status |-> "REPORTED", lst |-> l, loss |-> None, review |-> None,
                   decision |-> None, evidence |-> FALSE])
    BY <1>2, <2>3, ReportedRow, WriteClaim
  <2>4. QED
    BY <1>2, <2>1, <2>2, <2>3
<1>4. /\ req'[r] = q /\ \A s \in Request : s # r => req'[s] = req[s]
  BY <1>1, <1>2, BecomeOK
<1>5. Knows(req[r])'
  BY <1>2, <1>3, <1>4 DEF Knows
<1>6. QED
  BY <1>1, <1>3, <1>4, <1>5, OthersKnow DEF IInv

LEMMA CheckInv ==
  ASSUME IInv, NEW r \in Request,
         AdvanceSyndication(r) \/ LossSyndication(r) \/ LossCoverage(r) \/ Crash(r)
  PROVE  IInv'
<1>1. TypeOK /\ RequestOK(req[r]) /\ Knows(req[r])
  BY DEF IInv, TypeOK, HandlersKnow
<1>2. /\ \/ Moves(r, Idle)
         \/ /\ req[r].pc = "advance.syndication"
            /\ Moves(r, [req[r] EXCEPT !.pc = "advance.set"])
         \/ /\ req[r].pc = "loss.syndication" /\ req[r].lst \in Listing
            /\ Moves(r, [req[r] EXCEPT !.pc = "loss.coverage", !.to = synd[req[r].lst]])
         \/ /\ req[r].pc = "loss.coverage" /\ req[r].to = "BOUND"
            /\ Moves(r, [req[r] EXCEPT !.pc = "loss.set"])
      /\ UNCHANGED <<promise, claim, payouts, audit>>
  BY <1>1, CheckDoes
<1>3. Stored' /\ Grows
  BY <1>2, KeepsClaims
<1>4. UNCHANGED <<synd, holding, bound>>
  BY <1>2 DEF promise
<1>5. ASSUME NEW q, Moves(r, q)
      PROVE  TypeOK'
  BY <1>1, <1>2, <1>5, MoveType DEF TypeOK
<1>6. CASE Moves(r, Idle)
  BY <1>3, <1>5, <1>6, MoveIdle
<1>7. CASE /\ req[r].pc = "advance.syndication"
           /\ Moves(r, [req[r] EXCEPT !.pc = "advance.set"])
  <2>1. PICK q : q = [req[r] EXCEPT !.pc = "advance.set"]
    OBVIOUS
  <2>2. Knows(q)'
    BY <1>1, <1>2, <1>7, <2>1 DEF Knows, Exists, RequestOK, RequestState
  <2>3. QED
    BY <1>3, <1>5, <1>7, <2>1, <2>2, MoveInv
<1>8. CASE /\ req[r].pc = "loss.syndication" /\ req[r].lst \in Listing
           /\ Moves(r, [req[r] EXCEPT !.pc = "loss.coverage", !.to = synd[req[r].lst]])
  <2>1. PICK q : q = [req[r] EXCEPT !.pc = "loss.coverage", !.to = synd[req[r].lst]]
    OBVIOUS
  <2>2. Knows(q)'
    BY <1>1, <1>2, <1>4, <1>8, <2>1 DEF Knows, Exists, RequestOK, RequestState
  <2>3. QED
    BY <1>3, <1>5, <1>8, <2>1, <2>2, MoveInv
<1>9. CASE /\ req[r].pc = "loss.coverage" /\ req[r].to = "BOUND"
           /\ Moves(r, [req[r] EXCEPT !.pc = "loss.set"])
  <2>1. PICK q : q = [req[r] EXCEPT !.pc = "loss.set"]
    OBVIOUS
  <2>2. Knows(q)'
    BY <1>1, <1>2, <1>4, <1>9, <2>1 DEF Knows, Exists, RequestOK, RequestState
  <2>3. QED
    BY <1>3, <1>5, <1>9, <2>1, <2>2, MoveInv
<1>10. QED
  BY <1>2, <1>6, <1>7, <1>8, <1>9

(* setStatus and setSettled. *)
LEMMA StatusInv ==
  ASSUME IInv, NEW r \in Request, AdvanceSet(r) \/ SettleSet(r)
  PROVE  IInv'
<1>1. TypeOK /\ RequestOK(req[r]) /\ Knows(req[r])
  BY DEF IInv, TypeOK, HandlersKnow
<1>2. PICK status \in ClaimStatus :
        /\ req[r].pc \in {"advance.set", "settle.set"} /\ req[r].claim \in Claim
        /\ req[r].then = "process"
        /\ Created(req[r].claim, [claim[req[r].claim] EXCEPT !.status = status])
        /\ Moves(r, [req[r] EXCEPT !.pc = "audit"])
        /\ UNCHANGED <<promise, payouts, audit>>
  BY <1>1, AdvanceSetDoes, SettleSetDoes DEF ClaimStatus
<1>3. PICK c \in Claim : c = req[r].claim
  BY <1>2
<1>4. Exists(c) /\ claim[c] \in ClaimRow
  BY <1>1, <1>2, <1>3, RowOf DEF Knows
<1>5. claim[c].loss # None => synd[claim[c].lst] = "BOUND"
  BY <1>4 DEF IInv, Stored, LossBehindBound
<1>6. PICK row \in ClaimRow : /\ Created(c, row) /\ row.lst = claim[c].lst
                              /\ row.loss = claim[c].loss /\ row.decision = claim[c].decision
  BY <1>2, <1>3, <1>4, StatusRow
<1>7. claim' \in [Claim -> ClaimRow \cup {None}] /\ Exists(c)' /\ Stored' /\ Grows
  BY <1>2, <1>3, <1>4, <1>5, <1>6, WriteClaim
<1>8. TypeOK'
  BY <1>1, <1>2, <1>7, MoveType DEF TypeOK
<1>9. PICK q : q = [req[r] EXCEPT !.pc = "audit"]
  OBVIOUS
<1>10. Knows(q)'
  BY <1>1, <1>2, <1>3, <1>7, <1>9 DEF Knows, RequestOK, RequestState
<1>11. QED
  BY <1>2, <1>7, <1>8, <1>9, <1>10, MoveInv

(* setLoss: only a loss within the ceiling goes on to its payouts at once. *)
LEMMA LossSetInv ==
  ASSUME IInv, NEW r \in Request, LossSet(r)
  PROVE  IInv'
<1>1. TypeOK /\ RequestOK(req[r]) /\ Knows(req[r])
  BY DEF IInv, TypeOK, HandlersKnow
<1>2. PICK review \in Reviews : review = ReviewOf(req[r].loss)
  BY ReviewKind
<1>3. PICK c \in Claim, loss \in Nat \ {0} : c = req[r].claim /\ loss = req[r].loss
  BY <1>1, LossSetDoes
<1>4. PICK pc \in {"payouts.list", "audit"} :
        pc = IF review = "AUTO" THEN "payouts.list" ELSE "audit"
  OBVIOUS
<1>5. PICK status \in ClaimStatus :
        status = IF review = "AUTO" THEN "APPROVED" ELSE "AWAITING_APPROVAL"
  BY DEF ClaimStatus
<1>6. /\ req[r].pc = "loss.set" /\ req[r].lst \in Listing
      /\ Created(c, [claim[c] EXCEPT !.loss = loss, !.review = review, !.status = status])
      /\ Moves(r, [req[r] EXCEPT !.then = "loss", !.pc = pc])
      /\ UNCHANGED <<promise, payouts, audit>>
  BY <1>1, <1>2, <1>3, <1>4, <1>5, LossSetDoes
<1>7. /\ Exists(c) /\ claim[c] \in ClaimRow
      /\ req[r].lst = claim[c].lst /\ synd[req[r].lst] = "BOUND"
  BY <1>1, <1>3, <1>6, RowOf DEF Knows
<1>8. PICK row \in ClaimRow : /\ Created(c, row) /\ row.lst = claim[c].lst
                              /\ row.loss = loss /\ row.decision = claim[c].decision
  <2>1. PICK row : row = [claim[c] EXCEPT !.loss = loss, !.review = review, !.status = status]
    OBVIOUS
  <2>2. /\ row \in ClaimRow /\ row.lst = claim[c].lst
        /\ row.loss = loss /\ row.decision = claim[c].decision
    BY <1>2, <1>3, <1>5, <1>7, <2>1 DEF ClaimRow
  <2>3. QED
    BY <1>6, <2>1, <2>2
<1>9. /\ claim' \in [Claim -> ClaimRow \cup {None}] /\ claim'[c] = row
      /\ Exists(c)' /\ Stored' /\ Grows
  BY <1>6, <1>7, <1>8, CommitmentsAssumption, WriteClaim
<1>10. TypeOK'
  BY <1>1, <1>6, <1>9, MoveType DEF TypeOK
<1>11. pc = "payouts.list" => loss <= AutoCeiling
  BY <1>2, <1>3, <1>4 DEF ReviewOf
<1>12. PICK q : q = [req[r] EXCEPT !.then = "loss", !.pc = pc]
  OBVIOUS
<1>13. /\ q.claim = c /\ q.pc = pc /\ q.then = "loss" /\ q.lst = claim[c].lst /\ q.loss = loss
       /\ synd[q.lst] = "BOUND"
  BY <1>1, <1>3, <1>7, <1>12 DEF RequestOK, RequestState
<1>14. loss > AutoCeiling => pc = "audit"
  BY <1>11, ClaimsAssumption
<1>15. claim'[c].lst = claim[c].lst /\ claim'[c].loss # None /\ synd' = synd
  BY <1>6, <1>8, <1>9, CommitmentsAssumption DEF promise
<1>16. Knows(q)'
  BY <1>9, <1>13, <1>14, <1>15 DEF Knows
<1>17. QED
  BY <1>6, <1>9, <1>10, <1>12, <1>16, MoveInv

(* setApproval: from the row that it returns the loss is paid. *)
LEMMA DecideSetInv ==
  ASSUME IInv, NEW r \in Request, DecideSet(r)
  PROVE  IInv'
<1>1. TypeOK /\ RequestOK(req[r]) /\ Knows(req[r]) /\ req[r].pc = "decide.set"
  BY DEF IInv, TypeOK, HandlersKnow, DecideSet, At
<1>2. PICK c \in Claim : c = req[r].claim
  BY <1>1 DEF RequestOK
<1>3. Exists(c) /\ claim[c] \in ClaimRow /\ req[r].lst = claim[c].lst
  BY <1>1, <1>2, RowOf DEF Knows
<1>4. PICK loss : loss = claim[c].loss
  OBVIOUS
<1>5. /\ req[r].to \in Decisions
      /\ Created(c, [claim[c] EXCEPT !.decision = req[r].to, !.status = req[r].to])
      /\ \/ Moves(r, [req[r] EXCEPT !.pc = "audit", !.then = "decide"])
         \/ Moves(r, Idle)
         \/ /\ loss # None
            /\ Moves(r, [req[r] EXCEPT !.pc = "payouts.list", !.then = "decide", !.loss = loss])
      /\ UNCHANGED <<promise, payouts, audit>>
  BY <1>1, <1>2, <1>3, <1>4, DecideSetDoes
<1>6. PICK row \in ClaimRow : /\ Created(c, row) /\ row.lst = claim[c].lst
                              /\ row.loss = loss /\ row.decision \in Decisions
  <2>1. PICK row : row = [claim[c] EXCEPT !.decision = req[r].to, !.status = req[r].to]
    OBVIOUS
  <2>2. /\ row \in ClaimRow /\ row.lst = claim[c].lst
        /\ row.loss = claim[c].loss /\ row.decision = req[r].to
    BY <1>3, <1>5, <2>1 DEF ClaimRow, Decisions, ClaimStatus
  <2>3. QED
    BY <1>4, <1>5, <2>1, <2>2
<1>7. loss # None => synd[claim[c].lst] = "BOUND"
  BY <1>3, <1>4 DEF IInv, Stored, LossBehindBound
<1>8. row.decision # None
  BY <1>6, ClaimRowAssumption
<1>9. /\ claim' \in [Claim -> ClaimRow \cup {None}] /\ claim'[c] = row
      /\ Exists(c)' /\ Stored' /\ Grows
  BY <1>4, <1>5, <1>6, <1>7, <1>8, WriteClaim
<1>10. ASSUME NEW q, Moves(r, q)
       PROVE  TypeOK'
  BY <1>1, <1>5, <1>9, <1>10, MoveType DEF TypeOK
<1>11. CASE Moves(r, Idle)
  BY <1>9, <1>10, <1>11, MoveIdle
<1>12. CASE Moves(r, [req[r] EXCEPT !.pc = "audit", !.then = "decide"])
  <2>1. PICK q : q = [req[r] EXCEPT !.pc = "audit", !.then = "decide"]
    OBVIOUS
  <2>2. q.pc = "audit" /\ q.then = "decide" /\ q.claim = c
    BY <1>1, <1>2, <2>1 DEF RequestOK, RequestState
  <2>3. Knows(q)'
    BY <1>8, <1>9, <2>2 DEF Knows
  <2>4. QED
    BY <1>9, <1>10, <1>12, <2>1, <2>3, MoveInv
<1>13. CASE /\ loss # None
            /\ Moves(r, [req[r] EXCEPT !.pc = "payouts.list", !.then = "decide", !.loss = loss])
  <2>1. PICK q : q = [req[r] EXCEPT !.pc = "payouts.list", !.then = "decide", !.loss = loss]
    OBVIOUS
  <2>2. q.pc = "payouts.list" /\ q.then = "decide" /\ q.claim = c /\ q.lst = claim[c].lst
    BY <1>1, <1>2, <1>3, <2>1 DEF RequestOK, RequestState
  <2>3. synd'[q.lst] = "BOUND"
    BY <1>5, <1>7, <1>13, <2>2 DEF promise
  <2>4. Knows(q)'
    BY <1>6, <1>8, <1>9, <2>2, <2>3 DEF Knows
  <2>5. QED
    BY <1>9, <1>10, <1>13, <2>1, <2>4, MoveInv
<1>14. QED
  BY <1>5, <1>11, <1>12, <1>13

(* listAllocations: the rows read include those of all that were bound. *)
LEMMA PayoutsListInv ==
  ASSUME IInv, NEW r \in Request, PayoutsList(r)
  PROVE  IInv'
<1>1. TypeOK /\ RequestOK(req[r]) /\ Knows(req[r])
  BY DEF IInv, TypeOK, HandlersKnow
<1>2. /\ req[r].pc = "payouts.list" /\ req[r].lst \in Listing /\ req[r].claim \in Claim
      /\ \/ Moves(r, Idle)
         \/ Moves(r, [req[r] EXCEPT !.pc = "payouts.record", !.rows = holding[req[r].lst]])
      /\ UNCHANGED <<promise, claim, payouts, audit>>
  BY <1>1, PayoutsListDoes
<1>3. Stored' /\ Grows
  BY <1>2, KeepsClaims
<1>4. ASSUME NEW q, Moves(r, q)
      PROVE  TypeOK'
  BY <1>1, <1>2, <1>4, MoveType DEF TypeOK
<1>5. CASE Moves(r, Idle)
  BY <1>3, <1>4, <1>5, MoveIdle
<1>6. CASE Moves(r, [req[r] EXCEPT !.pc = "payouts.record", !.rows = holding[req[r].lst]])
  <2>1. PICK q : q = [req[r] EXCEPT !.pc = "payouts.record", !.rows = holding[req[r].lst]]
    OBVIOUS
  <2>2. /\ q.pc = "payouts.record" /\ q.rows = holding[q.lst] /\ q.lst = req[r].lst
        /\ q.claim = req[r].claim /\ q.loss = req[r].loss /\ q.then = req[r].then
    BY <1>1, <2>1 DEF RequestOK, RequestState
  <2>3. synd[q.lst] = "BOUND" /\ Having(bound[q.lst]) \subseteq Having(holding[q.lst])
    BY <1>1, <1>2, <2>2 DEF Knows, IInv, Stored, BoundHeld
  <2>4. UNCHANGED <<synd, bound, holding>>
    BY <1>2 DEF promise
  <2>5. Knows(q)'
    BY <1>1, <1>2, <2>2, <2>3, <2>4 DEF Knows, Exists
  <2>6. QED
    BY <1>3, <1>4, <1>6, <2>1, <2>5, MoveInv
<1>7. QED
  BY <1>2, <1>5, <1>6

(* A second createMany is refused: every set of rows names the providers   *)
(* that were bound, and so do the payouts of a claim that has some.        *)
LEMMA SecondRefused ==
  ASSUME IInv, NEW r \in Request, req[r].pc = "payouts.record",
         Payable(req[r].claim, req[r].rows)
  PROVE  /\ ~ Paid(req[r].claim) /\ Having(req[r].rows) # {}
         /\ payouts[req[r].claim] = Nobody
<1>1. TypeOK /\ RequestOK(req[r]) /\ Knows(req[r])
  BY DEF IInv, TypeOK, HandlersKnow
<1>2. PICK c \in Claim : c = req[r].claim
  BY <1>1 DEF RequestOK
<1>3. Exists(c) /\ req[r].lst = claim[c].lst /\ claim[c] \in ClaimRow
  BY <1>1, <1>2, RowOf DEF Knows
<1>4. PICK l \in Listing : l = claim[c].lst
  BY <1>3 DEF ClaimRow
<1>5. Having(bound[l]) # {} /\ Having(bound[l]) \subseteq Having(req[r].rows)
  BY <1>1, <1>3, <1>4 DEF Knows, IInv, Stored, BoundHeld
<1>6. Paid(c) => Having(bound[l]) \subseteq Having(payouts[c])
  BY <1>2, <1>4 DEF IInv, Stored, HoldersPay
<1>7. \A p \in Having(req[r].rows) : payouts[c][p] = None
  BY <1>2 DEF Payable
<1>8. ~ Paid(c)
  BY <1>5, <1>6, <1>7 DEF Having
<1>9. payouts[c] = Nobody
  BY <1>1, <1>8 DEF TypeOK, Paid, Having, Nobody
<1>10. QED
  BY <1>2, <1>5, <1>8, <1>9

LEMMA PayoutsRecordInv ==
  ASSUME IInv, NEW r \in Request, PayoutsRecord(r)
  PROVE  IInv'
<1>0. TypeOK
  BY DEF IInv
<1>1. TypeOK /\ RequestOK(req[r]) /\ Knows(req[r])
  BY DEF IInv, TypeOK, HandlersKnow
<1>2. PICK c \in Claim, loss \in Nat \ {0}, rows \in [Provider -> Shares \cup {None}] :
        c = req[r].claim /\ loss = req[r].loss /\ rows = req[r].rows
  BY <1>1, PayoutsRecordDoes
<1>3. /\ req[r].pc = "payouts.record"
      /\ \/ /\ Payable(c, rows)
            /\ \E paid \in ClaimPayouts(loss, rows) :
                 payouts' = [payouts EXCEPT ![c] = [p \in Provider |->
                               IF paid[p] = None THEN payouts[c][p] ELSE paid[p]]]
            /\ Moves(r, [req[r] EXCEPT !.pc = "payouts.audit"])
         \/ Moves(r, Idle) /\ UNCHANGED payouts
      /\ UNCHANGED <<promise, claim, audit>>
  BY <1>0, <1>2, PayoutsRecordDoes
<1>4. CASE Moves(r, Idle) /\ UNCHANGED payouts
  <2>1. Stored' /\ Grows
    BY <1>3, <1>4, KeepsClaims
  <2>2. TypeOK'
    BY <1>1, <1>3, <1>4, MoveType DEF TypeOK
  <2>3. QED
    BY <1>4, <2>1, <2>2, MoveIdle
<1>5. CASE /\ Payable(c, rows)
           /\ \E paid \in ClaimPayouts(loss, rows) :
                payouts' = [payouts EXCEPT ![c] = [p \in Provider |->
                              IF paid[p] = None THEN payouts[c][p] ELSE paid[p]]]
           /\ Moves(r, [req[r] EXCEPT !.pc = "payouts.audit"])
  <2>1. ~ Paid(c) /\ Having(rows) # {} /\ payouts[c] = Nobody
    BY <1>2, <1>3, <1>5, SecondRefused
  <2>2. PICK paid \in ClaimPayouts(loss, rows) :
          payouts' = [payouts EXCEPT ![c] = [p \in Provider |->
                        IF paid[p] = None THEN payouts[c][p] ELSE paid[p]]]
    BY <1>5
  <2>3. /\ paid \in [Provider -> Nat \cup {None}] /\ Having(paid) = Having(rows)
        /\ SumOver([p \in Having(paid) |-> paid[p]], Having(paid)) = loss
    BY ClaimPayoutsExact
  <2>4. [p \in Provider |-> IF paid[p] = None THEN payouts[c][p] ELSE paid[p]] = paid
    BY <2>1, <2>3 DEF Nobody
  <2>5. /\ payouts' \in [Claim -> [Provider -> Nat \cup {None}]] /\ payouts'[c] = paid
        /\ \A d \in Claim : d # c => payouts'[d] = payouts[d]
    BY <1>1, <2>2, <2>3, <2>4 DEF TypeOK
  <2>6. /\ Exists(c) /\ claim[c] \in ClaimRow /\ req[r].lst = claim[c].lst
        /\ synd[claim[c].lst] = "BOUND" /\ (loss > AutoCeiling => claim[c].decision # None)
        /\ Having(bound[claim[c].lst]) \subseteq Having(rows)
        /\ Having(rows) \subseteq Having(holding[claim[c].lst])
    BY <1>1, <1>2, <1>3, RowOf DEF Knows
  <2>7. UNCHANGED <<synd, holding, bound>> /\ UNCHANGED <<claim, audit>>
    BY <1>3 DEF promise
  <2>8. Grows
    BY <2>1, <2>5, <2>7 DEF Grows, Exists
  <2>9. Paid(c)' /\ PaidTotal(c)' = loss
    BY <2>1, <2>3, <2>5 DEF Paid, PaidTotal
  <2>10. \A d \in Claim : d # c => Paid(d)' = Paid(d) /\ PaidTotal(d)' = PaidTotal(d)
    BY <2>5 DEF Paid, PaidTotal
  <2>11. PaidAfterTests'
    BY <2>6, <2>7, <2>9, <2>10 DEF PaidAfterTests, IInv, Stored
  <2>12. HoldersPay'
    <3>1. ASSUME NEW d \in Claim, Paid(d)', d # c
          PROVE  /\ Having(bound[claim[d].lst]) \subseteq Having(payouts[d])
                 /\ Having(payouts[d]) \subseteq Having(holding[claim[d].lst])
      BY <2>10, <3>1 DEF IInv, Stored, HoldersPay
    <3>2. QED
      BY <2>3, <2>5, <2>6, <2>7, <3>1 DEF HoldersPay
  <2>13. ClaimsAudited'
    BY <1>1, <2>7, <2>8, AuditKept DEF IInv
  <2>14. LossBehindBound' /\ BoundHeld'
    BY <2>7 DEF IInv, Stored, LossBehindBound, BoundHeld, Exists
  <2>15. Recorded'
    BY <2>6, <2>7, <2>10 DEF IInv, Stored, Recorded, Exists
  <2>16. TypeOK'
    BY <1>1, <1>3, <1>5, <2>5, MoveType DEF TypeOK
  <2>17. PICK q : q = [req[r] EXCEPT !.pc = "payouts.audit"]
    OBVIOUS
  <2>18. q.pc = "payouts.audit" /\ q.claim = c /\ q.then = req[r].then
    BY <1>1, <1>2, <2>17 DEF RequestOK, RequestState
  <2>19. Knows(q)'
    BY <1>1, <1>2, <1>3, <2>6, <2>7, <2>9, <2>18 DEF Knows, Exists
  <2>20. QED
    BY <1>5, <2>8, <2>11, <2>12, <2>13, <2>14, <2>15, <2>16, <2>17, <2>19, MoveInv DEF Stored
<1>6. QED
  BY <1>3, <1>4, <1>5

(* The audit records: what they say was seen to be so before. *)
LEMMA AuditInv ==
  ASSUME IInv, NEW r \in Request, PayoutsAudit(r) \/ Record(r)
  PROVE  IInv'
<1>1. TypeOK /\ RequestOK(req[r]) /\ Knows(req[r])
  BY DEF IInv, TypeOK, HandlersKnow
<1>2. PICK c \in Claim : c = req[r].claim
  BY <1>1, AuditDoes
<1>3. PICK a \in Actions :
        /\ audit' = audit \cup {<<a, c>>} /\ UNCHANGED <<promise, claim, payouts>>
        /\ \/ /\ req[r].pc = "payouts.audit" /\ a = "payouts"
              /\ Moves(r, [req[r] EXCEPT !.pc = "audit"])
           \/ req[r].pc = "audit" /\ a \in Causes /\ a = req[r].then /\ Moves(r, Idle)
  BY <1>1, <1>2, AuditDoes DEF Actions
<1>4. Exists(c)
  BY <1>1, <1>2, <1>3 DEF Knows
<1>5. /\ a = "payouts" => Paid(c)
      /\ a = "loss" => claim[c].loss # None
      /\ a = "decide" => claim[c].decision # None
  BY <1>1, <1>2, <1>3 DEF Knows, Causes
<1>6. Grows
  BY <1>3 DEF Grows, Exists, promise
<1>7. ClaimsAudited'
  BY <1>3, <1>5 DEF ClaimsAudited, IInv, Stored, Paid
<1>8. Recorded'
  BY <1>3, <1>4 DEF Recorded, IInv, Stored, Paid, Exists
<1>9. LossBehindBound' /\ BoundHeld'
  BY <1>3 DEF IInv, Stored, LossBehindBound, BoundHeld, Exists, promise
<1>10. Stored'
  BY <1>1, <1>3, <1>6, <1>7, <1>8, <1>9, PaidKept DEF IInv, Stored
<1>11. audit' \subseteq Actions \X Claim
  BY <1>1, <1>3 DEF TypeOK
<1>12. ASSUME NEW q, Moves(r, q)
       PROVE  TypeOK'
  BY <1>1, <1>3, <1>11, <1>12, MoveType DEF TypeOK
<1>13. CASE Moves(r, Idle)
  BY <1>6, <1>10, <1>12, <1>13, MoveIdle
<1>14. CASE req[r].pc = "payouts.audit" /\ Moves(r, [req[r] EXCEPT !.pc = "audit"])
  <2>1. PICK q : q = [req[r] EXCEPT !.pc = "audit"]
    OBVIOUS
  <2>2. q.pc = "audit" /\ q.claim = c /\ q.then = req[r].then
    BY <1>1, <1>2, <2>1 DEF RequestOK, RequestState
  <2>3. Knows(q)'
    BY <1>1, <1>2, <1>3, <1>4, <1>14, <2>2 DEF Knows, Exists
  <2>4. QED
    BY <1>6, <1>10, <1>12, <1>14, <2>1, <2>3, MoveInv
<1>15. QED
  BY <1>3, <1>13, <1>14

(* Syndications move on under the claims, as Commitments allows. *)
LEMMA SyndicationInv ==
  ASSUME IInv, SyndicationNext
  PROVE  IInv'
<1>1. TypeOK /\ UNCHANGED <<claim, payouts, audit, req>>
  BY DEF IInv, SyndicationNext
<1>2. PICK l \in Listing :
        \/ Open(l)
        \/ \E p \in Provider : Withdraw(l, p) \/ \E s \in Shares : Propose(l, p, s)
        \/ \E terms \in [Provider -> BoundTerms(l) \cup {None}] : Bind(l, terms)
  BY DEF SyndicationNext, PromiseNext
<1> DEFINE Kept ==
          /\ synd' \in [Listing -> Status]
          /\ holding' \in [Listing -> [Provider -> Shares \cup {None}]]
          /\ DOMAIN bound' = Listing
          /\ \A k \in Listing : bound'[k] \in [Provider -> BoundTerms(k) \cup {None}]
          /\ \A k \in Listing : synd[k] = "BOUND" =>
               /\ synd'[k] = "BOUND" /\ bound'[k] = bound[k]
               /\ Having(holding[k]) \subseteq Having(holding'[k])
          /\ \A k \in Listing : synd'[k] = "BOUND" /\ synd[k] # "BOUND" =>
               Having(bound'[k]) # {} /\ Having(bound'[k]) \subseteq Having(holding'[k])
<1>3. Kept
  <2>1. CASE Open(l)
    BY <1>1, <2>1 DEF Open, TypeOK, Status
  <2>2. ASSUME NEW p \in Provider, Withdraw(l, p)
        PROVE  Kept
    BY <1>1, <2>2 DEF Withdraw, TypeOK
  <2>3. ASSUME NEW p \in Provider, NEW s \in Shares, Propose(l, p, s)
        PROVE  Kept
    <3>1. s # None
      BY CommitmentsAssumption
    <3>2. QED
      BY <1>1, <2>3, <3>1 DEF Propose, TypeOK, Having
  <2>4. ASSUME NEW terms \in [Provider -> BoundTerms(l) \cup {None}], Bind(l, terms)
        PROVE  Kept
    BY <1>1, <2>4 DEF Bind, TypeOK, Status
  <2>5. QED
    BY <1>2, <2>1, <2>2, <2>3, <2>4
<1>4. TypeOK'
  BY <1>1, <1>3 DEF TypeOK
<1>5. Grows
  BY <1>1, <1>3 DEF Grows, Exists
<1>6. BoundHeld'
  BY <1>3 DEF BoundHeld, IInv, Stored
<1>7. LossBehindBound'
  BY <1>1, <1>3, RowOf DEF LossBehindBound, IInv, Stored, Exists, ClaimRow
<1>8. Stored'
  BY <1>1, <1>5, <1>6, <1>7, PaidKept, AuditKept, RecordedKept DEF IInv, Stored
<1>9. HandlersKnow'
  BY <1>1, <1>5, KnowsPersists DEF HandlersKnow, IInv
<1>10. QED
  BY <1>4, <1>8, <1>9 DEF IInv

-----------------------------------------------------------------------------
LEMMA InitInv == Init => IInv
<1> SUFFICES ASSUME Init PROVE IInv
  OBVIOUS
<1>1. TypeOK
  BY InitType
<1>2. \A c \in Claim : ~ Exists(c) /\ ~ Paid(c)
  BY DEF Init, Exists, Paid, Having, Nobody
<1>3. Stored
  BY <1>2 DEF Init, PromiseInit, Stored, PaidAfterTests, HoldersPay, ClaimsAudited,
     LossBehindBound, BoundHeld, Recorded
<1>4. HandlersKnow
  BY DEF Init, HandlersKnow, Knows, Idle
<1>5. QED
  BY <1>1, <1>3, <1>4 DEF IInv

LEMMA NextInv == IInv /\ [Next]_vars => IInv'
<1> SUFFICES ASSUME IInv, [Next]_vars PROVE IInv'
  OBVIOUS
<1>1. CASE UNCHANGED vars
  <2>1. UNCHANGED <<promise, claim, payouts, audit>> /\ UNCHANGED <<synd, holding, bound, req>>
    BY <1>1 DEF vars, promise
  <2>2. Stored' /\ Grows
    BY <2>1, KeepsClaims
  <2>3. TypeOK' /\ TypeOK
    BY <2>1 DEF IInv, TypeOK
  <2>4. HandlersKnow'
    BY <2>1, <2>2, <2>3, KnowsPersists DEF HandlersKnow, IInv
  <2>5. QED
    BY <2>2, <2>3, <2>4 DEF IInv
<1>2. CASE SyndicationNext
  BY <1>2, SyndicationInv
<1>3. ASSUME NEW r \in Request, Step(r)
      PROVE  IInv'
  BY <1>3, CheckInv, StatusInv, LossSetInv, DecideSetInv, PayoutsListInv, PayoutsRecordInv,
     AuditInv DEF Step
<1>4. ASSUME NEW r \in Request, Arrive(r) \/ Crash(r)
      PROVE  IInv'
  BY <1>4, ArriveInv, CheckInv
<1>5. QED
  BY <1>1, <1>2, <1>3, <1>4 DEF Next, ClaimsNext

LEMMA Invariance == Spec => []IInv
BY InitInv, NextInv, PTL DEF Spec

(* Every variable keeps its type, and a handler knows which claim, loss    *)
(* and decision it is about when its step needs them: a loss that is set   *)
(* or paid is a number above zero, whatever overtakes the handler.         *)
THEOREM TypeCorrect == Spec => []TypeOK
BY Invariance, PTL DEF IInv

(* What a handler carries stays true of the stored state until it writes,  *)
(* without a lock: what it relies on is never taken back.                  *)
THEOREM HandlersCorrect == Spec => []HandlersKnow
BY Invariance, PTL DEF IInv

(* No payout without its tests, in every interleaving of requests and      *)
(* crashes: the syndication is BOUND and, above the ceiling, a human has   *)
(* decided.                                                                *)
THEOREM PaidTested == Spec => []PaidAfterTests
BY Invariance, PTL DEF IInv, Stored

(* Every provider that was bound pays, and only providers with a row do.   *)
THEOREM PaidByHolders == Spec => []HoldersPay
BY Invariance, PTL DEF IInv, Stored

(* The audit never tells of a payout, a decision or a loss that is not.    *)
THEOREM AuditCorrect == Spec => []ClaimsAudited
BY Invariance, PTL DEF IInv, Stored

(* A claim is paid at most once, however many calculations and decisions   *)
(* of it are under way: each carries rows of every bound provider, so the  *)
(* unique key refuses all but the first.                                   *)
THEOREM PaidOnlyOnce == Spec => PaidOnce
<1>1. ASSUME IInv, [Next]_vars
      PROVE  \A c \in Claim : Paid(c) => payouts'[c] = payouts[c]
  <2>1. CASE UNCHANGED payouts
    BY <2>1
  <2>2. ASSUME NEW r \in Request, PayoutsRecord(r)
        PROVE  \A c \in Claim : Paid(c) => payouts'[c] = payouts[c]
    <3>1. TypeOK
      BY <1>1 DEF IInv
    <3>2. PICK c \in Claim : c = req[r].claim
      BY <2>2, <3>1, PayoutsRecordDoes
    <3>3. \A d \in Claim : d # c => payouts'[d] = payouts[d]
      <4>1. CASE Payable(c, req[r].rows)
        BY <2>2, <3>1, <3>2, <4>1 DEF PayoutsRecord, TypeOK
      <4>2. CASE ~ Payable(c, req[r].rows)
        BY <2>2, <3>2, <4>2 DEF PayoutsRecord
      <4>3. QED
        BY <4>1, <4>2
    <3>4. CASE UNCHANGED payouts
      BY <3>4
    <3>5. CASE Payable(req[r].claim, req[r].rows)
      BY <1>1, <2>2, <3>1, <3>2, <3>3, <3>5, PayoutsRecordDoes, SecondRefused
    <3>6. QED
      BY <2>2, <3>1, <3>4, <3>5, PayoutsRecordDoes
  <2>3. ASSUME NEW r \in Request, Arrive(r)
        PROVE  UNCHANGED payouts
    BY <2>3 DEF Arrive, Report, AddEvidence, AdvanceStart, LossStart, DecideStart, SettleStart
  <2>4. ASSUME NEW r \in Request, Step(r), ~ PayoutsRecord(r)
        PROVE  UNCHANGED payouts
    BY <2>4 DEF Step, AdvanceSyndication, AdvanceSet, LossSyndication, LossCoverage, LossSet,
       DecideSet, SettleSet, PayoutsList, PayoutsAudit, Record
  <2>5. ASSUME NEW r \in Request, Crash(r)
        PROVE  UNCHANGED payouts
    BY <2>5 DEF Crash
  <2>6. QED
    BY <1>1, <2>1, <2>2, <2>3, <2>4, <2>5 DEF Next, ClaimsNext, SyndicationNext, vars
<1>2. QED
  BY <1>1, Invariance, PTL DEF PaidOnce, Spec


-----------------------------------------------------------------------------
(* What a loss is covered by.  The invariant is strengthened by what the   *)
(* coverage test leaves behind: a handler past it carries a loss within    *)
(* the capacity.  The test reads a sum, which is one of amounts because    *)
(* only finitely many claims have been reported.                           *)

LossWithinCapacity ==
  \A c \in Claim : Exists(c) /\ claim[c].loss # None => claim[c].loss <= Capacity[claim[c].lst]
PaidWithinCapacity ==
  \A c \in Claim : Paid(c) => PaidTotal(c) \in 0 .. Capacity[claim[c].lst]
Carries(q) ==
  q.pc \in {"loss.set", "payouts.list", "payouts.record"} => q.loss <= Capacity[q.lst]

CoverInv ==
  /\ IInv
  /\ IsFiniteSet({c \in Claim : Exists(c)})
  /\ LossWithinCapacity /\ PaidWithinCapacity
  /\ \A r \in Request : Carries(req[r])

(* A step that writes at most one claim, with a loss that fits, and makes  *)
(* no payout.                                                              *)
LEMMA CoverKept ==
  ASSUME CoverInv, IInv', NEW r \in Request, NEW q, Become(r, q), Carries(q), UNCHANGED payouts,
         \/ UNCHANGED claim
         \/ \E c \in Claim, row \in ClaimRow :
              /\ Created(c, row) /\ (Exists(c) => row.lst = claim[c].lst)
              /\ row.loss # None => row.loss <= Capacity[row.lst]
  PROVE  CoverInv'
<1>1. \A s \in Request : Carries(req'[s])
  BY DEF CoverInv, IInv, TypeOK, Become
<1>2. CASE UNCHANGED claim
  <2>1. PaidWithinCapacity' /\ LossWithinCapacity'
    BY <1>2 DEF CoverInv, PaidWithinCapacity, LossWithinCapacity, Paid, PaidTotal, Exists
  <2>2. QED
    BY <1>1, <1>2, <2>1 DEF CoverInv, Exists, Carries
<1>3. ASSUME NEW c \in Claim, NEW row \in ClaimRow,
             Created(c, row), Exists(c) => row.lst = claim[c].lst,
             row.loss # None => row.loss <= Capacity[row.lst]
      PROVE  CoverInv'
  <2>1. /\ claim'[c] = row /\ row # None
        /\ \A d \in Claim : d # c => claim'[d] = claim[d]
    BY <1>3, Written DEF CoverInv, IInv
  <2>2. {d \in Claim : Exists(d)'} = {d \in Claim : Exists(d)} \cup {c}
    BY <2>1 DEF Exists
  <2>3. IsFiniteSet({d \in Claim : Exists(d)'})
    BY <2>2, FS_AddElement DEF CoverInv
  <2>4. LossWithinCapacity'
    BY <1>3, <2>1 DEF CoverInv, LossWithinCapacity, Exists
  <2>5. \A d \in Claim : Paid(d)' <=> Paid(d)
    BY DEF Paid
  <2>6. \A d \in Claim : Paid(d) => PaidTotal(d)' = PaidTotal(d) /\ claim'[d].lst = claim[d].lst
    <3>1. \A d \in Claim : Paid(d) => Exists(d)
      BY DEF CoverInv, IInv, Stored, Recorded
    <3>2. \A d \in Claim : PaidTotal(d)' = PaidTotal(d)
      BY DEF PaidTotal
    <3>3. QED
      BY <1>3, <2>1, <3>1, <3>2
  <2>7. PaidWithinCapacity'
    BY <2>5, <2>6 DEF CoverInv, PaidWithinCapacity
  <2>8. QED
    BY <1>1, <2>3, <2>4, <2>7 DEF CoverInv, Carries
<1>4. QED
  BY <1>2, <1>3

LEMMA ArriveCovered ==
  ASSUME CoverInv, IInv', NEW r \in Request, Arrive(r)
  PROVE  CoverInv'
<1>1. TypeOK
  BY DEF CoverInv, IInv
<1>2. PICK q : /\ RequestOK(q) /\ Become(r, q) /\ q.claim \in Claim
               /\ q.pc \in {"audit", "advance.syndication", "advance.set", "loss.syndication",
                            "decide.set", "settle.set"}
               /\ \/ Exists(q.claim) /\ UNCHANGED claim
                  \/ /\ q.pc = "audit" /\ Exists(q.claim)
                     /\ Created(q.claim, [claim[q.claim] EXCEPT !.evidence = TRUE])
                  \/ /\ q.pc = "audit" /\ ~ Exists(q.claim)
                     /\ \E l \in Listing : Created(q.claim,
                          [status |-> "REPORTED", lst |-> l, loss |-> None, review |-> None,
                           decision |-> None, evidence |-> FALSE])
               /\ UNCHANGED <<promise, payouts, audit>>
  BY <1>1, ArriveBegins DEF Arrived
<1>3. Carries(q)
  BY <1>2 DEF Carries
<1>4. CASE UNCHANGED claim
  BY <1>2, <1>3, <1>4, CoverKept
<1>5. CASE Exists(q.claim) /\ Created(q.claim, [claim[q.claim] EXCEPT !.evidence = TRUE])
  <2>1. PICK row : row = [claim[q.claim] EXCEPT !.evidence = TRUE]
    OBVIOUS
  <2>2. /\ row \in ClaimRow /\ row.lst = claim[q.claim].lst /\ row.loss = claim[q.claim].loss
    BY <1>1, <1>2, <1>5, <2>1, RowOf, EvidenceRow
  <2>3. row.loss # None => row.loss <= Capacity[row.lst]
    BY <1>2, <1>5, <2>2 DEF CoverInv, LossWithinCapacity
  <2>4. QED
    BY <1>2, <1>3, <1>5, <2>1, <2>2, <2>3, CoverKept
<1>6. ASSUME NEW l \in Listing, ~ Exists(q.claim), Created(q.claim,
                          [status |-> "REPORTED", lst |-> l, loss |-> None, review |-> None,
                           decision |-> None, evidence |-> FALSE])
      PROVE  CoverInv'
  <2>1. PICK row : row = [status |-> "REPORTED", lst |-> l, loss |-> None, review |-> None,
                          decision |-> None, evidence |-> FALSE]
    OBVIOUS
  <2>2. row \in ClaimRow /\ row.loss = None
    BY <2>1, ReportedRow
  <2>3. QED
    BY <1>2, <1>3, <1>6, <2>1, <2>2, CoverKept
<1>7. QED
  BY <1>2, <1>4, <1>5, <1>6

(* The coverage test compares with a sum of amounts, which is not negative. *)
LEMMA CoveredFits ==
  ASSUME CoverInv, NEW l \in Listing, NEW loss \in Nat, NEW status, Covered(status, l, loss)
  PROVE  loss <= Capacity[l]
<1> DEFINE A == ApprovedOn(l)
           f == [c \in A |-> IF claim[c].loss = None THEN 0 ELSE claim[c].loss]
<1>1. IsFiniteSet(A)
  <2>1. A \subseteq {c \in Claim : Exists(c)}
    BY DEF ApprovedOn
  <2>2. QED
    BY <2>1, FS_Subset DEF CoverInv
<1>2. \A c \in A : f[c] \in Nat
  <2>1. \A c \in A : claim[c] \in ClaimRow
    BY RowOf DEF ApprovedOn, CoverInv, IInv
  <2>2. QED
    BY <2>1 DEF ClaimRow
<1>3. TotalApprovedLoss(l) = SumOver(f, A)
  BY DEF TotalApprovedLoss
<1> HIDE DEF f, A
<1>4. TotalApprovedLoss(l) \in Nat
  BY <1>1, <1>2, <1>3, SumNat
<1>5. Capacity[l] \in Nat
  BY CommitmentsAssumption
<1>6. QED
  BY <1>4, <1>5 DEF Covered

LEMMA CheckCovered ==
  ASSUME CoverInv, IInv', NEW r \in Request,
         AdvanceSyndication(r) \/ LossSyndication(r) \/ LossCoverage(r) \/ Crash(r)
  PROVE  CoverInv'
<1>1. TypeOK /\ RequestOK(req[r]) /\ UNCHANGED <<claim, payouts>>
  BY CheckDoes DEF CoverInv, IInv, TypeOK
<1>2. Carries(Idle)
  BY DEF Carries, Idle
<1>3. CASE Become(r, Idle)
  BY <1>1, <1>2, <1>3, CoverKept
<1>4. ASSUME NEW q, Become(r, q), q.pc \notin {"loss.set", "payouts.list", "payouts.record"}
      PROVE  CoverInv'
  BY <1>1, <1>4, CoverKept DEF Carries
<1>5. CASE AdvanceSyndication(r)
  <2>1. PICK q : q = [req[r] EXCEPT !.pc = "advance.set"]
    OBVIOUS
  <2>2. q.pc = "advance.set"
    BY <1>1, <2>1 DEF RequestOK, RequestState
  <2>3. QED
    BY <1>3, <1>4, <1>5, <2>1, <2>2 DEF AdvanceSyndication, Require, Goto, Finish
<1>6. CASE LossSyndication(r)
  <2>1. PICK q : q = [req[r] EXCEPT !.pc = "loss.coverage", !.to = synd[req[r].lst]]
    OBVIOUS
  <2>2. q.pc = "loss.coverage"
    BY <1>1, <2>1 DEF RequestOK, RequestState
  <2>3. QED
    BY <1>4, <1>6, <2>1, <2>2 DEF LossSyndication
<1>7. CASE LossCoverage(r)
  <2>1. PICK q : q = [req[r] EXCEPT !.pc = "loss.set"]
    OBVIOUS
  <2>2. q.lst = req[r].lst /\ q.loss = req[r].loss /\ q.lst \in Listing /\ q.loss \in Nat
    BY <1>1, <1>7, <2>1 DEF RequestOK, RequestState, LossCoverage, At
  <2>3. CASE Covered(req[r].to, req[r].lst, req[r].loss)
    <3>1. Carries(q)
      BY <2>2, <2>3, CoveredFits DEF Carries
    <3>2. Become(r, q)
      BY <1>7, <2>1, <2>3 DEF LossCoverage, Require, Goto
    <3>3. QED
      BY <1>1, <3>1, <3>2, CoverKept
  <2>4. CASE ~ Covered(req[r].to, req[r].lst, req[r].loss)
    BY <1>3, <1>7, <2>4 DEF LossCoverage, Require, Finish
  <2>5. QED
    BY <2>3, <2>4
<1>8. CASE Crash(r)
  BY <1>3, <1>8 DEF Crash, Finish
<1>9. QED
  BY <1>5, <1>6, <1>7, <1>8

LEMMA StatusCovered ==
  ASSUME CoverInv, IInv', NEW r \in Request, AdvanceSet(r) \/ SettleSet(r)
  PROVE  CoverInv'
<1>1. TypeOK /\ RequestOK(req[r]) /\ Knows(req[r])
  BY DEF CoverInv, IInv, TypeOK, HandlersKnow
<1>2. PICK status \in ClaimStatus :
        /\ req[r].pc \in {"advance.set", "settle.set"} /\ req[r].claim \in Claim
        /\ Created(req[r].claim, [claim[req[r].claim] EXCEPT !.status = status])
        /\ Moves(r, [req[r] EXCEPT !.pc = "audit"])
        /\ UNCHANGED <<promise, payouts, audit>>
  BY <1>1, AdvanceSetDoes, SettleSetDoes DEF ClaimStatus
<1>3. PICK c \in Claim : c = req[r].claim
  BY <1>2
<1>4. Exists(c) /\ claim[c] \in ClaimRow
  BY <1>1, <1>2, <1>3, RowOf DEF Knows
<1>5. PICK row \in ClaimRow : Created(c, row) /\ row.lst = claim[c].lst /\ row.loss = claim[c].loss
  BY <1>2, <1>3, <1>4, StatusRow
<1>6. row.loss # None => row.loss <= Capacity[row.lst]
  BY <1>4, <1>5 DEF CoverInv, LossWithinCapacity
<1>7. PICK q : q = [req[r] EXCEPT !.pc = "audit"]
  OBVIOUS
<1>8. Carries(q) /\ Become(r, q)
  BY <1>1, <1>2, <1>7 DEF Carries, Moves, RequestOK, RequestState
<1>9. QED
  BY <1>2, <1>5, <1>6, <1>8, CoverKept

LEMMA LossSetCovered ==
  ASSUME CoverInv, IInv', NEW r \in Request, LossSet(r)
  PROVE  CoverInv'
<1>1. TypeOK /\ RequestOK(req[r]) /\ Knows(req[r])
  BY DEF CoverInv, IInv, TypeOK, HandlersKnow
<1>2. PICK review \in Reviews : review = ReviewOf(req[r].loss)
  BY ReviewKind
<1>3. PICK c \in Claim, loss \in Nat \ {0} : c = req[r].claim /\ loss = req[r].loss
  BY <1>1, LossSetDoes
<1>4. PICK pc \in {"payouts.list", "audit"} :
        pc = IF review = "AUTO" THEN "payouts.list" ELSE "audit"
  OBVIOUS
<1>5. PICK status \in ClaimStatus :
        status = IF review = "AUTO" THEN "APPROVED" ELSE "AWAITING_APPROVAL"
  BY DEF ClaimStatus
<1>6. /\ req[r].pc = "loss.set" /\ req[r].lst \in Listing
      /\ Created(c, [claim[c] EXCEPT !.loss = loss, !.review = review, !.status = status])
      /\ Moves(r, [req[r] EXCEPT !.then = "loss", !.pc = pc])
      /\ UNCHANGED <<promise, payouts, audit>>
  BY <1>1, <1>2, <1>3, <1>4, <1>5, LossSetDoes
<1>7. Exists(c) /\ claim[c] \in ClaimRow /\ req[r].lst = claim[c].lst
  BY <1>1, <1>3, <1>6, RowOf DEF Knows
<1>8. loss <= Capacity[claim[c].lst]
  BY <1>3, <1>6, <1>7 DEF CoverInv, Carries
<1>9. PICK row : row = [claim[c] EXCEPT !.loss = loss, !.review = review, !.status = status]
  OBVIOUS
<1>10. row \in ClaimRow /\ row.lst = claim[c].lst /\ row.loss = loss
  BY <1>2, <1>3, <1>5, <1>7, <1>9 DEF ClaimRow
<1>11. PICK q : q = [req[r] EXCEPT !.then = "loss", !.pc = pc]
  OBVIOUS
<1>12. q.loss = loss /\ q.lst = claim[c].lst
  BY <1>1, <1>3, <1>7, <1>11 DEF RequestOK, RequestState
<1>13. Carries(q) /\ Become(r, q)
  BY <1>6, <1>8, <1>11, <1>12 DEF Carries, Moves
<1>14. QED
  BY <1>6, <1>8, <1>9, <1>10, <1>13, CoverKept

LEMMA DecideSetCovered ==
  ASSUME CoverInv, IInv', NEW r \in Request, DecideSet(r)
  PROVE  CoverInv'
<1>1. TypeOK /\ RequestOK(req[r]) /\ Knows(req[r]) /\ req[r].pc = "decide.set"
  BY DEF CoverInv, IInv, TypeOK, HandlersKnow, DecideSet, At
<1>2. PICK c \in Claim : c = req[r].claim
  BY <1>1 DEF RequestOK
<1>3. Exists(c) /\ claim[c] \in ClaimRow /\ req[r].lst = claim[c].lst
  BY <1>1, <1>2, RowOf DEF Knows
<1>4. PICK loss : loss = claim[c].loss
  OBVIOUS
<1>5. /\ req[r].to \in Decisions
      /\ Created(c, [claim[c] EXCEPT !.decision = req[r].to, !.status = req[r].to])
      /\ \/ Moves(r, [req[r] EXCEPT !.pc = "audit", !.then = "decide"])
         \/ Moves(r, Idle)
         \/ /\ loss # None
            /\ Moves(r, [req[r] EXCEPT !.pc = "payouts.list", !.then = "decide", !.loss = loss])
      /\ UNCHANGED <<promise, payouts, audit>>
  BY <1>1, <1>2, <1>3, <1>4, DecideSetDoes
<1>6. loss # None => loss <= Capacity[claim[c].lst]
  BY <1>3, <1>4 DEF CoverInv, LossWithinCapacity
<1>7. PICK row \in ClaimRow : Created(c, row) /\ row.lst = claim[c].lst /\ row.loss = loss
  <2>1. PICK row : row = [claim[c] EXCEPT !.decision = req[r].to, !.status = req[r].to]
    OBVIOUS
  <2>2. row \in ClaimRow /\ row.lst = claim[c].lst /\ row.loss = claim[c].loss
    BY <1>3, <1>5, <2>1 DEF ClaimRow, Decisions, ClaimStatus
  <2>3. QED
    BY <1>4, <1>5, <2>1, <2>2
<1>8. PICK q : Become(r, q) /\ Carries(q)
  <2>1. CASE Moves(r, [req[r] EXCEPT !.pc = "audit", !.then = "decide"])
    <3>1. PICK q : q = [req[r] EXCEPT !.pc = "audit", !.then = "decide"]
      OBVIOUS
    <3>2. q.pc = "audit"
      BY <1>1, <3>1 DEF RequestOK, RequestState
    <3>3. QED
      BY <2>1, <3>1, <3>2 DEF Moves, Carries
  <2>2. CASE Moves(r, Idle)
    BY <2>2 DEF Moves, Carries, Idle
  <2>3. CASE /\ loss # None
             /\ Moves(r, [req[r] EXCEPT !.pc = "payouts.list", !.then = "decide", !.loss = loss])
    <3>1. PICK q : q = [req[r] EXCEPT !.pc = "payouts.list", !.then = "decide", !.loss = loss]
      OBVIOUS
    <3>2. q.loss = loss /\ q.lst = claim[c].lst
      BY <1>1, <1>3, <3>1 DEF RequestOK, RequestState
    <3>3. QED
      BY <1>6, <2>3, <3>1, <3>2 DEF Moves, Carries
  <2>4. QED
    BY <1>5, <2>1, <2>2, <2>3
<1>9. QED
  BY <1>5, <1>6, <1>7, <1>8, CoverKept

LEMMA PayoutsListCovered ==
  ASSUME CoverInv, IInv', NEW r \in Request, PayoutsList(r)
  PROVE  CoverInv'
<1>1. TypeOK /\ RequestOK(req[r])
  BY DEF CoverInv, IInv, TypeOK
<1>2. /\ req[r].pc = "payouts.list"
      /\ \/ Moves(r, Idle)
         \/ Moves(r, [req[r] EXCEPT !.pc = "payouts.record", !.rows = holding[req[r].lst]])
      /\ UNCHANGED <<claim, payouts>>
  BY <1>1, PayoutsListDoes
<1>3. Carries(Idle)
  BY DEF Carries, Idle
<1>4. PICK q : q = [req[r] EXCEPT !.pc = "payouts.record", !.rows = holding[req[r].lst]]
  OBVIOUS
<1>5. q.loss = req[r].loss /\ q.lst = req[r].lst
  BY <1>1, <1>4 DEF RequestOK, RequestState
<1>6. Carries(q)
  BY <1>2, <1>5 DEF CoverInv, Carries
<1>7. QED
  BY <1>2, <1>3, <1>4, <1>6, CoverKept DEF Moves

(* What is paid at once is the loss that was covered. *)
LEMMA PayoutsRecordCovered ==
  ASSUME CoverInv, IInv', NEW r \in Request, PayoutsRecord(r)
  PROVE  CoverInv'
<1>0. TypeOK
  BY DEF CoverInv, IInv
<1>1. TypeOK /\ RequestOK(req[r]) /\ Knows(req[r]) /\ IInv
  BY DEF CoverInv, IInv, TypeOK, HandlersKnow
<1>2. PICK c \in Claim, loss \in Nat \ {0}, rows \in [Provider -> Shares \cup {None}] :
        c = req[r].claim /\ loss = req[r].loss /\ rows = req[r].rows
  BY <1>1, PayoutsRecordDoes
<1>3. /\ req[r].pc = "payouts.record"
      /\ \/ /\ Payable(c, rows)
            /\ \E paid \in ClaimPayouts(loss, rows) :
                 payouts' = [payouts EXCEPT ![c] = [p \in Provider |->
                               IF paid[p] = None THEN payouts[c][p] ELSE paid[p]]]
            /\ Moves(r, [req[r] EXCEPT !.pc = "payouts.audit"])
         \/ Moves(r, Idle) /\ UNCHANGED payouts
      /\ UNCHANGED <<promise, claim, audit>>
  BY <1>0, <1>2, PayoutsRecordDoes
<1>4. CASE Moves(r, Idle) /\ UNCHANGED payouts
  <2>1. Carries(Idle)
    BY DEF Carries, Idle
  <2>2. QED
    BY <1>3, <1>4, <2>1, CoverKept DEF Moves
<1>5. CASE /\ Payable(c, rows)
           /\ \E paid \in ClaimPayouts(loss, rows) :
                payouts' = [payouts EXCEPT ![c] = [p \in Provider |->
                              IF paid[p] = None THEN payouts[c][p] ELSE paid[p]]]
           /\ Moves(r, [req[r] EXCEPT !.pc = "payouts.audit"])
  <2>1. ~ Paid(c) /\ payouts[c] = Nobody
    BY <1>1, <1>2, <1>3, <1>5, SecondRefused
  <2>2. PICK paid \in ClaimPayouts(loss, rows) :
          payouts' = [payouts EXCEPT ![c] = [p \in Provider |->
                        IF paid[p] = None THEN payouts[c][p] ELSE paid[p]]]
    BY <1>5
  <2>3. /\ paid \in [Provider -> Nat \cup {None}]
        /\ SumOver([p \in Having(paid) |-> paid[p]], Having(paid)) = loss
    BY ClaimPayoutsExact
  <2>4. [p \in Provider |-> IF paid[p] = None THEN payouts[c][p] ELSE paid[p]] = paid
    BY <2>1, <2>3 DEF Nobody
  <2>5. payouts'[c] = paid /\ \A d \in Claim : d # c => payouts'[d] = payouts[d]
    BY <1>1, <2>2, <2>4 DEF TypeOK
  <2>6. PaidTotal(c)' = loss
    BY <2>3, <2>5 DEF PaidTotal
  <2>7. loss <= Capacity[claim[c].lst] /\ claim[c].lst \in Listing
    <3>1. req[r].lst = claim[c].lst /\ Exists(c)
      BY <1>1, <1>2, <1>3 DEF Knows
    <3>2. claim[c].lst \in Listing
      BY <1>1, <3>1, RowOf DEF ClaimRow
    <3>3. QED
      BY <1>2, <1>3, <3>1, <3>2 DEF CoverInv, Carries
  <2>8. \A d \in Claim : d # c => (Paid(d)' <=> Paid(d)) /\ PaidTotal(d)' = PaidTotal(d)
    BY <2>5 DEF Paid, PaidTotal
  <2>9. PaidWithinCapacity'
    <3>1. ASSUME NEW d \in Claim, Paid(d)' PROVE PaidTotal(d)' \in 0 .. Capacity[claim[d].lst]
      <4>1. CASE d = c
        <5>1. Capacity[claim[c].lst] \in Nat
          BY <2>7, CommitmentsAssumption
        <5>2. QED
          BY <2>6, <2>7, <4>1, <5>1
      <4>2. CASE d # c
        BY <2>8, <3>1, <4>2 DEF CoverInv, PaidWithinCapacity
      <4>3. QED
        BY <4>1, <4>2
    <3>2. QED
      BY <1>3, <3>1 DEF PaidWithinCapacity
  <2>10. PICK q : q = [req[r] EXCEPT !.pc = "payouts.audit"]
    OBVIOUS
  <2>11. q.pc = "payouts.audit"
    BY <1>1, <2>10 DEF RequestOK, RequestState
  <2>12. \A s \in Request : Carries(req'[s])
    BY <1>1, <1>5, <2>10, <2>11 DEF CoverInv, Carries, Moves, Become, TypeOK
  <2>13. LossWithinCapacity' /\ IsFiniteSet({d \in Claim : Exists(d)'})
    BY <1>3 DEF CoverInv, LossWithinCapacity, Exists
  <2>14. QED
    BY <2>9, <2>12, <2>13 DEF CoverInv, Carries
<1>6. QED
  BY <1>3, <1>4, <1>5

LEMMA AuditCovered ==
  ASSUME CoverInv, IInv', NEW r \in Request, PayoutsAudit(r) \/ Record(r)
  PROVE  CoverInv'
<1>1. TypeOK /\ RequestOK(req[r])
  BY DEF CoverInv, IInv, TypeOK
<1>2. /\ UNCHANGED <<claim, payouts>>
      /\ Moves(r, [req[r] EXCEPT !.pc = "audit"]) \/ Moves(r, Idle)
  BY <1>1, AuditDoes
<1>3. Carries(Idle) /\ Carries([req[r] EXCEPT !.pc = "audit"])
  BY <1>1 DEF Carries, Idle, RequestOK, RequestState
<1>4. QED
  BY <1>2, <1>3, CoverKept DEF Moves

LEMMA CoverNext == CoverInv /\ [Next]_vars => CoverInv'
<1> SUFFICES ASSUME CoverInv, [Next]_vars PROVE CoverInv'
  OBVIOUS
<1>0. IInv'
  BY NextInv DEF CoverInv
<1>1. CASE UNCHANGED <<claim, payouts, req>>
  BY <1>0, <1>1 DEF CoverInv, LossWithinCapacity, PaidWithinCapacity, Paid, PaidTotal, Exists, Carries
<1>2. ASSUME NEW r \in Request, Step(r)
      PROVE  CoverInv'
  BY <1>0, <1>2, CheckCovered, StatusCovered, LossSetCovered, DecideSetCovered, PayoutsListCovered,
     PayoutsRecordCovered, AuditCovered DEF Step
<1>3. ASSUME NEW r \in Request, Arrive(r) \/ Crash(r)
      PROVE  CoverInv'
  BY <1>0, <1>3, ArriveCovered, CheckCovered
<1>4. QED
  BY <1>1, <1>2, <1>3 DEF Next, ClaimsNext, SyndicationNext, vars

LEMMA CoverInit == Init => CoverInv
<1> SUFFICES ASSUME Init PROVE CoverInv
  OBVIOUS
<1>1. \A c \in Claim : ~ Exists(c) /\ ~ Paid(c)
  BY DEF Init, Exists, Paid, Having, Nobody
<1>2. {c \in Claim : Exists(c)} = {}
  BY <1>1
<1>3. IsFiniteSet({c \in Claim : Exists(c)})
  BY <1>2, FS_EmptySet
<1>4. \A r \in Request : Carries(req[r])
  BY DEF Init, Carries, Idle
<1>5. QED
  BY <1>1, <1>3, <1>4, InitInv DEF CoverInv, LossWithinCapacity, PaidWithinCapacity

(***************************************************************************)
(* A loss stands only within the capacity of a BOUND syndication, and no   *)
(* claim is paid more than that: the sum that the coverage test reads is   *)
(* stale by the time the loss is set, but never negative.                  *)
(***************************************************************************)
THEOREM LossesCovered == Spec => []LossIsCovered
<1>1. CoverInv => LossIsCovered
  <2> SUFFICES ASSUME CoverInv, NEW c \in Claim, Exists(c)
               PROVE  /\ claim[c].loss # None => /\ synd[claim[c].lst] = "BOUND"
                                                 /\ claim[c].loss <= Capacity[claim[c].lst]
                      /\ PaidTotal(c) <= Capacity[claim[c].lst]
    BY DEF LossIsCovered
  <2>1. claim[c].lst \in Listing
    BY RowOf DEF ClaimRow, CoverInv, IInv
  <2>2. Capacity[claim[c].lst] \in Nat
    BY <2>1, CommitmentsAssumption
  <2>3. PaidTotal(c) <= Capacity[claim[c].lst]
    <3>1. CASE Paid(c)
      BY <2>2, <3>1 DEF CoverInv, PaidWithinCapacity
    <3>2. CASE ~ Paid(c)
      <4>1. Having(payouts[c]) = {}
        BY <3>2 DEF Paid
      <4>2. PaidTotal(c) = 0
        BY <4>1, SumEmpty DEF PaidTotal
      <4>3. QED
        BY <2>2, <4>2
    <3>3. QED
      BY <3>1, <3>2
  <2>4. QED
    BY <2>3 DEF CoverInv, IInv, Stored, LossBehindBound, LossWithinCapacity
<1>2. QED
  BY <1>1, CoverInit, CoverNext, PTL DEF Spec

-----------------------------------------------------------------------------
(* One request at a time, beside the repository in memory.  Whoever takes  *)
(* a step is the only one on its way, so that the status a handler has     *)
(* tested is still the status when it writes.                              *)

Pairs(paid) == {<<p, paid[p]>> : p \in Having(paid)}
Held == [claims |-> claim, payouts |-> [c \in Claim |-> Pairs(payouts[c])]]

RowSound(row) ==
  /\ row.decision = "REJECTED" => row.status = "REJECTED"
  /\ "APPROVED" \notin Targets /\ row.status \in {"APPROVED", "SETTLED"} =>
       row.decision = "APPROVED" \/ (row.loss # None /\ row.loss <= AutoCeiling)

PaidSound(c) ==
  Paid(c) => PaidTotal(c) = claim[c].loss /\ claim[c].status \in {"APPROVED", "SETTLED"}

KnowsStatus(q) ==
  /\ q.pc \in {"advance.syndication", "advance.set"} =>
       q.to \in Transitions[claim[q.claim].status] /\ q.to \in Targets
  /\ q.pc \in {"loss.syndication", "loss.coverage", "loss.set"} =>
       claim[q.claim].status = "COVERAGE_CONFIRMED"
  /\ q.pc = "loss.set" => q.loss <= Capacity[q.lst] - TotalApprovedLoss(q.lst)
  /\ q.pc = "decide.set" => claim[q.claim].status = "AWAITING_APPROVAL"
  /\ q.pc = "settle.set" => claim[q.claim].status = "APPROVED"
  /\ q.pc \in {"payouts.list", "payouts.record"} =>
       ~ Paid(q.claim) /\ claim[q.claim].loss = q.loss /\ claim[q.claim].status = "APPROVED"

SerialInv ==
  /\ CoverInv
  /\ mem = Held
  /\ \A c \in Claim : Exists(c) => RowSound(claim[c]) /\ PaidSound(c)
  /\ \A r \in Request : KnowsStatus(req[r])

Alone(r) == \A s \in Request \ {r} : At(s, "idle")

(* The repository in memory has made the write to the claims as well. *)
MemFollows == mem' = [claims |-> claim', payouts |-> mem.payouts]

LEMMA TransitionsFrom ==
  ASSUME NEW from \in ClaimStatus, NEW to \in Transitions[from]
  PROVE  /\ to \in ClaimStatus /\ from # "REJECTED"
         /\ from # "SETTLED"
         /\ from = "APPROVED" <=> to = "SETTLED"
BY DEF Transitions, ClaimStatus

(* A step that writes at most one claim, and makes no payout. *)
LEMMA SerialKept ==
  ASSUME SerialInv, CoverInv', NEW r \in Request, Alone(r), NEW q, Become(r, q), KnowsStatus(q)',
         UNCHANGED payouts, MemFollows,
         \/ UNCHANGED claim
         \/ \E c \in Claim, row \in ClaimRow :
              /\ Created(c, row) /\ RowSound(row)
              /\ Paid(c) => row.loss = claim[c].loss /\ row.status \in {"APPROVED", "SETTLED"}
  PROVE  SerialInv'
<1>1. mem' = Held'
  BY DEF SerialInv, Held, MemFollows
<1>2. \A s \in Request : KnowsStatus(req[s])'
  <2>1. \A s \in Request : s # r => req'[s].pc = "idle"
    BY DEF SerialInv, CoverInv, IInv, TypeOK, Become, Alone, At
  <2>2. req'[r] = q
    BY DEF SerialInv, CoverInv, IInv, TypeOK, Become
  <2>3. \A s \in Request : s # r => KnowsStatus(req[s])'
    BY <2>1 DEF KnowsStatus
  <2>4. KnowsStatus(req[r])'
    BY <2>2
  <2>5. QED
    BY <2>3, <2>4
<1>3. CASE UNCHANGED claim
  <2>1. \A c \in Claim : Exists(c)' => RowSound(claim[c])' /\ PaidSound(c)'
    BY <1>3 DEF SerialInv, Exists, RowSound, PaidSound, Paid, PaidTotal
  <2>2. QED
    BY <1>1, <1>2, <2>1 DEF SerialInv
<1>4. ASSUME NEW c \in Claim, NEW row \in ClaimRow, Created(c, row), RowSound(row),
             Paid(c) => row.loss = claim[c].loss /\ row.status \in {"APPROVED", "SETTLED"}
      PROVE  SerialInv'
  <2>1. claim'[c] = row /\ \A d \in Claim : d # c => claim'[d] = claim[d]
    BY <1>4, Written DEF SerialInv, CoverInv, IInv
  <2>2. \A d \in Claim : (Paid(d)' <=> Paid(d)) /\ PaidTotal(d)' = PaidTotal(d)
    BY DEF Paid, PaidTotal
  <2>3. Paid(c) => Exists(c)
    BY DEF SerialInv, CoverInv, IInv, Stored, Recorded
  <2>4. RowSound(claim[c])' /\ PaidSound(c)'
    <3>1. PaidSound(c)'
      BY <1>4, <2>1, <2>2, <2>3 DEF SerialInv, PaidSound
    <3>2. RowSound(claim[c])'
      BY <1>4, <2>1 DEF RowSound
    <3>3. QED
      BY <3>1, <3>2
  <2>5. ASSUME NEW d \in Claim, d # c, Exists(d)' PROVE RowSound(claim[d])' /\ PaidSound(d)'
    <3>1. Exists(d) /\ claim'[d] = claim[d]
      BY <2>1, <2>5 DEF Exists
    <3>2. RowSound(claim[d]) /\ PaidSound(d)
      BY <3>1 DEF SerialInv
    <3>3. QED
      BY <2>2, <3>1, <3>2 DEF RowSound, PaidSound
  <2>6. QED
    BY <1>1, <1>2, <2>4, <2>5 DEF SerialInv
<1>5. QED
  BY <1>3, <1>4

LEMMA ArriveSerial ==
  ASSUME SerialInv, CoverInv', NEW r \in Request, Alone(r), Arrive(r), MemFollows
  PROVE  SerialInv'
<1>1. TypeOK /\ UNCHANGED payouts
  <2>1. Arrived(r)
    BY ArriveBegins DEF SerialInv, CoverInv, IInv
  <2>2. QED
    BY <2>1 DEF Arrived, SerialInv, CoverInv, IInv
<1>2. ASSUME NEW c \in Claim, NEW l \in Listing, Report(r, c, l)
      PROVE  SerialInv'
  <2>1. PICK q : q = [Idle EXCEPT !.pc = "audit", !.claim = c, !.then = "process"]
    OBVIOUS
  <2>2. q.pc = "audit"
    BY <2>1 DEF Idle
  <2>3. PICK row : row = [status |-> "REPORTED", lst |-> l, loss |-> None, review |-> None,
                          decision |-> None, evidence |-> FALSE]
    OBVIOUS
  <2>4. row \in ClaimRow /\ RowSound(row)
    <3>1. None # "REJECTED"
      BY ClaimRowAssumption DEF Decisions
    <3>2. QED
      BY <2>3, <3>1, ReportedRow DEF RowSound
  <2>5. Created(c, row) /\ Become(r, q) /\ ~ Exists(c)
    BY <1>2, <2>1, <2>3 DEF Report, Created, Begin
  <2>6. ~ Paid(c)
    BY <2>5 DEF SerialInv, CoverInv, IInv, Stored, Recorded
  <2>7. KnowsStatus(q)'
    BY <2>2 DEF KnowsStatus
  <2>8. QED
    BY <1>1, <2>4, <2>5, <2>6, <2>7, SerialKept
<1>3. ASSUME NEW c \in Claim, AddEvidence(r, c)
      PROVE  SerialInv'
  <2>1. PICK q : q = [Idle EXCEPT !.pc = "audit", !.claim = c, !.then = "process"]
    OBVIOUS
  <2>2. KnowsStatus(q)'
    BY <2>1 DEF Idle, KnowsStatus
  <2>3. PICK row : row = [claim[c] EXCEPT !.evidence = TRUE]
    OBVIOUS
  <2>4. Exists(c) /\ claim[c] \in ClaimRow
    BY <1>1, <1>3, RowOf DEF AddEvidence
  <2>5. /\ row \in ClaimRow /\ row.status = claim[c].status
        /\ row.loss = claim[c].loss /\ row.decision = claim[c].decision
    BY <2>3, <2>4 DEF ClaimRow
  <2>6. RowSound(claim[c]) /\ PaidSound(c)
    BY <2>4 DEF SerialInv
  <2>7. RowSound(row) /\ (Paid(c) => row.loss = claim[c].loss /\ row.status \in {"APPROVED", "SETTLED"})
    BY <2>5, <2>6 DEF RowSound, PaidSound
  <2>8. Created(c, row) /\ Become(r, q)
    BY <1>3, <2>1, <2>3 DEF AddEvidence, Created, Begin
  <2>9. QED
    BY <1>1, <2>2, <2>5, <2>7, <2>8, SerialKept
<1>4. ASSUME NEW c \in Claim, NEW to \in Targets, AdvanceStart(r, c, to)
      PROVE  SerialInv'
  <2>1. PICK q : q = [Idle EXCEPT !.claim = c, !.to = to, !.lst = claim[c].lst, !.then = "process",
          !.pc = IF to = "COVERAGE_CONFIRMED" THEN "advance.syndication" ELSE "advance.set"]
    OBVIOUS
  <2>2. q.claim = c /\ q.to = to /\ q.pc \in {"advance.syndication", "advance.set"}
    BY <2>1 DEF Idle
  <2>3. to \in Transitions[claim[c].status] /\ Become(r, q) /\ UNCHANGED claim
    BY <1>4, <2>1 DEF AdvanceStart, Begin
  <2>4. KnowsStatus(q)'
    BY <2>2, <2>3 DEF KnowsStatus
  <2>5. QED
    BY <1>1, <2>3, <2>4, SerialKept
<1>5. ASSUME NEW c \in Claim, NEW loss \in Losses, LossStart(r, c, loss)
      PROVE  SerialInv'
  <2>1. PICK q : q = [Idle EXCEPT !.pc = "loss.syndication", !.claim = c,
                        !.lst = claim[c].lst, !.loss = loss]
    OBVIOUS
  <2>2. q.claim = c /\ q.pc = "loss.syndication"
    BY <2>1 DEF Idle
  <2>3. claim[c].status = "COVERAGE_CONFIRMED" /\ Become(r, q) /\ UNCHANGED claim
    BY <1>5, <2>1 DEF LossStart, Begin
  <2>4. KnowsStatus(q)'
    BY <2>2, <2>3 DEF KnowsStatus
  <2>5. QED
    BY <1>1, <2>3, <2>4, SerialKept
<1>6. ASSUME NEW c \in Claim, NEW d \in Decisions, DecideStart(r, c, d)
      PROVE  SerialInv'
  <2>1. PICK q : q = [Idle EXCEPT !.pc = "decide.set", !.claim = c, !.lst = claim[c].lst, !.to = d]
    OBVIOUS
  <2>2. q.claim = c /\ q.pc = "decide.set"
    BY <2>1 DEF Idle
  <2>3. claim[c].status = "AWAITING_APPROVAL" /\ Become(r, q) /\ UNCHANGED claim
    BY <1>6, <2>1 DEF DecideStart, Begin
  <2>4. KnowsStatus(q)'
    BY <2>2, <2>3 DEF KnowsStatus
  <2>5. QED
    BY <1>1, <2>3, <2>4, SerialKept
<1>7. ASSUME NEW c \in Claim, SettleStart(r, c)
      PROVE  SerialInv'
  <2>1. PICK q : q = [Idle EXCEPT !.pc = "settle.set", !.claim = c, !.then = "process"]
    OBVIOUS
  <2>2. q.claim = c /\ q.pc = "settle.set"
    BY <2>1 DEF Idle
  <2>3. claim[c].status = "APPROVED" /\ Become(r, q) /\ UNCHANGED claim
    BY <1>7, <2>1 DEF SettleStart, Begin
  <2>4. KnowsStatus(q)'
    BY <2>2, <2>3 DEF KnowsStatus
  <2>5. QED
    BY <1>1, <2>3, <2>4, SerialKept
<1>8. QED
  BY <1>2, <1>3, <1>4, <1>5, <1>6, <1>7 DEF Arrive

LEMMA CheckSerial ==
  ASSUME SerialInv, CoverInv', NEW r \in Request, Alone(r), MemFollows,
         AdvanceSyndication(r) \/ LossSyndication(r) \/ LossCoverage(r) \/ Crash(r)
  PROVE  SerialInv'
<1>1. TypeOK /\ RequestOK(req[r]) /\ KnowsStatus(req[r]) /\ UNCHANGED <<claim, payouts>>
  BY CheckDoes DEF SerialInv, CoverInv, IInv, TypeOK
<1>2. KnowsStatus(Idle)'
  BY DEF KnowsStatus, Idle
<1>3. CASE Become(r, Idle)
  BY <1>1, <1>2, <1>3, SerialKept
<1>4. CASE AdvanceSyndication(r)
  <2>1. PICK q : q = [req[r] EXCEPT !.pc = "advance.set"]
    OBVIOUS
  <2>2. q.pc = "advance.set" /\ q.claim = req[r].claim /\ q.to = req[r].to
    BY <1>1, <2>1 DEF RequestOK, RequestState
  <2>3. req[r].pc = "advance.syndication"
    BY <1>4 DEF AdvanceSyndication, At
  <2>4. KnowsStatus(q)'
    BY <1>1, <2>2, <2>3 DEF KnowsStatus
  <2>5. QED
    BY <1>1, <1>3, <1>4, <2>1, <2>4, SerialKept DEF AdvanceSyndication, Require, Goto, Finish
<1>5. CASE LossSyndication(r)
  <2>1. PICK q : q = [req[r] EXCEPT !.pc = "loss.coverage", !.to = synd[req[r].lst]]
    OBVIOUS
  <2>2. q.pc = "loss.coverage" /\ q.claim = req[r].claim
    BY <1>1, <2>1 DEF RequestOK, RequestState
  <2>3. req[r].pc = "loss.syndication" /\ Become(r, q)
    BY <1>5, <2>1 DEF LossSyndication, At
  <2>4. KnowsStatus(q)'
    BY <1>1, <2>2, <2>3 DEF KnowsStatus
  <2>5. QED
    BY <1>1, <2>3, <2>4, SerialKept
<1>6. CASE LossCoverage(r)
  <2>1. PICK q : q = [req[r] EXCEPT !.pc = "loss.set"]
    OBVIOUS
  <2>2. /\ q.pc = "loss.set" /\ q.claim = req[r].claim
        /\ q.lst = req[r].lst /\ q.loss = req[r].loss
    BY <1>1, <2>1 DEF RequestOK, RequestState
  <2>3. req[r].pc = "loss.coverage"
    BY <1>6 DEF LossCoverage, At
  <2>4. CASE Covered(req[r].to, req[r].lst, req[r].loss)
    <3>1. TotalApprovedLoss(q.lst)' = TotalApprovedLoss(q.lst)
      BY <1>1 DEF TotalApprovedLoss, ApprovedOn, Exists
    <3>2. KnowsStatus(q)'
      BY <1>1, <2>2, <2>3, <2>4, <3>1 DEF KnowsStatus, Covered
    <3>3. Become(r, q)
      BY <1>6, <2>1, <2>4 DEF LossCoverage, Require, Goto
    <3>4. QED
      BY <1>1, <3>2, <3>3, SerialKept
  <2>5. CASE ~ Covered(req[r].to, req[r].lst, req[r].loss)
    BY <1>3, <1>6, <2>5 DEF LossCoverage, Require, Finish
  <2>6. QED
    BY <2>4, <2>5
<1>7. CASE Crash(r)
  BY <1>3, <1>7 DEF Crash, Finish
<1>8. QED
  BY <1>4, <1>5, <1>6, <1>7

LEMMA StatusSerial ==
  ASSUME SerialInv, CoverInv', NEW r \in Request, Alone(r), MemFollows, AdvanceSet(r) \/ SettleSet(r)
  PROVE  SerialInv'
<1>1. TypeOK /\ RequestOK(req[r]) /\ Knows(req[r]) /\ KnowsStatus(req[r])
  BY DEF SerialInv, CoverInv, IInv, TypeOK, HandlersKnow
<1>2. PICK c \in Claim, status \in ClaimStatus :
        /\ c = req[r].claim
        /\ \/ req[r].pc = "advance.set" /\ status = req[r].to
           \/ req[r].pc = "settle.set" /\ status = "SETTLED"
        /\ Created(c, [claim[c] EXCEPT !.status = status])
        /\ Become(r, [req[r] EXCEPT !.pc = "audit"])
        /\ UNCHANGED payouts
  BY <1>1, AdvanceSetDoes, SettleSetDoes DEF ClaimStatus, Moves
<1>3. Exists(c) /\ claim[c] \in ClaimRow
  BY <1>1, <1>2, RowOf DEF Knows
<1>4. /\ claim[c].status # "REJECTED" /\ ("APPROVED" \notin Targets => status # "APPROVED")
      /\ claim[c].status = "APPROVED" <=> status = "SETTLED"
      /\ claim[c].status # "SETTLED"
  <2>1. claim[c].status \in ClaimStatus
    BY <1>3 DEF ClaimRow
  <2>2. CASE req[r].pc = "advance.set" /\ status = req[r].to
    <3>1. status \in Transitions[claim[c].status] /\ status \in Targets
      BY <1>1, <1>2, <2>2 DEF KnowsStatus
    <3>2. QED
      BY <2>1, <3>1, TransitionsFrom
  <2>3. CASE req[r].pc = "settle.set" /\ status = "SETTLED"
    BY <1>1, <1>2, <2>3 DEF KnowsStatus
  <2>4. QED
    BY <1>2, <2>2, <2>3
<1>5. PICK row : row = [claim[c] EXCEPT !.status = status]
  OBVIOUS
<1>6. /\ row \in ClaimRow /\ row.status = status
      /\ row.loss = claim[c].loss /\ row.decision = claim[c].decision
  BY <1>2, <1>3, <1>5 DEF ClaimRow
<1>7. RowSound(claim[c]) /\ PaidSound(c)
  BY <1>3 DEF SerialInv
<1>8. RowSound(row) /\ (Paid(c) => row.loss = claim[c].loss /\ row.status \in {"APPROVED", "SETTLED"})
  BY <1>4, <1>6, <1>7 DEF RowSound, PaidSound
<1>9. PICK q : q = [req[r] EXCEPT !.pc = "audit"]
  OBVIOUS
<1>10. KnowsStatus(q)'
  BY <1>1, <1>9 DEF KnowsStatus, RequestOK, RequestState
<1>11. QED
  BY <1>2, <1>5, <1>6, <1>8, <1>9, <1>10, SerialKept

LEMMA LossSetSerial ==
  ASSUME SerialInv, CoverInv', NEW r \in Request, Alone(r), MemFollows, LossSet(r)
  PROVE  SerialInv'
<1>1. TypeOK /\ RequestOK(req[r]) /\ Knows(req[r]) /\ KnowsStatus(req[r])
  BY DEF SerialInv, CoverInv, IInv, TypeOK, HandlersKnow
<1>2. PICK review \in Reviews : review = ReviewOf(req[r].loss)
  BY ReviewKind
<1>3. PICK c \in Claim, loss \in Nat \ {0} : c = req[r].claim /\ loss = req[r].loss
  BY <1>1, LossSetDoes
<1>4. PICK pc \in {"payouts.list", "audit"} :
        pc = IF review = "AUTO" THEN "payouts.list" ELSE "audit"
  OBVIOUS
<1>5. PICK status \in ClaimStatus :
        status = IF review = "AUTO" THEN "APPROVED" ELSE "AWAITING_APPROVAL"
  BY DEF ClaimStatus
<1>6. /\ req[r].pc = "loss.set"
      /\ Created(c, [claim[c] EXCEPT !.loss = loss, !.review = review, !.status = status])
      /\ Become(r, [req[r] EXCEPT !.then = "loss", !.pc = pc])
      /\ UNCHANGED payouts
  BY <1>1, <1>2, <1>3, <1>4, <1>5, LossSetDoes DEF Moves
<1>7. /\ Exists(c) /\ claim[c] \in ClaimRow
      /\ claim[c].status = "COVERAGE_CONFIRMED"
  BY <1>1, <1>3, <1>6, RowOf DEF Knows, KnowsStatus
<1>8. RowSound(claim[c]) /\ ~ Paid(c)
  BY <1>7 DEF SerialInv, PaidSound
<1>9. PICK row : row = [claim[c] EXCEPT !.loss = loss, !.review = review, !.status = status]
  OBVIOUS
<1>10. /\ row \in ClaimRow /\ row.loss = loss /\ row.status = status
       /\ row.decision = claim[c].decision
  BY <1>2, <1>3, <1>5, <1>7, <1>9 DEF ClaimRow
<1>11. RowSound(row)
  <2>1. row.decision # "REJECTED"
    BY <1>7, <1>8, <1>10 DEF RowSound
  <2>2. review = "AUTO" <=> loss <= AutoCeiling
    BY <1>2, <1>3 DEF ReviewOf
  <2>3. loss # None
    BY <1>3, CommitmentsAssumption
  <2>4. QED
    BY <1>5, <1>10, <2>1, <2>2, <2>3 DEF RowSound
<1>12. PICK q : q = [req[r] EXCEPT !.then = "loss", !.pc = pc]
  OBVIOUS
<1>13. q.pc = pc /\ q.claim = c /\ q.loss = loss
  BY <1>1, <1>3, <1>12 DEF RequestOK, RequestState
<1>14. claim'[c] = row /\ ~ Paid(c)'
  BY <1>1, <1>6, <1>8, <1>9, <1>10, Written DEF Paid
<1>15. KnowsStatus(q)'
  BY <1>4, <1>5, <1>10, <1>13, <1>14 DEF KnowsStatus
<1>16. QED
  BY <1>6, <1>8, <1>9, <1>10, <1>11, <1>12, <1>15, SerialKept

LEMMA DecideSetSerial ==
  ASSUME SerialInv, CoverInv', NEW r \in Request, Alone(r), MemFollows, DecideSet(r)
  PROVE  SerialInv'
<1>1. /\ TypeOK /\ RequestOK(req[r]) /\ Knows(req[r]) /\ KnowsStatus(req[r])
      /\ req[r].pc = "decide.set"
  BY DEF SerialInv, CoverInv, IInv, TypeOK, HandlersKnow, DecideSet, At
<1>2. PICK c \in Claim, to \in Decisions : c = req[r].claim /\ to = req[r].to
  BY <1>1 DEF RequestOK
<1>3. /\ Exists(c) /\ claim[c] \in ClaimRow
      /\ claim[c].status = "AWAITING_APPROVAL"
  BY <1>1, <1>2, RowOf DEF Knows, KnowsStatus
<1>4. RowSound(claim[c]) /\ ~ Paid(c)
  BY <1>3 DEF SerialInv, PaidSound
<1>5. PICK row : row = [claim[c] EXCEPT !.decision = to, !.status = to]
  OBVIOUS
<1>6. /\ row \in ClaimRow /\ row.loss = claim[c].loss
      /\ row.status = to /\ row.decision = to
  BY <1>2, <1>3, <1>5 DEF ClaimRow, Decisions, ClaimStatus
<1>7. Created(c, row) /\ UNCHANGED payouts
  BY <1>2, <1>5 DEF DecideSet, Created
<1>8. RowSound(row)
  BY <1>2, <1>6 DEF RowSound, Decisions
<1>9. claim'[c] = row /\ ~ Paid(c)'
  BY <1>1, <1>4, <1>6, <1>7, Written DEF Paid
<1>10. PICK q : Become(r, q) /\ KnowsStatus(q)'
  <2>1. CASE to = "REJECTED"
    <3>1. PICK q : q = [req[r] EXCEPT !.pc = "audit", !.then = "decide"]
      OBVIOUS
    <3>2. q.pc = "audit"
      BY <1>1, <3>1 DEF RequestOK, RequestState
    <3>3. Become(r, q)
      BY <1>2, <2>1, <3>1 DEF DecideSet
    <3>4. QED
      BY <3>2, <3>3 DEF KnowsStatus
  <2>2. CASE to = "APPROVED" /\ claim[c].loss = None
    <3>1. Become(r, Idle)
      BY <1>2, <2>2 DEF DecideSet, Finish
    <3>2. QED
      BY <3>1 DEF KnowsStatus, Idle
  <2>3. CASE to = "APPROVED" /\ claim[c].loss # None
    <3>1. PICK q : q = [req[r] EXCEPT !.pc = "payouts.list", !.then = "decide", !.loss = claim[c].loss]
      OBVIOUS
    <3>2. q.pc = "payouts.list" /\ q.claim = c /\ q.loss = claim[c].loss
      BY <1>1, <1>2, <3>1 DEF RequestOK, RequestState
    <3>3. Become(r, q)
      BY <1>2, <2>3, <3>1 DEF DecideSet
    <3>4. KnowsStatus(q)'
      BY <1>6, <1>9, <2>3, <3>2 DEF KnowsStatus
    <3>5. QED
      BY <3>3, <3>4
  <2>4. QED
    BY <1>2, <2>1, <2>2, <2>3 DEF Decisions
<1>11. QED
  BY <1>4, <1>6, <1>7, <1>8, <1>10, SerialKept

LEMMA PayoutsListSerial ==
  ASSUME SerialInv, CoverInv', NEW r \in Request, Alone(r), MemFollows, PayoutsList(r)
  PROVE  SerialInv'
<1>1. TypeOK /\ RequestOK(req[r]) /\ KnowsStatus(req[r])
  BY DEF SerialInv, CoverInv, IInv, TypeOK
<1>2. /\ req[r].pc = "payouts.list"
      /\ \/ Become(r, Idle)
         \/ Become(r, [req[r] EXCEPT !.pc = "payouts.record", !.rows = holding[req[r].lst]])
      /\ UNCHANGED <<claim, payouts>>
  BY <1>1, PayoutsListDoes DEF Moves
<1>3. KnowsStatus(Idle)'
  BY DEF KnowsStatus, Idle
<1>4. PICK q : q = [req[r] EXCEPT !.pc = "payouts.record", !.rows = holding[req[r].lst]]
  OBVIOUS
<1>5. q.pc = "payouts.record" /\ q.loss = req[r].loss /\ q.claim = req[r].claim
  BY <1>1, <1>4 DEF RequestOK, RequestState
<1>6. KnowsStatus(q)'
  BY <1>1, <1>2, <1>5 DEF KnowsStatus, Paid
<1>7. QED
  BY <1>2, <1>3, <1>4, <1>6, SerialKept

(* The first payouts of a claim are its loss, and the repository in memory *)
(* keeps the same: when requests come one at a time nothing is refused.    *)
LEMMA PayoutsRecordSerial ==
  ASSUME SerialInv, CoverInv', NEW r \in Request, Alone(r), PayoutsRecord(r),
         \/ UNCHANGED <<payouts, mem>>
         \/ \E paid \in ClaimPayouts(req[r].loss, req[r].rows) :
              /\ MemRecordPayouts(req[r].claim, paid)
              /\ Payable(req[r].claim, req[r].rows) =>
                   \A p \in Having(paid) : payouts'[req[r].claim][p] = paid[p]
  PROVE  SerialInv'
<1>0. TypeOK
  BY DEF SerialInv, CoverInv, IInv
<1>1. TypeOK /\ RequestOK(req[r]) /\ Knows(req[r]) /\ KnowsStatus(req[r]) /\ IInv
  BY DEF SerialInv, CoverInv, IInv, TypeOK, HandlersKnow
<1>2. PICK c \in Claim, loss \in Nat \ {0}, rows \in [Provider -> Shares \cup {None}] :
        c = req[r].claim /\ loss = req[r].loss /\ rows = req[r].rows
  BY <1>0, PayoutsRecordDoes
<1>3. req[r].pc = "payouts.record" /\ UNCHANGED <<promise, claim, audit>>
  BY <1>0, PayoutsRecordDoes
<1>4. /\ ~ Paid(c) /\ claim[c].loss = loss /\ claim[c].status = "APPROVED"
      /\ payouts[c] \in [Provider -> Nat \cup {None}]
  BY <1>1, <1>2, <1>3 DEF KnowsStatus, TypeOK
<1>5. Payable(c, rows)
  BY <1>4 DEF Payable, Paid, Having
<1>6. PICK paid \in ClaimPayouts(loss, rows) :
        payouts' = [payouts EXCEPT ![c] = [p \in Provider |->
                      IF paid[p] = None THEN payouts[c][p] ELSE paid[p]]]
  BY <1>2, <1>5 DEF PayoutsRecord
<1>7. Become(r, [req[r] EXCEPT !.pc = "payouts.audit"])
  BY <1>2, <1>5 DEF PayoutsRecord, Goto
<1>8. payouts[c] = Nobody /\ Having(rows) # {}
  BY <1>1, <1>2, <1>3, <1>5, SecondRefused
<1>9. /\ paid \in [Provider -> Nat \cup {None}] /\ Having(paid) = Having(rows)
      /\ SumOver([p \in Having(paid) |-> paid[p]], Having(paid)) = loss
  BY ClaimPayoutsExact
<1>10. [p \in Provider |-> IF paid[p] = None THEN payouts[c][p] ELSE paid[p]] = paid
  BY <1>8, <1>9 DEF Nobody
<1>11. /\ payouts'[c] = paid /\ payouts' = [payouts EXCEPT ![c] = paid]
       /\ \A d \in Claim : d # c => payouts'[d] = payouts[d]
  BY <1>1, <1>6, <1>10 DEF TypeOK
<1>12. mem' = [mem EXCEPT !.payouts[c] = Pairs(paid)]
  <2>1. payouts' # payouts
    BY <1>4, <1>8, <1>9, <1>11 DEF Paid
  <2>2. PICK stored \in ClaimPayouts(loss, rows) :
          /\ MemRecordPayouts(c, stored)
          /\ \A p \in Having(stored) : payouts'[c][p] = stored[p]
    BY <1>2, <1>5, <2>1
  <2>3. Having(stored) = Having(rows)
    BY ClaimPayoutsExact
  <2>4. \A p \in Having(paid) : paid[p] = stored[p]
    BY <1>9, <1>11, <2>2, <2>3
  <2>5. {<<p, stored[p]>> : p \in Having(stored)} = {<<p, paid[p]>> : p \in Having(paid)}
    BY <1>9, <2>3, <2>4
  <2>6. QED
    BY <2>2, <2>5 DEF MemRecordPayouts, Pairs
<1>13. mem' = Held'
  <2>1. PICK pairs : pairs = Pairs(paid)
    OBVIOUS
  <2>2. mem' = [claims |-> claim, payouts |-> [[d \in Claim |-> Pairs(payouts[d])] EXCEPT ![c] = pairs]]
    BY <1>12, <2>1 DEF SerialInv, Held
  <2>3. [d \in Claim |-> Pairs(payouts'[d])] = [[d \in Claim |-> Pairs(payouts[d])] EXCEPT ![c] = pairs]
    BY <1>11, <2>1
  <2>4. QED
    BY <1>3, <2>2, <2>3 DEF Held, Pairs
<1>14. \A s \in Request : KnowsStatus(req[s])'
  <2>1. \A s \in Request : req'[s].pc \in {"idle", "payouts.audit"}
    BY <1>1, <1>7 DEF TypeOK, Become, Alone, At, RequestOK, RequestState
  <2>2. QED
    BY <2>1 DEF KnowsStatus
<1>15. \A d \in Claim : Exists(d)' => RowSound(claim[d])' /\ PaidSound(d)'
  <2>1. ASSUME NEW d \in Claim, Exists(d)  PROVE RowSound(claim[d])' /\ PaidSound(d)'
    <3>1. RowSound(claim[d]) /\ PaidSound(d)
      BY <2>1 DEF SerialInv
    <3>2. RowSound(claim[d])'
      BY <1>3, <3>1 DEF RowSound
    <3>3. CASE d = c
      <4>1. PaidTotal(c)' = loss
        BY <1>9, <1>11 DEF PaidTotal
      <4>2. QED
        BY <1>3, <1>4, <3>2, <3>3, <4>1 DEF PaidSound
    <3>4. CASE d # c
      BY <1>3, <1>11, <3>1, <3>2, <3>4 DEF PaidSound, Paid, PaidTotal
    <3>5. QED
      BY <3>3, <3>4
  <2>2. QED
    BY <1>3, <2>1 DEF Exists
<1>16. QED
  BY <1>13, <1>14, <1>15 DEF SerialInv

LEMMA AuditSerial ==
  ASSUME SerialInv, CoverInv', NEW r \in Request, Alone(r), MemFollows,
         PayoutsAudit(r) \/ Record(r)
  PROVE  SerialInv'
<1>1. TypeOK /\ RequestOK(req[r])
  BY DEF SerialInv, CoverInv, IInv, TypeOK
<1>2. /\ UNCHANGED <<claim, payouts>>
      /\ Become(r, [req[r] EXCEPT !.pc = "audit"]) \/ Become(r, Idle)
  BY <1>1, AuditDoes DEF Moves
<1>3. PICK q : q = [req[r] EXCEPT !.pc = "audit"]
  OBVIOUS
<1>4. KnowsStatus(q)' /\ KnowsStatus(Idle)'
  BY <1>1, <1>3 DEF KnowsStatus, Idle, RequestOK, RequestState
<1>5. QED
  BY <1>2, <1>3, <1>4, SerialKept

-----------------------------------------------------------------------------
(* A step of MemNext is one of Next, with its write to the repository in   *)
(* memory.                                                                 *)

LEMMA MemStepNext ==
  ASSUME NEW r \in Request, WriteBoth(r) \/ ReadOnly(r)
  PROVE  Arrive(r) \/ Step(r) \/ Crash(r)
BY DEF WriteBoth, ReadOnly, Arrive, Step

LEMMA NextOfMem == [MemNext]_memVars => [Next]_vars
BY MemStepNext DEF MemNext, memVars, vars, Next, ClaimsNext

(* An update of a claim within the record that stands for the memory. *)
LEMMA FieldWritten ==
  ASSUME NEW cl, NEW paid, NEW m, m = [claims |-> cl, payouts |-> paid], NEW c, NEW v
  PROVE  /\ [m EXCEPT !.claims[c] = v] = [claims |-> [cl EXCEPT ![c] = v], payouts |-> paid]
         /\ [m EXCEPT !.claims[c].evidence = v] =
              [claims |-> [cl EXCEPT ![c].evidence = v], payouts |-> paid]
         /\ [m EXCEPT !.claims[c].status = v] =
              [claims |-> [cl EXCEPT ![c].status = v], payouts |-> paid]
         /\ [m EXCEPT !.claims[c].loss = v] =
              [claims |-> [cl EXCEPT ![c].loss = v], payouts |-> paid]
         /\ [m EXCEPT !.claims[c].review = v] =
              [claims |-> [cl EXCEPT ![c].review = v], payouts |-> paid]
         /\ [m EXCEPT !.claims[c].decision = v] =
              [claims |-> [cl EXCEPT ![c].decision = v], payouts |-> paid]
<1>1. m.claims = cl /\ m.payouts = paid
  OBVIOUS
<1>2. [m EXCEPT !.claims[c] = v] = [claims |-> [cl EXCEPT ![c] = v], payouts |-> paid]
  OBVIOUS
<1>3. [m EXCEPT !.claims[c].evidence = v] = [claims |-> [cl EXCEPT ![c].evidence = v], payouts |-> paid]
  OBVIOUS
<1>4. [m EXCEPT !.claims[c].status = v] = [claims |-> [cl EXCEPT ![c].status = v], payouts |-> paid]
  OBVIOUS
<1>5. [m EXCEPT !.claims[c].loss = v] = [claims |-> [cl EXCEPT ![c].loss = v], payouts |-> paid]
  OBVIOUS
<1>6. [m EXCEPT !.claims[c].review = v] = [claims |-> [cl EXCEPT ![c].review = v], payouts |-> paid]
  OBVIOUS
<1>7. [m EXCEPT !.claims[c].decision = v] = [claims |-> [cl EXCEPT ![c].decision = v], payouts |-> paid]
  OBVIOUS
<1>8. QED
  BY <1>2, <1>3, <1>4, <1>5, <1>6, <1>7

LEMMA MemLossWritten ==
  ASSUME mem = Held, NEW c, NEW loss, NEW review, NEW status, MemSetLoss(c, loss, review, status)
  PROVE  mem' = [claims |-> [claim EXCEPT ![c].loss = loss, ![c].review = review,
                                          ![c].status = status], payouts |-> mem.payouts]
<1>0. mem = [claims |-> claim, payouts |-> mem.payouts]
  BY DEF Held
<1>1. PICK cl : cl = [claim EXCEPT ![c].loss = loss]
  OBVIOUS
<1>2. PICK cm : cm = [cl EXCEPT ![c].review = review]
  OBVIOUS
<1>3. PICK m : m = [mem EXCEPT !.claims[c].loss = loss]
  OBVIOUS
<1>4. m = [claims |-> cl, payouts |-> mem.payouts]
  BY <1>0, <1>1, <1>3, FieldWritten
<1>5. PICK n : n = [m EXCEPT !.claims[c].review = review]
  OBVIOUS
<1>6. n = [claims |-> cm, payouts |-> mem.payouts]
  BY <1>2, <1>4, <1>5, FieldWritten
<1>7. mem' = [n EXCEPT !.claims[c].status = status]
  BY <1>3, <1>5 DEF MemSetLoss
<1>8. mem' = [claims |-> [cm EXCEPT ![c].status = status], payouts |-> mem.payouts]
  BY <1>6, <1>7, FieldWritten
<1>9. QED
  BY <1>1, <1>2, <1>8

(* What the repository in memory is left with by each of its writes. *)
LEMMA MemWritten ==
  ASSUME mem = Held, NEW c \in Claim
  PROVE  /\ \A l : MemCreate(c, l) => mem' = [claims |-> [claim EXCEPT ![c] =
              [status |-> "REPORTED", lst |-> l, loss |-> None, review |-> None,
               decision |-> None, evidence |-> FALSE]], payouts |-> mem.payouts]
         /\ MemAddEvidence(c) =>
              mem' = [claims |-> [claim EXCEPT ![c].evidence = TRUE], payouts |-> mem.payouts]
         /\ \A status : MemSetStatus(c, status) =>
              mem' = [claims |-> [claim EXCEPT ![c].status = status], payouts |-> mem.payouts]
         /\ \A decision : MemSetApproval(c, decision) =>
              mem' = [claims |-> [claim EXCEPT ![c].decision = decision, ![c].status = decision],
                      payouts |-> mem.payouts]
         /\ MemSetSettled(c) =>
              mem' = [claims |-> [claim EXCEPT ![c].status = "SETTLED"], payouts |-> mem.payouts]
<1>1. mem = [claims |-> claim, payouts |-> mem.payouts]
  BY DEF Held
<1>2. \A l : MemCreate(c, l) => mem' = [claims |-> [claim EXCEPT ![c] =
              [status |-> "REPORTED", lst |-> l, loss |-> None, review |-> None,
               decision |-> None, evidence |-> FALSE]], payouts |-> mem.payouts]
  <2>1. ASSUME NEW l, NEW row, MemCreate(c, l),
               row = [status |-> "REPORTED", lst |-> l, loss |-> None, review |-> None,
                      decision |-> None, evidence |-> FALSE]
        PROVE  mem' = [claims |-> [claim EXCEPT ![c] = row], payouts |-> mem.payouts]
    <3>1. [mem EXCEPT !.claims[c] = row] = [claims |-> [claim EXCEPT ![c] = row], payouts |-> mem.payouts]
      BY <1>1, FieldWritten
    <3>2. mem' = [mem EXCEPT !.claims[c] = row]
      BY <2>1 DEF MemCreate
    <3>3. QED
      BY <3>1, <3>2
  <2>2. QED
    BY <2>1
<1>3. MemAddEvidence(c) =>
              mem' = [claims |-> [claim EXCEPT ![c].evidence = TRUE], payouts |-> mem.payouts]
  <2>1. PICK v : v = TRUE
    OBVIOUS
  <2>2. [mem EXCEPT !.claims[c].evidence = v] =
          [claims |-> [claim EXCEPT ![c].evidence = v], payouts |-> mem.payouts]
    BY <1>1, FieldWritten
  <2>3. QED
    BY <2>1, <2>2 DEF MemAddEvidence
<1>4. \A status : MemSetStatus(c, status) =>
              mem' = [claims |-> [claim EXCEPT ![c].status = status], payouts |-> mem.payouts]
  BY <1>1 DEF MemSetStatus
<1>6. \A decision : MemSetApproval(c, decision) =>
              mem' = [claims |-> [claim EXCEPT ![c].decision = decision, ![c].status = decision],
                      payouts |-> mem.payouts]
  <2> SUFFICES ASSUME NEW decision, MemSetApproval(c, decision)
               PROVE  mem' = [claims |-> [claim EXCEPT ![c].decision = decision,
                                               ![c].status = decision], payouts |-> mem.payouts]
    OBVIOUS
  <2>1. PICK cl : cl = [claim EXCEPT ![c].decision = decision]
    OBVIOUS
  <2>2. PICK m : m = [mem EXCEPT !.claims[c].decision = decision]
    OBVIOUS
  <2>3. m = [claims |-> cl, payouts |-> mem.payouts]
    BY <1>1, <2>1, <2>2, FieldWritten
  <2>4. mem' = [m EXCEPT !.claims[c].status = decision]
    BY <2>2 DEF MemSetApproval
  <2>5. mem' = [claims |-> [cl EXCEPT ![c].status = decision], payouts |-> mem.payouts]
    BY <2>3, <2>4, FieldWritten
  <2>6. QED
    BY <2>1, <2>5
<1>7. MemSetSettled(c) =>
              mem' = [claims |-> [claim EXCEPT ![c].status = "SETTLED"], payouts |-> mem.payouts]
  BY <1>1 DEF MemSetSettled
<1>8. QED
  BY <1>2, <1>3, <1>4, <1>6, <1>7

(* A step that is not the payouts' has been made to both. *)
LEMMA BothWritten ==
  ASSUME SerialInv, NEW r \in Request, WriteBoth(r) \/ ReadOnly(r)
  PROVE  \/ MemFollows
         \/ /\ PayoutsRecord(r)
            /\ \E paid \in ClaimPayouts(req[r].loss, req[r].rows) :
                 /\ MemRecordPayouts(req[r].claim, paid)
                 /\ Payable(req[r].claim, req[r].rows) =>
                      \A p \in Having(paid) : payouts'[req[r].claim][p] = paid[p]
<1>1. TypeOK /\ RequestOK(req[r]) /\ mem = Held
  BY DEF SerialInv, CoverInv, IInv, TypeOK
<1>2. CASE ReadOnly(r)
  BY <1>1, <1>2 DEF ReadOnly, MemFollows, Held
<1>3. ASSUME NEW c \in Claim, NEW l \in Listing, Report(r, c, l), MemCreate(c, l)
      PROVE  MemFollows
  BY <1>1, <1>3, MemWritten DEF Report, MemFollows
<1>4. ASSUME NEW c \in Claim, AddEvidence(r, c), MemAddEvidence(c)
      PROVE  MemFollows
  BY <1>1, <1>4, MemWritten DEF AddEvidence, MemFollows
<1>5. CASE AdvanceSet(r) /\ MemSetStatus(req[r].claim, req[r].to)
  <2>1. req[r].claim \in Claim
    BY <1>1, <1>5 DEF AdvanceSet, At, RequestOK
  <2>2. QED
    BY <1>1, <1>5, <2>1, MemWritten DEF AdvanceSet, MemFollows
<1>6. CASE LossSet(r) /\ MemSetLoss(req[r].claim, req[r].loss, ReviewOf(req[r].loss),
                                   claim'[req[r].claim].status)
  <2>1. PICK c \in Claim, loss \in Nat \ {0} : c = req[r].claim /\ loss = req[r].loss
    BY <1>1, <1>6, LossSetDoes
  <2>2. PICK review \in Reviews : review = ReviewOf(req[r].loss)
    BY ReviewKind
  <2>3. PICK status \in ClaimStatus :
          status = IF review = "AUTO" THEN "APPROVED" ELSE "AWAITING_APPROVAL"
    BY DEF ClaimStatus
  <2>4. claim' = [claim EXCEPT ![c].loss = loss, ![c].review = review, ![c].status = status]
    BY <1>6, <2>1, <2>2, <2>3 DEF LossSet
  <2>5. claim'[c].status = status
    <3>1. Exists(c) /\ claim[c] \in ClaimRow
      BY <1>1, <1>6, <2>1, RowOf DEF SerialInv, CoverInv, IInv, HandlersKnow, Knows, LossSet, At
    <3>2. PICK row : row = [claim[c] EXCEPT !.loss = loss, !.review = review, !.status = status]
      OBVIOUS
    <3>3. row.status = status
      BY <3>1, <3>2 DEF ClaimRow
    <3>4. claim'[c] = row
      BY <1>1, <2>1, <2>4, <3>2 DEF TypeOK
    <3>5. QED
      BY <3>3, <3>4
  <2>6. MemSetLoss(c, loss, review, status)
    BY <1>6, <2>1, <2>2, <2>5
  <2>7. QED
    <3>1. mem' = [claims |-> [claim EXCEPT ![c].loss = loss, ![c].review = review,
                                           ![c].status = status], payouts |-> mem.payouts]
      BY <1>1, <2>1, <2>6, MemLossWritten
    <3>2. QED
      BY <2>4, <3>1 DEF MemFollows
<1>7. CASE DecideSet(r) /\ MemSetApproval(req[r].claim, req[r].to)
  <2>1. req[r].claim \in Claim
    BY <1>1, <1>7 DEF DecideSet, At, RequestOK
  <2>2. QED
    BY <1>1, <1>7, <2>1, MemWritten DEF DecideSet, MemFollows
<1>8. CASE SettleSet(r) /\ MemSetSettled(req[r].claim)
  <2>1. req[r].claim \in Claim
    BY <1>1, <1>8 DEF SettleSet, At, RequestOK
  <2>2. QED
    BY <1>1, <1>8, <2>1, MemWritten DEF SettleSet, MemFollows
<1>9. QED
  BY <1>2, <1>3, <1>4, <1>5, <1>6, <1>7, <1>8 DEF WriteBoth

LEMMA StepSerial ==
  ASSUME SerialInv, CoverInv', NEW r \in Request, Alone(r),
         WriteBoth(r) \/ ReadOnly(r)
  PROVE  SerialInv'
<1>1. Arrive(r) \/ Step(r) \/ Crash(r)
  BY MemStepNext
<1>2. CASE PayoutsRecord(r)
  <2>2. CASE ReadOnly(r)
    BY <1>2, <2>2, PayoutsRecordSerial DEF ReadOnly
  <2>3. CASE WriteBoth(r)
    <3>1. \E paid \in ClaimPayouts(req[r].loss, req[r].rows) :
            /\ MemRecordPayouts(req[r].claim, paid)
            /\ Payable(req[r].claim, req[r].rows) =>
                 \A p \in Having(paid) : payouts'[req[r].claim][p] = paid[p]
      BY <1>2, <2>3 DEF WriteBoth, PayoutsRecord, AdvanceSet, LossSet, DecideSet, SettleSet,
         Report, AddEvidence, Begin, At
    <3>2. QED
      BY <1>2, <3>1, PayoutsRecordSerial
  <2>4. QED
    BY <2>2, <2>3
<1>3. CASE MemFollows /\ ~ PayoutsRecord(r)
  BY <1>1, <1>3, ArriveSerial, CheckSerial, StatusSerial, LossSetSerial, DecideSetSerial,
     PayoutsListSerial, AuditSerial DEF Step
<1>4. QED
  BY <1>2, <1>3, BothWritten

LEMMA SerialNext ==
  ASSUME SerialInv, [MemNext]_memVars
  PROVE  SerialInv'
<1>1. CoverInv'
  BY NextOfMem, CoverNext DEF SerialInv
<1>2. CASE UNCHANGED <<claim, payouts, req, mem>>
  <2>1. mem' = Held'
    BY <1>2 DEF SerialInv, Held
  <2>2. \A c \in Claim : Exists(c)' => RowSound(claim[c])' /\ PaidSound(c)'
    BY <1>2 DEF SerialInv, Exists, RowSound, PaidSound, Paid, PaidTotal
  <2>3. \A l : TotalApprovedLoss(l)' = TotalApprovedLoss(l)
    BY <1>2 DEF TotalApprovedLoss, ApprovedOn, Exists
  <2>4. \A r \in Request : KnowsStatus(req[r])'
    BY <1>2, <2>3 DEF SerialInv, KnowsStatus, Paid
  <2>5. QED
    BY <1>1, <2>1, <2>2, <2>4 DEF SerialInv
<1>3. ASSUME NEW r \in Request, Alone(r), WriteBoth(r) \/ ReadOnly(r)
      PROVE  SerialInv'
  BY <1>1, <1>3, StepSerial
<1>4. QED
  BY <1>2, <1>3 DEF MemNext, memVars, vars, SyndicationNext, Alone

LEMMA SerialInit == Init /\ MemInit => SerialInv
<1> SUFFICES ASSUME Init, MemInit PROVE SerialInv
  OBVIOUS
<1>1. CoverInv
  BY CoverInit
<1>2. mem = Held
  <2>1. \A c \in Claim : Pairs(payouts[c]) = {}
    BY DEF Init, Pairs, Having, Nobody
  <2>2. QED
    BY <2>1 DEF Init, MemInit, Held
<1>3. \A c \in Claim : ~ Exists(c)
  BY DEF Init, Exists
<1>4. \A r \in Request : KnowsStatus(req[r])
  BY DEF Init, Idle, KnowsStatus
<1>5. QED
  BY <1>1, <1>2, <1>3, <1>4 DEF SerialInv

(* The sum that the coverage test asks the memory for leaves the claims    *)
(* without a loss out, the database's counts them as nothing.              *)
LEMMA TotalsAgree ==
  ASSUME SerialInv, NEW l \in Listing
  PROVE  MemTotalApprovedLoss(l) = TotalApprovedLoss(l)
<1> DEFINE A == ApprovedOn(l)
           f == [c \in A |-> IF claim[c].loss = None THEN 0 ELSE claim[c].loss]
           R == {c \in Claim : /\ mem.claims[c] # None
                               /\ mem.claims[c].lst = l
                               /\ mem.claims[c].status \in {"APPROVED", "SETTLED"}
                               /\ mem.claims[c].loss # None}
           g == [c \in R |-> mem.claims[c].loss]
<1>1. mem.claims = claim
  BY DEF SerialInv, Held
<1>2. IsFiniteSet(A)
  <2>1. A \subseteq {c \in Claim : Exists(c)}
    BY DEF ApprovedOn
  <2>2. QED
    BY <2>1, FS_Subset DEF SerialInv, CoverInv
<1>3. \A c \in A : f[c] \in Nat
  <2>1. \A c \in A : claim[c] \in ClaimRow
    BY RowOf DEF ApprovedOn, SerialInv, CoverInv, IInv
  <2>2. QED
    BY <2>1 DEF ClaimRow
<1>4. R \subseteq A /\ (\A c \in R : g[c] = f[c]) /\ (\A c \in A \ R : f[c] = 0)
  BY <1>1 DEF ApprovedOn, Exists
<1>5. TotalApprovedLoss(l) = SumOver(f, A) /\ MemTotalApprovedLoss(l) = SumOver(g, R)
  BY DEF TotalApprovedLoss, MemTotalApprovedLoss
<1> HIDE DEF A, f, R, g
<1>6. IsFiniteSet(R) /\ IsFiniteSet(A \ R)
  BY <1>2, <1>4, FS_Subset
<1>7. SumOver(g, R) = SumOver(f, R)
  BY <1>4, <1>6, SumCong
<1>8. SumOver(f, A \ R) = 0
  BY <1>4, <1>6, SumZero
<1>9. SumOver(f, A) = SumOver(f, R) + SumOver(f, A \ R)
  BY <1>2, <1>3, <1>4, SumDisjoint
<1>10. SumOver(f, R) \in Nat
  BY <1>3, <1>4, <1>6, SumNat
<1>11. QED
  BY <1>5, <1>7, <1>8, <1>9, <1>10

LEMMA SerialInvariance == MemSpec => []SerialInv
<1>1. Init /\ MemInit => SerialInv
  BY SerialInit
<1>2. SerialInv /\ [MemNext]_memVars => SerialInv'
  BY SerialNext
<1>3. QED
  BY <1>1, <1>2, PTL DEF MemSpec

(***************************************************************************)
(* When requests come one at a time a claim is paid its loss and only when *)
(* it was approved, and a rejection is for good.                           *)
(***************************************************************************)
LEMMA PaidAsDecided == SerialInv => PaidExactly /\ RejectedForGood
<1> SUFFICES ASSUME SerialInv, NEW c \in Claim
             PROVE  /\ Paid(c) => /\ PaidTotal(c) = claim[c].loss
                                  /\ claim[c].status \in {"APPROVED", "SETTLED"}
                    /\ Exists(c) /\ claim[c].decision = "REJECTED" =>
                         claim[c].status = "REJECTED" /\ ~ Paid(c)
  BY DEF PaidExactly, RejectedForGood
<1>1. Paid(c) => Exists(c)
  BY DEF SerialInv, CoverInv, IInv, Stored, Recorded
<1>2. Exists(c) => RowSound(claim[c]) /\ PaidSound(c)
  BY DEF SerialInv
<1>3. QED
  BY <1>1, <1>2 DEF RowSound, PaidSound

(***************************************************************************)
(* What the checks of decide, calculateLoss and the payouts are for holds  *)
(* when requests come one at a time and nobody asks advance for APPROVED,  *)
(* which it grants without a decision.                                     *)
(***************************************************************************)
THEOREM SerialChecksHold ==
  ASSUME "APPROVED" \notin Targets
  PROVE  MemSpec => []ChecksHold
<1>1. SerialInv => ApprovedByHuman
  BY DEF SerialInv, RowSound, ApprovedByHuman
<1>2. QED
  BY <1>1, PaidAsDecided, SerialInvariance, PTL DEF ChecksHold

(***************************************************************************)
(* The repository that the tests run on agrees with the database, and its  *)
(* sum of the approved losses with the database's, when requests come one  *)
(* at a time, though it would replace payouts that the database refuses.   *)
(***************************************************************************)
THEOREM ClaimsMemory == MemSpec => []MemoryAgrees
<1>1. SerialInv => MemoryAgrees
  BY TotalsAgree DEF MemoryAgrees, SerialInv, Held, Pairs
<1>2. QED
  BY <1>1, SerialInvariance, PTL

(* The loss of an approval that needs no human adds to those that were     *)
(* approved before, and the coverage test has counted it among them.       *)
LEMMA AutoCovered ==
  ASSUME SerialInv, CoverInv', NEW r \in Request, LossSet(r), NEW c \in Claim, NEW l \in Listing,
         Exists(c), claim[c].lst = l, claim[c].review = None, claim'[c].review = "AUTO"
  PROVE  TotalApprovedLoss(l)' <= Capacity[l]
<1>1. TypeOK /\ RequestOK(req[r]) /\ Knows(req[r]) /\ KnowsStatus(req[r])
  BY DEF SerialInv, CoverInv, IInv, TypeOK, HandlersKnow
<1>2. PICK review \in Reviews : review = ReviewOf(req[r].loss)
  BY ReviewKind
<1>3. PICK d \in Claim, loss \in Nat \ {0} : d = req[r].claim /\ loss = req[r].loss
  BY <1>1, LossSetDoes
<1>4. PICK status \in ClaimStatus :
        status = IF review = "AUTO" THEN "APPROVED" ELSE "AWAITING_APPROVAL"
  BY DEF ClaimStatus
<1>5. /\ req[r].pc = "loss.set"
      /\ Created(d, [claim[d] EXCEPT !.loss = loss, !.review = review, !.status = status])
  BY <1>1, <1>2, <1>3, <1>4, LossSetDoes
<1>6. /\ Exists(d) /\ claim[d] \in ClaimRow /\ req[r].lst = claim[d].lst
      /\ claim[d].status = "COVERAGE_CONFIRMED"
  BY <1>1, <1>3, <1>5, RowOf DEF Knows, KnowsStatus
<1>7. PICK row : row = [claim[d] EXCEPT !.loss = loss, !.review = review, !.status = status]
  OBVIOUS
<1>8. /\ row \in ClaimRow /\ row.loss = loss /\ row.status = status /\ row.review = review
      /\ row.lst = claim[d].lst
  BY <1>2, <1>3, <1>4, <1>6, <1>7 DEF ClaimRow
<1>9. claim'[d] = row /\ row # None /\ \A e \in Claim : e # d => claim'[e] = claim[e]
  BY <1>1, <1>5, <1>7, <1>8, Written
<1>10. c = d /\ review = "AUTO" /\ status = "APPROVED"
  <2>1. None # "AUTO"
    BY ClaimRowAssumption DEF Reviews
  <2>2. QED
    BY <1>4, <1>8, <1>9, <2>1
<1>11. loss <= Capacity[l] - TotalApprovedLoss(l)
  BY <1>1, <1>3, <1>5, <1>6, <1>10 DEF KnowsStatus
<1> DEFINE A == ApprovedOn(l)
           B == ApprovedOn(l)'
           f == [x \in A |-> IF claim[x].loss = None THEN 0 ELSE claim[x].loss]
           g == [x \in B |-> IF claim'[x].loss = None THEN 0 ELSE claim'[x].loss]
<1>12. d \in B /\ A = B \ {d} /\ (\A x \in A : g[x] = f[x]) /\ g[d] = loss
  <2>1. B = A \cup {d} /\ d \notin A
    BY <1>6, <1>8, <1>9, <1>10 DEF ApprovedOn, Exists
  <2>2. loss # None
    BY <1>3, CommitmentsAssumption
  <2>3. ASSUME NEW x \in A PROVE g[x] = f[x]
    <3>1. x \in B /\ claim'[x] = claim[x]
      BY <1>9, <2>1 DEF ApprovedOn
    <3>2. QED
      BY <3>1
  <2>4. g[d] = loss
    BY <1>8, <1>9, <2>1, <2>2
  <2> HIDE DEF A, B, f, g
  <2>5. QED
    BY <2>1, <2>3, <2>4
<1>13. IsFiniteSet(A) /\ IsFiniteSet(B)
  <2>1. A \subseteq {x \in Claim : Exists(x)} /\ B \subseteq {x \in Claim : Exists(x)'}
    BY DEF ApprovedOn
  <2>2. QED
    BY <2>1, FS_Subset DEF SerialInv, CoverInv
<1>14. \A x \in B : g[x] \in Nat
  <2>1. \A x \in A : claim[x] \in ClaimRow
    BY <1>1, RowOf DEF ApprovedOn
  <2>2. \A x \in A : f[x] \in Nat
    BY <2>1 DEF ClaimRow
  <2>3. QED
    BY <1>3, <1>12, <2>2
<1>15. TotalApprovedLoss(l) = SumOver(f, A) /\ TotalApprovedLoss(l)' = SumOver(g, B)
  BY DEF TotalApprovedLoss
<1> HIDE DEF A, B, f, g
<1>16. SumOver(g, B) = g[d] + SumOver(g, B \ {d})
  BY <1>12, <1>13, <1>14, SumRemove
<1>17. SumOver(g, A) = SumOver(f, A) /\ SumOver(g, A) \in Nat
  BY <1>12, <1>13, <1>14, SumCong, SumNat
<1>18. Capacity[l] \in Nat
  BY CommitmentsAssumption
<1>19. QED
  BY <1>3, <1>11, <1>12, <1>15, <1>16, <1>17, <1>18

(* No other step classifies a claim. *)
LEMMA ReviewKept ==
  ASSUME IInv, NEW r \in Request, Arrive(r) \/ Step(r) \/ Crash(r), ~ LossSet(r),
         NEW c \in Claim, Exists(c)
  PROVE  claim'[c].review = claim[c].review
<1>1. /\ TypeOK /\ RequestOK(req[r]) /\ Knows(req[r]) /\ claim[c] \in ClaimRow
      /\ c = req[r].claim => Exists(c)
  BY RowOf DEF IInv, TypeOK, HandlersKnow
<1>2. CASE UNCHANGED claim
  BY <1>2
<1>3. ASSUME NEW d \in Claim, NEW row, Created(d, row), d = c => row.review = claim[c].review
      PROVE  claim'[c].review = claim[c].review
  BY <1>1, <1>3 DEF Created, TypeOK
<1>4. CASE Arrive(r)
  <2>1. ASSUME NEW d \in Claim, AddEvidence(r, d)
        PROVE  claim'[c].review = claim[c].review
    <3>1. PICK row : row = [claim[d] EXCEPT !.evidence = TRUE]
      OBVIOUS
    <3>2. d = c => row.review = claim[c].review
      BY <1>1, <3>1 DEF ClaimRow
    <3>3. QED
      BY <1>3, <2>1, <3>1, <3>2 DEF AddEvidence, Created
  <2>2. ASSUME NEW d \in Claim, NEW l \in Listing, Report(r, d, l)
        PROVE  claim'[c].review = claim[c].review
    <3>1. PICK row : row = [status |-> "REPORTED", lst |-> l, loss |-> None, review |-> None,
                            decision |-> None, evidence |-> FALSE]
      OBVIOUS
    <3>2. Created(d, row) /\ d # c
      BY <2>2, <3>1 DEF Report, Created
    <3>3. QED
      BY <1>3, <3>2
  <2>3. QED
    BY <1>2, <1>4, <2>1, <2>2 DEF Arrive, AdvanceStart, LossStart, DecideStart, SettleStart
<1>5. CASE AdvanceSet(r) \/ SettleSet(r)
  <2>1. PICK d \in Claim, status \in ClaimStatus : Created(d, [claim[d] EXCEPT !.status = status])
    BY <1>1, <1>5, AdvanceSetDoes, SettleSetDoes DEF ClaimStatus
  <2>2. PICK row : row = [claim[d] EXCEPT !.status = status]
    OBVIOUS
  <2>3. d = c => row.review = claim[c].review
    BY <1>1, <2>2 DEF ClaimRow
  <2>4. QED
    BY <1>3, <2>1, <2>2, <2>3
<1>6. CASE DecideSet(r)
  <2>1. PICK d \in Claim, to \in Decisions : d = req[r].claim /\ to = req[r].to
    BY <1>1, <1>6 DEF RequestOK, DecideSet, At
  <2>2. PICK row : row = [claim[d] EXCEPT !.decision = to, !.status = to]
    OBVIOUS
  <2>3. d = c => row.review = claim[c].review
    BY <1>1, <2>2 DEF ClaimRow
  <2>4. Created(d, row)
    BY <1>6, <2>1, <2>2 DEF DecideSet, Created
  <2>5. QED
    BY <1>3, <2>3, <2>4
<1>7. QED
  BY <1>2, <1>4, <1>5, <1>6 DEF Step, AdvanceSyndication, LossSyndication, LossCoverage, PayoutsList,
     PayoutsRecord, PayoutsAudit, Record, Crash

(***************************************************************************)
(* An approval without a human keeps the syndication within its capacity,  *)
(* whatever was approved on it before, when requests come one at a time.   *)
(***************************************************************************)
THEOREM AutoWithinCapacity == MemSpec => AutoApprovalCovered
<1>1. ASSUME SerialInv, SerialInv', [MemNext]_memVars
      PROVE  [\A l \in Listing :
                (\E c \in Claim : Exists(c) /\ claim[c].lst = l /\ claim[c].review = None
                                   /\ claim'[c].review = "AUTO")
                  => TotalApprovedLoss(l)' <= Capacity[l]]_vars
  <2>1. SUFFICES ASSUME NEW l \in Listing, NEW c \in Claim, Exists(c), claim[c].lst = l,
                        claim[c].review = None, claim'[c].review = "AUTO"
                 PROVE  TotalApprovedLoss(l)' <= Capacity[l]
    OBVIOUS
  <2>2. claim'[c].review # claim[c].review
    BY <2>1, ClaimRowAssumption DEF Reviews
  <2>3. PICK r \in Request : WriteBoth(r) \/ ReadOnly(r)
    BY <1>1, <2>2 DEF MemNext, memVars, vars, SyndicationNext
  <2>4. LossSet(r)
    BY <1>1, <2>1, <2>2, <2>3, MemStepNext, ReviewKept DEF SerialInv, CoverInv
  <2>5. QED
    BY <1>1, <2>1, <2>4, AutoCovered DEF SerialInv
<1>2. QED
  BY <1>1, SerialInvariance, PTL DEF AutoApprovalCovered, MemSpec
=============================================================================

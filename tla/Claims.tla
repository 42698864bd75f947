------------------------------- MODULE Claims -------------------------------
(***************************************************************************)
(* ClaimsService on top of the commitments of syndication.  A claim goes   *)
(* from REPORTED through the coverage test and, above a threshold, a human *)
(* decision to APPROVED, its payouts and SETTLED.  As in Syndication.tla   *)
(* every request is a process, each awaited repository call is one step,   *)
(* and updates are unconditional: what was checked may be stale by then.   *)
(* Syndications change meanwhile, in the way Commitments.tla allows.       *)
(***************************************************************************)
EXTENDS Commitments

CONSTANTS
  Claim,        \* ids of claims
  Request,      \* slots for requests that are handled concurrently
  Losses,       \* the losses a claims administrator enters
  AutoCeiling,  \* DEFAULT_AUTO_APPROVAL_CEILING
  Targets,      \* the statuses callers ask advance for
  Operations,   \* the operations that are called in this instance
  Crashes       \* the claims on which a process may die in the middle of a handler

VARIABLES
  claim,    \* the Claim rows
  payouts,  \* the ClaimPayout rows, unique by claim and provider
  audit,    \* the AuditRecords of claims, as <<action, claim>>
  req       \* where each request is in its handler, and what it has read

vars == <<synd, holding, bound, claim, payouts, audit, req>>

ClaimStatus == {"REPORTED", "EVIDENCE_COLLECTED", "VERIFIED", "COVERAGE_CONFIRMED",
  "LOSS_CALCULATED", "AWAITING_APPROVAL", "APPROVED", "REJECTED", "SETTLED"}

ASSUME ClaimsAssumption ==
  /\ Losses \subseteq Nat \ {0}
  /\ AutoCeiling \in Nat
  /\ Targets \subseteq ClaimStatus
  /\ Crashes \subseteq Claim
  /\ None \notin Claim \cup Listing \cup BOOLEAN

(* CLAIM_TRANSITIONS *)
Transitions == [s \in ClaimStatus |->
  CASE s = "REPORTED"           -> {"EVIDENCE_COLLECTED"}
    [] s = "EVIDENCE_COLLECTED" -> {"VERIFIED"}
    [] s = "VERIFIED"           -> {"COVERAGE_CONFIRMED"}
    [] s = "COVERAGE_CONFIRMED" -> {"LOSS_CALCULATED"}
    [] s = "LOSS_CALCULATED"    -> {"AWAITING_APPROVAL", "APPROVED"}
    [] s = "AWAITING_APPROVAL"  -> {"APPROVED", "REJECTED"}
    [] s = "APPROVED"           -> {"SETTLED"}
    [] OTHER                    -> {}]

Reviews == {"AUTO", "HUMAN_REVIEW"}
Decisions == {"APPROVED", "REJECTED"}
Causes == {"process", "loss", "decide"}
Actions == Causes \cup {"payouts"}
ClaimRow == [status : ClaimStatus, lst : Listing, loss : (Nat \ {0}) \cup {None},
             review : Reviews \cup {None}, decision : Decisions \cup {None},
             evidence : BOOLEAN]
ASSUME ClaimRowAssumption == None \notin ClaimRow \cup Decisions \cup Reviews

Idle == [pc |-> "idle", claim |-> None, to |-> None, lst |-> None, loss |-> None,
         rows |-> Nobody, then |-> None]

-----------------------------------------------------------------------------
(* The table of claims: find, create, addEvidence, setStatus, setLoss,      *)
(* setApproval and setSettled.  Each is one statement on the row with the   *)
(* given id, and none of them looks at the status the row has by then.      *)
Exists(c) == claim[c] # None
InsertClaim(c, l) ==
  claim' = [claim EXCEPT ![c] = [status |-> "REPORTED", lst |-> l, loss |-> None,
              review |-> None, decision |-> None, evidence |-> FALSE]]
PushEvidence(c) == claim' = [claim EXCEPT ![c].evidence = TRUE]
SetStatus(c, to) == claim' = [claim EXCEPT ![c].status = to]
SetLoss(c, loss, review, to) ==
  claim' = [claim EXCEPT ![c].loss = loss, ![c].review = review, ![c].status = to]
SetApproval(c, decision, to) ==
  claim' = [claim EXCEPT ![c].decision = decision, ![c].status = to]
SetSettled(c) == claim' = [claim EXCEPT ![c].status = "SETTLED"]

(* totalApprovedLoss: the losses of the APPROVED and SETTLED claims on a   *)
(* syndication; a claim without a loss counts as nothing.                  *)
ApprovedOn(l) ==
  {c \in Claim : Exists(c) /\ claim[c].lst = l /\ claim[c].status \in {"APPROVED", "SETTLED"}}
TotalApprovedLoss(l) ==
  SumOver([c \in ApprovedOn(l) |-> IF claim[c].loss = None THEN 0 ELSE claim[c].loss],
          ApprovedOn(l))

(* Mutant of Covered: prior claims are not added. *)
CoveredAlone(status, l, loss) == status = "BOUND" /\ loss <= Capacity[l]

(* Mutant of Covered: the loss is not looked at. *)
CoveredAnyLoss(status, l, loss) == status = "BOUND" /\ loss >= TotalApprovedLoss(l) - Capacity[l]

(* requireCoverage, on the status of the syndication that was read. *)
Covered(status, l, loss) ==
  /\ status = "BOUND"
  /\ loss <= Capacity[l] - TotalApprovedLoss(l)

(* Mutant of ReviewOf: the threshold is not applied. *)
ReviewAlwaysAuto(loss) == IF loss >= 0 THEN "AUTO" ELSE "HUMAN_REVIEW"

(* classifyReview *)
ReviewOf(loss) == IF loss <= AutoCeiling THEN "AUTO" ELSE "HUMAN_REVIEW"

(* Mutant of ClaimPayouts: each provider is paid the whole loss. *)
WholeLossToEach(loss, rows) ==
  {[p \in Provider |-> IF rows[p] = None THEN None ELSE loss]}

(* computeClaimPayouts: the loss split over the rows by their shares; none *)
(* when there are no rows, because it throws.                              *)
ClaimPayouts(loss, rows) ==
  LET weights == [p \in Having(rows) |-> rows[p]] IN
  {[p \in Provider |-> IF p \in Having(rows) THEN parts[p] ELSE None] :
     parts \in AllocateMoney(loss, weights)}

-----------------------------------------------------------------------------
(* How a handler moves on. *)

At(r, pc) == req[r].pc = pc
Become(r, q) == req' = [req EXCEPT ![r] = q]
Goto(r, pc) == Become(r, [req[r] EXCEPT !.pc = pc])
Finish(r) == Become(r, Idle)
Require(r, condition, pc) == IF condition THEN Goto(r, pc) ELSE Finish(r)
Begin(r, q) == At(r, "idle") /\ Become(r, q)

(* audit.record, the last write of every handler. *)
Record(r) ==
  /\ At(r, "audit")
  /\ audit' = audit \cup {<<req[r].then, req[r].claim>>}
  /\ Finish(r)
  /\ UNCHANGED <<promise, claim, payouts>>

(* report: findSyndication, of any status, and create. *)
Report(r, c, l) ==
  /\ synd[l] # "NONE"
  /\ ~ Exists(c)
  /\ InsertClaim(c, l)
  /\ Begin(r, [Idle EXCEPT !.pc = "audit", !.claim = c, !.then = "process"])
  /\ UNCHANGED <<promise, payouts, audit>>

(* addEvidence: mustFind, then a reference is appended, in any status. *)
AddEvidence(r, c) ==
  /\ Exists(c)
  /\ PushEvidence(c)
  /\ Begin(r, [Idle EXCEPT !.pc = "audit", !.claim = c, !.then = "process"])
  /\ UNCHANGED <<promise, payouts, audit>>

-----------------------------------------------------------------------------
(* ClaimsService.advance *)

(* mustFind and requireClaimTransition; only COVERAGE_CONFIRMED has a      *)
(* check of its own, every other legal status is set as it is.             *)
AdvanceStart(r, c, to) ==
  /\ Exists(c)
  /\ to \in Transitions[claim[c].status]
  /\ Begin(r, [Idle EXCEPT !.claim = c, !.to = to, !.lst = claim[c].lst, !.then = "process",
                 !.pc = IF to = "COVERAGE_CONFIRMED" THEN "advance.syndication"
                                                     ELSE "advance.set"])
  /\ UNCHANGED <<promise, claim, payouts, audit>>

(* SYNDICATION_NOT_BOUND *)
AdvanceSyndication(r) ==
  /\ At(r, "advance.syndication")
  /\ Require(r, synd[req[r].lst] = "BOUND", "advance.set")
  /\ UNCHANGED <<promise, claim, payouts, audit>>

(* setStatus, whatever the status is by now. *)
AdvanceSet(r) ==
  /\ At(r, "advance.set")
  /\ SetStatus(req[r].claim, req[r].to)
  /\ Goto(r, "audit")
  /\ UNCHANGED <<promise, payouts, audit>>

-----------------------------------------------------------------------------
(* ClaimsService.calculateLoss *)

(* mustFind and requireClaimTransition(status, LOSS_CALCULATED). *)
LossStart(r, c, loss) ==
  /\ Exists(c)
  /\ claim[c].status = "COVERAGE_CONFIRMED"
  /\ Begin(r, [Idle EXCEPT !.pc = "loss.syndication", !.claim = c,
                 !.lst = claim[c].lst, !.loss = loss])
  /\ UNCHANGED <<promise, claim, payouts, audit>>

(* findSyndication: the status is kept for the coverage test. *)
LossSyndication(r) ==
  /\ At(r, "loss.syndication")
  /\ Become(r, [req[r] EXCEPT !.pc = "loss.coverage", !.to = synd[req[r].lst]])
  /\ UNCHANGED <<promise, claim, payouts, audit>>

(* totalApprovedLoss and requireCoverage. *)
LossCoverage(r) ==
  /\ At(r, "loss.coverage")
  /\ Require(r, Covered(req[r].to, req[r].lst, req[r].loss), "loss.set")
  /\ UNCHANGED <<promise, claim, payouts, audit>>

(* setLoss: the loss, the review and the status it leads to in one update. *)
LossSet(r) ==
  LET review == ReviewOf(req[r].loss) IN
  /\ At(r, "loss.set")
  /\ SetLoss(req[r].claim, req[r].loss, review,
             IF review = "AUTO" THEN "APPROVED" ELSE "AWAITING_APPROVAL")
  /\ Become(r, [req[r] EXCEPT !.then = "loss",
                  !.pc = IF review = "AUTO" THEN "payouts.list" ELSE "audit"])
  /\ UNCHANGED <<promise, payouts, audit>>

-----------------------------------------------------------------------------
(* ClaimsService.decide *)

(* mustFind; only a claim AWAITING_APPROVAL may be decided. *)
DecideStart(r, c, decision) ==
  /\ Exists(c)
  /\ claim[c].status = "AWAITING_APPROVAL"
  /\ Begin(r, [Idle EXCEPT !.pc = "decide.set", !.claim = c,
                 !.lst = claim[c].lst, !.to = decision])
  /\ UNCHANGED <<promise, claim, payouts, audit>>

(* Mutant of DecideSet: the claim is approved and its payouts are not made. *)
DecideSetOnly(r) ==
  /\ At(r, "decide.set")
  /\ SetApproval(req[r].claim, req[r].to, req[r].to)
  /\ Become(r, [req[r] EXCEPT !.pc = "audit", !.then = "decide"])
  /\ UNCHANGED <<promise, payouts, audit>>

(* setApproval: the decision and the status.  The row it returns has the   *)
(* loss to be paid; recordPayoutsAndAudit throws when there is none.       *)
DecideSet(r) ==
  LET c == req[r].claim IN
  /\ At(r, "decide.set")
  /\ SetApproval(c, req[r].to, req[r].to)
  /\ IF req[r].to = "REJECTED"
       THEN Become(r, [req[r] EXCEPT !.pc = "audit", !.then = "decide"])
       ELSE IF claim[c].loss = None
              THEN Finish(r)
              ELSE Become(r, [req[r] EXCEPT !.pc = "payouts.list", !.then = "decide",
                                            !.loss = claim[c].loss])
  /\ UNCHANGED <<promise, payouts, audit>>

-----------------------------------------------------------------------------
(* recordPayoutsAndAudit *)

(* Mutant of PayoutsList: every provider is listed, with a share or not. *)
PayoutsListAll(r) ==
  /\ At(r, "payouts.list")
  /\ Become(r, [req[r] EXCEPT !.pc = "payouts.record",
                  !.rows = [p \in Provider |-> FullAllocation]])
  /\ UNCHANGED <<promise, claim, payouts, audit>>

(* listAllocations; with no row computeClaimPayouts throws. *)
PayoutsList(r) ==
  /\ At(r, "payouts.list")
  /\ IF Having(holding[req[r].lst]) = {}
       THEN Finish(r)
       ELSE Become(r, [req[r] EXCEPT !.pc = "payouts.record", !.rows = holding[req[r].lst]])
  /\ UNCHANGED <<promise, claim, payouts, audit>>

(* Mutant of Payable: a second payout overwrites the first. *)
PayableAgain(c, rows) == Having(rows) # {}

(* The unique key on claim and provider refuses a second set of payouts. *)
Payable(c, rows) == \A p \in Having(rows) : payouts[c][p] = None

(* createMany: all the rows in one statement, or none. *)
PayoutsRecord(r) ==
  LET c == req[r].claim
      rows == req[r].rows
  IN
  /\ At(r, "payouts.record")
  /\ IF Payable(c, rows)
       THEN /\ \E paid \in ClaimPayouts(req[r].loss, rows) :
                 payouts' = [payouts EXCEPT ![c] = [p \in Provider |->
                               IF paid[p] = None THEN @[p] ELSE paid[p]]]
            /\ Goto(r, "payouts.audit")
       ELSE Finish(r) /\ UNCHANGED payouts
  /\ UNCHANGED <<promise, claim, audit>>

(* The audit record of the payouts; the caller's own follows. *)
PayoutsAudit(r) ==
  /\ At(r, "payouts.audit")
  /\ audit' = audit \cup {<<"payouts", req[r].claim>>}
  /\ Goto(r, "audit")
  /\ UNCHANGED <<promise, claim, payouts>>

-----------------------------------------------------------------------------
(* ClaimsService.settle *)

(* mustFind and requireClaimTransition(status, SETTLED). *)
SettleStart(r, c) ==
  /\ Exists(c)
  /\ claim[c].status = "APPROVED"
  /\ Begin(r, [Idle EXCEPT !.pc = "settle.set", !.claim = c, !.then = "process"])
  /\ UNCHANGED <<promise, claim, payouts, audit>>

(* setSettled, whatever the status is by now. *)
SettleSet(r) ==
  /\ At(r, "settle.set")
  /\ SetSettled(req[r].claim)
  /\ Goto(r, "audit")
  /\ UNCHANGED <<promise, payouts, audit>>

(* The process that handles a request dies, or one of its awaits fails. *)
Crash(r) ==
  /\ req[r].claim \in Crashes
  /\ ~ At(r, "idle")
  /\ Finish(r)
  /\ UNCHANGED <<promise, claim, payouts, audit>>

-----------------------------------------------------------------------------
Init ==
  /\ PromiseInit
  /\ claim = [c \in Claim |-> None]
  /\ payouts = [c \in Claim |-> Nobody]
  /\ audit = {}
  /\ req = [r \in Request |-> Idle]

Called(operation) == operation \in Operations

(* A request arrives. *)
Arrive(r) ==
  \E c \in Claim :
    \/ Called("report") /\ \E l \in Listing : Report(r, c, l)
    \/ Called("addEvidence") /\ AddEvidence(r, c)
    \/ Called("advance") /\ \E to \in Targets : AdvanceStart(r, c, to)
    \/ Called("calculateLoss") /\ \E loss \in Losses : LossStart(r, c, loss)
    \/ Called("decide") /\ \E d \in Decisions : DecideStart(r, c, d)
    \/ Called("settle") /\ SettleStart(r, c)

(* A handler takes its next step. *)
Step(r) ==
  \/ AdvanceSyndication(r) \/ AdvanceSet(r)
  \/ LossSyndication(r) \/ LossCoverage(r) \/ LossSet(r)
  \/ DecideSet(r) \/ SettleSet(r)
  \/ PayoutsList(r) \/ PayoutsRecord(r) \/ PayoutsAudit(r)
  \/ Record(r)

ClaimsNext == \E r \in Request : Arrive(r) \/ Step(r) \/ Crash(r)

(* Syndications change as Commitments allows; claims only read them. *)
SyndicationNext ==
  Called("syndication") /\ PromiseNext /\ UNCHANGED <<claim, payouts, audit, req>>

Next == ClaimsNext \/ SyndicationNext

Spec == Init /\ [][Next]_vars

(* A handler that has started runs to its end; nobody has to send one. *)
FairSpec == Spec /\ \A r \in Request : WF_vars(Step(r))

-----------------------------------------------------------------------------
ReadySteps == {"advance.syndication", "advance.set", "loss.syndication", "loss.coverage",
  "loss.set", "decide.set", "settle.set", "payouts.list", "payouts.record",
  "payouts.audit", "audit"}

RequestState ==
  [pc : {"idle"} \cup ReadySteps, claim : Claim \cup {None},
   to : ClaimStatus \cup Status \cup {None}, lst : Listing \cup {None},
   loss : Nat \cup {None}, rows : [Provider -> Shares \cup {None}],
   then : Causes \cup {None}]

(* What a request on its way knows of the call it serves. *)
RequestOK(q) ==
  /\ q \in RequestState
  /\ q.pc # "idle" => q.claim \in Claim
  /\ q.pc \in {"advance.syndication", "loss.syndication", "loss.coverage", "loss.set",
               "decide.set", "payouts.list"} => q.lst \in Listing
  /\ q.pc \in {"advance.syndication", "advance.set"} => q.to \in ClaimStatus
  /\ q.pc = "decide.set" => q.to \in Decisions
  /\ q.pc \in {"loss.syndication", "loss.coverage", "loss.set",
               "payouts.list", "payouts.record"} => q.loss \in Nat \ {0}
  /\ q.pc \in {"advance.syndication", "advance.set", "settle.set"} => q.then = "process"
  /\ q.pc \in {"payouts.list", "payouts.record", "payouts.audit", "audit"} => q.then \in Causes

(* The type of every variable. *)
TypeOK ==
  /\ synd \in [Listing -> Status]
  /\ holding \in [Listing -> [Provider -> Shares \cup {None}]]
  /\ DOMAIN bound = Listing
  /\ \A l \in Listing : bound[l] \in [Provider -> BoundTerms(l) \cup {None}]
  /\ claim \in [Claim -> ClaimRow \cup {None}]
  /\ payouts \in [Claim -> [Provider -> Nat \cup {None}]]
  /\ audit \subseteq Actions \X Claim
  /\ req \in [Request -> RequestState]
  /\ \A r \in Request : RequestOK(req[r])

-----------------------------------------------------------------------------
(* Properties that hold however requests interleave and wherever they die, *)
(* callers that push advance through any legal transition included.        *)

Paid(c) == Having(payouts[c]) # {}
PaidTotal(c) == SumOver([p \in Having(payouts[c]) |-> payouts[c][p]], Having(payouts[c]))

(* Nothing is paid before its tests: the payouts of a claim exist only     *)
(* behind a BOUND syndication and, above the ceiling, after a recorded     *)
(* human decision.  decide does not look at the syndication again, and     *)
(* advance can reach AWAITING_APPROVAL and APPROVED without any test.      *)
PaidAfterTests ==
  \A c \in Claim : Paid(c) =>
    /\ synd[claim[c].lst] = "BOUND"
    /\ PaidTotal(c) > AutoCeiling => claim[c].decision # None

(* Every provider that was bound pays its part, and only a provider that   *)
(* holds a row pays: recordPayoutsAndAudit reads the rows again at payout. *)
HoldersPay ==
  \A c \in Claim : Paid(c) =>
    /\ Having(bound[claim[c].lst]) \subseteq Having(payouts[c])
    /\ Having(payouts[c]) \subseteq Having(holding[claim[c].lst])

(* A loss stands on a claim only if its syndication is BOUND and has the   *)
(* capacity for it alone, and no more than that capacity is paid on it.    *)
LossIsCovered ==
  \A c \in Claim : Exists(c) =>
    /\ claim[c].loss # None => /\ synd[claim[c].lst] = "BOUND"
                               /\ claim[c].loss <= Capacity[claim[c].lst]
    /\ PaidTotal(c) <= Capacity[claim[c].lst]

(* The audit record of a payout is never without the payout, nor a         *)
(* settlement's or a decision's without the claim having got there.        *)
ClaimsAudited ==
  \A c \in Claim :
    /\ <<"payouts", c>> \in audit => Paid(c)
    /\ <<"decide", c>> \in audit => claim[c].decision # None
    /\ <<"loss", c>> \in audit => claim[c].loss # None

(* What a handler carries stays true however long it is overtaken: its     *)
(* claim and the syndication of it are there, a loss on its way to a claim *)
(* or a payout was tested against a BOUND syndication and, above the       *)
(* ceiling, decided, and the rows it pays by include all that were bound.  *)
Knows(q) ==
  /\ q.pc # "idle" => Exists(q.claim)
  /\ q.pc \in {"loss.syndication", "loss.coverage", "loss.set", "decide.set",
               "payouts.list", "payouts.record"} => q.lst = claim[q.claim].lst
  /\ q.pc = "loss.coverage" /\ q.to = "BOUND" => synd[q.lst] = "BOUND"
  /\ q.pc \in {"loss.set", "payouts.list", "payouts.record"} => synd[q.lst] = "BOUND"
  /\ q.pc \in {"payouts.list", "payouts.record"} /\ q.loss > AutoCeiling
       => claim[q.claim].decision # None
  /\ q.pc = "payouts.record" => /\ Having(bound[q.lst]) \subseteq Having(q.rows)
                                /\ Having(q.rows) \subseteq Having(holding[q.lst])
  /\ q.pc = "payouts.audit" => Paid(q.claim)
  /\ q.pc \in {"payouts.list", "payouts.record", "payouts.audit", "audit"} =>
       /\ q.then = "loss" => claim[q.claim].loss # None
       /\ q.then = "decide" => claim[q.claim].decision # None

HandlersKnow == \A r \in Request : Knows(req[r])

(* A claim is paid once: once some provider has a payout of a claim,       *)
(* nothing is added to the payouts of that claim, changed or taken away by *)
(* a second calculation or decision that was under way.                    *)
PaidOnce == [][\A c \in Claim : Paid(c) => payouts'[c] = payouts[c]]_vars

-----------------------------------------------------------------------------
(* Properties that hold when one request is handled at a time.  They are   *)
(* what the checks are for; the races that break them are in the README.   *)

(* The payouts of a claim are its loss, to the unit, and exist only on a   *)
(* claim that was approved.                                                *)
PaidExactly ==
  \A c \in Claim : Paid(c) =>
    /\ PaidTotal(c) = claim[c].loss
    /\ claim[c].status \in {"APPROVED", "SETTLED"}

(* A claim that was rejected is neither paid nor settled, then or later.   *)
RejectedForGood ==
  \A c \in Claim : Exists(c) /\ claim[c].decision = "REJECTED" =>
    claim[c].status = "REJECTED" /\ ~ Paid(c)

(* A loss above the ceiling is approved only by a recorded decision.       *)
ApprovedByHuman ==
  \A c \in Claim :
    Exists(c) /\ claim[c].status \in {"APPROVED", "SETTLED"} =>
      \/ claim[c].decision = "APPROVED"
      \/ claim[c].loss # None /\ claim[c].loss <= AutoCeiling

(***************************************************************************)
(* What the checks of decide, calculateLoss and the payouts are for, when  *)
(* requests come one at a time: a claim is paid its loss and nothing else, *)
(* a rejection stands, and a large loss is approved by a human only.       *)
(***************************************************************************)
ChecksHold == PaidExactly /\ RejectedForGood /\ ApprovedByHuman

(* An approval without a human keeps the syndication within its capacity,  *)
(* whatever was approved on it before, by the coverage test or by decide.  *)
AutoApprovalCovered == [][\A l \in Listing :
  (\E c \in Claim : Exists(c) /\ claim[c].lst = l /\ claim[c].review = None
                     /\ claim'[c].review = "AUTO")
    => TotalApprovedLoss(l)' <= Capacity[l]]_vars

(* A claim on which no process dies is paid in the end once it has been    *)
(* approved, by whatever path, also when it competes for the capacity with *)
(* a claim whose handlers died half-way.                                   *)
ApprovedIsPaid ==
  \A c \in Claim \ Crashes :
    (Exists(c) /\ claim[c].status = "APPROVED") ~> Paid(c)
=============================================================================

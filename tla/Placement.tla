----------------------------- MODULE Placement -----------------------------
(***************************************************************************)
(* How a risk gets to the market: SubmissionService moves a submission     *)
(* through its workflow, UnderwritingService assesses the risk and records *)
(* human decisions, and MarketplaceService lists a submission that is      *)
(* ready on a risk that is cleared.  Every request is a process and each   *)
(* awaited repository call is one step; of the audit, which only grows,    *)
(* the records of listings are kept.  Callers without the role or the       *)
(* organisation that a handler asks for are refused before anything        *)
(* changes and are left out.                                               *)
(***************************************************************************)
EXTENDS Scoring

CONSTANTS
  Submission,      \* ids of submissions
  Risk,            \* ids of risk nodes
  RiskOf,          \* the risk a submission is about
  Inputs,          \* what underwriters declare about a risk
  Request,         \* slots for requests that are handled concurrently
  MaxAssessments,  \* bound: assessments of a risk
  MaxApprovals,    \* bound: decisions on a risk
  MaxVersion,      \* bound: releases of the assessment model
  Crashes,         \* TRUE if a process may die in the middle of a handler
  None             \* no value

VARIABLES
  submission,   \* the status of each RiskSubmission row, None before it exists
  assessments,  \* the UnderwritingAssessment rows of each risk, oldest first
  approvals,    \* its UnderwritingApproval rows, oldest first
  listing,      \* the MarketListing row of a submission, and as history what it
                \* was cleared on, whether that was out of date, and whether a
                \* bind has matched it
  version,      \* UNDERWRITING_MODEL_VERSION of the running release
  audit,        \* AuditRecords of listings
  req,          \* where each request is in its handler, and what it has read
  overlapped,   \* history: submissions of which two advances overlapped
  untold        \* history: listings whose request died before the audit

rows == <<submission, assessments, approvals, listing>>
vars == <<rows, version, audit, req, overlapped, untold>>

ASSUME PlacementAssumption ==
  /\ RiskOf \in [Submission -> Risk]
  /\ \A input \in Inputs : input \in FactorsInput
  /\ \A n \in {MaxAssessments, MaxApprovals, MaxVersion} : n \in Nat \ {0}
  /\ Crashes \in BOOLEAN

Status == <<"DRAFT", "SUBMITTED", "ANALYSING", "SCORED", "READY_FOR_UNDERWRITING">>
Statuses == {Status[i] : i \in 1 .. 5}
Rank(status) == CHOOSE i \in 1 .. 5 : Status[i] = status

(* TRANSITIONS: one step ahead. *)
Transition(from, to) == Rank(to) = Rank(from) + 1

Decisions == {"APPROVED", "REJECTED"}

(* The inputs that scoreRisk and assessUnderwriting do not refuse. *)
Assessable == {input \in Inputs : Scorable(input) /\ input.currency = Thresholds.currency}

(* What assess stores under a release, and as history what it is from. *)
AssessmentOf(input, v) ==
  LET a == AssessUnderwriting(ScoreRisk(input)) IN
  [band |-> a.band, human |-> a.human, eligible |-> a.eligible, confidence |-> a.confidence,
   expected |-> a.expected, premium |-> a.premium, capital |-> a.capital,
   capacity |-> a.capacity, notes |-> a.notes, version |-> v, of |-> input]
AssessmentRow == {AssessmentOf(input, v) : input \in Assessable, v \in 1 .. MaxVersion}
ApprovalRow == [of : Nat, version : 1 .. MaxVersion, decision : Decisions]
ListingRow == [status : {"OPEN", "MATCHED", "WITHDRAWN"}, a : Nat, p : Nat, stale : BOOLEAN,
               matched : BOOLEAN]

Assessment(input) == AssessmentOf(input, version)

(* No value is not taken for a row. *)
ASSUME RowAssumption == None \notin ListingRow \cup Statuses

(* createAssessment, createApproval, createListing and setListingStatus. *)
InsertAssessment(k, row) == assessments' = [assessments EXCEPT ![k] = Append(@, row)]
InsertApproval(k, row) == approvals' = [approvals EXCEPT ![k] = Append(@, row)]
InsertListing(s, row) == listing' = [listing EXCEPT ![s] = row]
SetListingStatus(s, status) == listing' = [listing EXCEPT ![s].status = status]

(* latestAssessment and latestApproval, 0 if there is none. *)
LatestAssessment(k) == Len(assessments[k])
LatestApproval(k) == Len(approvals[k])

(* submissions.create and advance, which looks at no status; find. *)
InsertSubmission(s) == submission' = [submission EXCEPT ![s] = "DRAFT"]
SetSubmissionStatus(s, to) == submission' = [submission EXCEPT ![s] = to]
Found(s) == submission[s] # None

(* findListingBySubmission *)
Listed(s) == listing[s] # None

(* Mutant of Clears: a decision of any kind will do. *)
ClearsIfDecided(k, a, p) ==
  /\ a # 0
  /\ LET assessment == assessments[k][a] IN
     assessment.human =>
       p # 0 /\ approvals[k][p].version = assessment.version

(***************************************************************************)
(* requireClearance on the a-th assessment and the p-th approval of a      *)
(* risk, 0 when there is none: requireApprovalIfNeeded.                    *)
(***************************************************************************)
Clears(k, a, p) ==
  /\ a # 0
  /\ LET assessment == assessments[k][a] IN
     assessment.human =>
       /\ p # 0
       /\ approvals[k][p].version = assessment.version
       /\ approvals[k][p].decision = "APPROVED"

(* The risk is clear to proceed, read at one moment. *)
ClearNow(k) == Clears(k, LatestAssessment(k), LatestApproval(k))

-----------------------------------------------------------------------------
Idle == [pc |-> "idle", id |-> None, to |-> None, a |-> 0, p |-> 0,
         stale |-> FALSE]

At(r, pc) == req[r].pc = pc
Become(r, q) == req' = [req EXCEPT ![r] = q]
Goto(r, pc) == Become(r, [req[r] EXCEPT !.pc = pc])

(* A listing request between its reads and its insert. *)
Listing(r) == req[r].pc \in {"list.approval", "list.existing", "list.insert"}

(* A write about risk k makes what such requests have read out of date. *)
Outdated(k, q) ==
  [s \in Request |-> IF Listing(s) /\ RiskOf[req[s].id] = k
                     THEN [q[s] EXCEPT !.stale = TRUE] ELSE q[s]]

-----------------------------------------------------------------------------
(* SubmissionService.create on an existing risk of the caller. *)
CreateSubmission(r, s) ==
  /\ At(r, "idle")
  /\ ~ Found(s)
  /\ InsertSubmission(s)
  /\ UNCHANGED <<assessments, approvals, listing, version, audit, req, overlapped, untold>>

(* advance: find, and the transition is checked on what was found. *)
AdvanceFind(r, s, to) ==
  /\ At(r, "idle")
  /\ Found(s)
  /\ Transition(submission[s], to)
  /\ Become(r, [Idle EXCEPT !.pc = "advance", !.id = s, !.to = to])
  /\ overlapped' = IF \E t \in Request : At(t, "advance") /\ req[t].id = s
                   THEN overlapped \cup {s} ELSE overlapped
  /\ UNCHANGED <<rows, version, audit, untold>>

(* submissions.advance: an update without a condition on the old status. *)
Advance(r) ==
  /\ At(r, "advance")
  /\ SetSubmissionStatus(req[r].id, req[r].to)
  /\ Become(r, Idle)
  /\ UNCHANGED <<assessments, approvals, listing, version, audit, overlapped, untold>>

(* UnderwritingService.assess: the score is computed and stored. *)
Assess(r, k, input) ==
  /\ At(r, "idle")
  /\ input \in Assessable
  /\ Len(assessments[k]) < MaxAssessments
  /\ InsertAssessment(k, Assessment(input))
  /\ req' = Outdated(k, req)
  /\ UNCHANGED <<submission, approvals, listing, version, audit, overlapped, untold>>

(* approve: the latest assessment is read, *)
ApproveFind(r, k, decision) ==
  /\ At(r, "idle")
  /\ LatestAssessment(k) # 0
  /\ Len(approvals[k]) < MaxApprovals
  /\ Become(r, [Idle EXCEPT !.pc = "approve", !.id = k, !.to = decision,
                            !.a = LatestAssessment(k)])
  /\ UNCHANGED <<rows, version, audit, overlapped, untold>>

(* and the decision on it is stored. *)
Approve(r) ==
  LET k == req[r].id IN
  /\ At(r, "approve")
  /\ Len(approvals[k]) < MaxApprovals
  /\ InsertApproval(k, [of |-> req[r].a, version |-> assessments[k][req[r].a].version,
                        decision |-> req[r].to])
  /\ req' = Outdated(k, [req EXCEPT ![r] = Idle])
  /\ UNCHANGED <<submission, assessments, listing, version, audit, overlapped, untold>>

-----------------------------------------------------------------------------
(* listSubmission: the submission is found and is ready. *)
ListFind(r, s) ==
  /\ At(r, "idle")
  /\ submission[s] = "READY_FOR_UNDERWRITING"
  /\ Become(r, [Idle EXCEPT !.pc = "list.assessment", !.id = s])
  /\ UNCHANGED <<rows, version, audit, overlapped, untold>>

(* Mutant of ListAssessment: the assessment the risk started with. *)
ListAssessmentFirst(r) ==
  LET k == RiskOf[req[r].id] IN
  /\ At(r, "list.assessment")
  /\ Become(r, IF assessments[k] = <<>> THEN Idle
               ELSE [req[r] EXCEPT !.pc = "list.approval", !.a = 1])
  /\ UNCHANGED <<rows, version, audit, overlapped, untold>>

(* requireClearance: latestAssessment, *)
ListAssessment(r) ==
  LET k == RiskOf[req[r].id] IN
  /\ At(r, "list.assessment")
  /\ Become(r, IF assessments[k] = <<>> THEN Idle
               ELSE [req[r] EXCEPT !.pc = "list.approval", !.a = LatestAssessment(k)])
  /\ UNCHANGED <<rows, version, audit, overlapped, untold>>

(* then latestApproval, and the gate on the two. *)
ListApproval(r) ==
  LET k == RiskOf[req[r].id]
      p == LatestApproval(k)
  IN
  /\ At(r, "list.approval")
  /\ Become(r, IF Clears(k, req[r].a, p)
               THEN [req[r] EXCEPT !.pc = "list.existing", !.p = p] ELSE Idle)
  /\ UNCHANGED <<rows, version, audit, overlapped, untold>>

(* findListingBySubmission *)
ListExisting(r) ==
  /\ At(r, "list.existing")
  /\ IF Listed(req[r].id) THEN Become(r, Idle) ELSE Goto(r, "list.insert")
  /\ UNCHANGED <<rows, version, audit, overlapped, untold>>

(* The listing a request has cleared. *)
Cleared(r) == [status |-> "OPEN", a |-> req[r].a, p |-> req[r].p, stale |-> req[r].stale,
               matched |-> FALSE]

(* createListing: submissionId is unique, a second insert fails. *)
ListInsert(r) ==
  /\ At(r, "list.insert")
  /\ IF Listed(req[r].id)
     THEN Become(r, Idle) /\ UNCHANGED listing
     ELSE InsertListing(req[r].id, Cleared(r)) /\ Goto(r, "list.audit")
  /\ UNCHANGED <<submission, assessments, approvals, version, audit, overlapped, untold>>

(* audit.record of a listing or of its withdrawal. *)
ListAudit(r) ==
  /\ req[r].pc \in {"list.audit", "withdraw.audit"}
  /\ audit' = audit \cup {<<IF At(r, "list.audit") THEN "create" ELSE "withdraw", req[r].id>>}
  /\ Become(r, Idle)
  /\ UNCHANGED <<rows, version, overlapped, untold>>

(* withdrawListing: the status is written whatever it was. *)
WithdrawListing(r, s) ==
  /\ At(r, "idle")
  /\ Listed(s)
  /\ SetListingStatus(s, "WITHDRAWN")
  /\ Become(r, [Idle EXCEPT !.pc = "withdraw.audit", !.id = s])
  /\ UNCHANGED <<submission, assessments, approvals, version, audit, overlapped, untold>>

(***************************************************************************)
(* The write of SyndicationService.bind to the listing, when it has bound  *)
(* the listing's one syndication: MATCHED, also where the owner has        *)
(* withdrawn the listing meanwhile.  Before it was opened the syndication  *)
(* needed an OPEN listing, and it is bound once (Syndication).             *)
(***************************************************************************)
BindMatches(s) ==
  /\ Listed(s)
  /\ ~ listing[s].matched
  /\ listing' = [listing EXCEPT ![s].status = "MATCHED", ![s].matched = TRUE]
  /\ UNCHANGED <<submission, assessments, approvals, version, audit, req, overlapped, untold>>

(* The process dies: the request never continues. *)
Crash(r) ==
  /\ Crashes
  /\ ~ At(r, "idle")
  /\ Become(r, Idle)
  /\ untold' = IF At(r, "list.audit") THEN untold \cup {req[r].id} ELSE untold
  /\ UNCHANGED <<rows, version, audit, overlapped>>

(* A release with another assessment model: the process restarts. *)
Release ==
  /\ version < MaxVersion
  /\ version' = version + 1
  /\ \A r \in Request : At(r, "idle")
  /\ UNCHANGED <<rows, audit, req, overlapped, untold>>

-----------------------------------------------------------------------------
Init ==
  /\ submission = [s \in Submission |-> None]
  /\ assessments = [k \in Risk |-> <<>>]
  /\ approvals = [k \in Risk |-> <<>>]
  /\ listing = [s \in Submission |-> None]
  /\ version = 1
  /\ audit = {}
  /\ req = [r \in Request |-> Idle]
  /\ overlapped = {}
  /\ untold = {}

Call(r) ==
  \/ \E s \in Submission : CreateSubmission(r, s) \/ ListFind(r, s) \/ WithdrawListing(r, s)
  \/ \E s \in Submission, to \in Statuses : AdvanceFind(r, s, to)
  \/ \E k \in Risk, input \in Inputs : Assess(r, k, input)
  \/ \E k \in Risk, decision \in Decisions : ApproveFind(r, k, decision)

Step(r) ==
  \/ Advance(r) \/ Approve(r)
  \/ ListAssessment(r) \/ ListApproval(r) \/ ListExisting(r) \/ ListInsert(r) \/ ListAudit(r)

Next ==
  \/ Release \/ \E s \in Submission : BindMatches(s)
  \/ \E r \in Request : Call(r) \/ Step(r) \/ Crash(r)

Spec == Init /\ [][Next]_vars

-----------------------------------------------------------------------------
Pcs == {"idle", "advance", "approve", "list.assessment", "list.approval", "list.existing",
        "list.insert", "list.audit", "withdraw.audit"}

(* Type invariant. *)
TypeOK ==
  /\ submission \in [Submission -> Statuses \cup {None}]
  /\ assessments \in [Risk -> Seq(AssessmentRow)]
  /\ approvals \in [Risk -> Seq(ApprovalRow)]
  /\ listing \in [Submission -> ListingRow \cup {None}]
  /\ version \in 1 .. MaxVersion
  /\ audit \subseteq {"create", "withdraw"} \X Submission
  /\ req \in [Request -> [pc : Pcs, id : Submission \cup Risk \cup {None},
                          to : Statuses \cup Decisions \cup {None}, a : Nat, p : Nat,
                          stale : BOOLEAN]]
  /\ overlapped \cup untold \subseteq Submission
  /\ \A k \in Risk : Len(assessments[k]) <= MaxAssessments /\ Len(approvals[k]) <= MaxApprovals

(***************************************************************************)
(* Whatever is listed stands on a clearance: an assessment that exists,    *)
(* and, unless its band is LOW, an approval under the same model that says *)
(* APPROVED.  What it stands on stays on record, through overlapping       *)
(* requests, crashes and releases.                                         *)
(***************************************************************************)
Assessed(s) == assessments[RiskOf[s]][listing[s].a]
Approved(s) ==
  /\ listing[s].p \in 1 .. Len(approvals[RiskOf[s]])
  /\ approvals[RiskOf[s]][listing[s].p].decision = "APPROVED"
  /\ approvals[RiskOf[s]][listing[s].p].version = Assessed(s).version

ListedOnClearance ==
  \A s \in Submission : listing[s] # None =>
    /\ listing[s].a \in 1 .. Len(assessments[RiskOf[s]])
    /\ Assessed(s).band # "LOW" => Approved(s)

(***************************************************************************)
(* Automation is earned: what is listed without a human approval was       *)
(* assessed on declared factors, every one of them known with the          *)
(* confidence that automation asks for, and its expected loss is under the *)
(* absolute ceiling.                                                       *)
(***************************************************************************)
LargeNeedsHuman ==
  \A s \in Submission :
    listing[s] # None /\ Assessed(s).expected > Thresholds.ceiling => Approved(s)

UnsureNeedsHuman ==
  \A s \in Submission : listing[s] # None /\ ~ Approved(s) =>
    /\ Assessed(s).of.factors # <<>>
    /\ \A i \in DOMAIN Assessed(s).of.factors :
         Assessed(s).of.factors[i].confidence >= Thresholds.confidence

(***************************************************************************)
(* A listed risk is priced prudently, however little is known about it:    *)
(* the premium is at least the expected loss, its range is a range, and    *)
(* the capital asked for is between the expected loss and what can be lost.*)
(***************************************************************************)
PricedPrudently ==
  \A s \in Submission : listing[s] # None =>
    LET assessed == Assessed(s) IN
    /\ assessed.expected <= assessed.premium.low
    /\ assessed.premium.low <= assessed.premium.high
    /\ assessed.expected <= assessed.capital /\ assessed.capital <= assessed.capacity

(* What the assessment of a listed risk can be relied on for: its amounts  *)
(* are amounts, its band and notes are known ones, and the above.          *)
AssessedPrudently ==
  /\ LargeNeedsHuman /\ UnsureNeedsHuman /\ PricedPrudently
  /\ \A s \in Submission : listing[s] # None =>
       LET assessed == Assessed(s) IN
       /\ assessed.band \in Bands /\ assessed.confidence \in Percent
       /\ {assessed.expected, assessed.premium.low, assessed.premium.high, assessed.capital,
           assessed.capacity} \subseteq Nat

(***************************************************************************)
(* "re-checked, not cached": a submission is listed while its risk is      *)
(* clear, unless an assessment or a decision was recorded between the      *)
(* reads of the clearance and the insert.                                  *)
(***************************************************************************)
ListedWhenClear ==
  [][\A s \in Submission :
       listing[s] = None /\ listing'[s] # None /\ ~ listing'[s].stale => ClearNow(RiskOf[s])]_vars

(* A listed submission has left the workflow at its end and does not go    *)
(* back, unless two requests advanced it at the same time.                 *)
ListedIsReady ==
  \A s \in Submission :
    listing[s] # None /\ s \notin overlapped => submission[s] = "READY_FOR_UNDERWRITING"

(* No longer OPEN, and MATCHED only by a bind. *)
Closed(row) == row.status = "WITHDRAWN" \/ (row.status = "MATCHED" /\ row.matched)

(* A listing is in the audit trail, or its request is about to write it or *)
(* died first; nothing is in the trail that did not happen.  A listing     *)
(* whose withdrawal is in the trail is WITHDRAWN, unless a bind that was   *)
(* under way has matched it, before or after; it is never OPEN again.      *)
AuditTold ==
  \A s \in Submission :
    /\ listing[s] # None =>
         \/ <<"create", s>> \in audit \/ s \in untold
         \/ \E r \in Request : At(r, "list.audit") /\ req[r].id = s
    /\ <<"create", s>> \in audit => listing[s] # None
    /\ <<"withdraw", s>> \in audit => listing[s] # None /\ Closed(listing[s])

(***************************************************************************)
(* What a request under way rests on: the submission that is advanced is   *)
(* one step behind, and no other request is about to advance it, unless    *)
(* two overlapped; the rows that a listing is cleared on exist and clear   *)
(* it, and are the latest as long as nothing outdates them.                *)
(***************************************************************************)
Knows(q) ==
  LET k == RiskOf[q.id] IN
  /\ q.pc = "advance" =>
       /\ q.id \in Submission /\ Found(q.id) /\ q.to \in Statuses
       /\ q.id \notin overlapped => Transition(submission[q.id], q.to)
  /\ q.pc = "approve" =>
       q.id \in Risk /\ q.to \in Decisions /\ q.a \in 1 .. Len(assessments[q.id])
  /\ q.pc \in {"list.assessment", "list.approval", "list.existing", "list.insert"} =>
       /\ q.id \in Submission /\ Found(q.id)
       /\ q.id \notin overlapped => submission[q.id] = "READY_FOR_UNDERWRITING"
  /\ q.pc \in {"list.approval", "list.existing", "list.insert"} =>
       /\ q.a \in 1 .. Len(assessments[k])
       /\ ~ q.stale => q.a = LatestAssessment(k)
  /\ q.pc \in {"list.existing", "list.insert"} =>
       /\ q.p \in 0 .. Len(approvals[k]) /\ Clears(k, q.a, q.p)
       /\ ~ q.stale => q.p = LatestApproval(k)
  /\ q.pc \in {"list.audit", "withdraw.audit"} => q.id \in Submission /\ Listed(q.id)
  /\ q.pc = "withdraw.audit" => Closed(listing[q.id])
HandlersKnow ==
  /\ \A r \in Request : Knows(req[r])
  /\ \A r, t \in Request :
       At(r, "advance") /\ At(t, "advance") /\ req[r].id = req[t].id
         => r = t \/ req[r].id \in overlapped

(* What is listed, the workflow it came through and the audit trail agree, *)
(* whatever requests overlap and die and whatever is released meanwhile.   *)
Inv == TypeOK /\ ListedOnClearance /\ ListedIsReady /\ AuditTold /\ HandlersKnow
=============================================================================

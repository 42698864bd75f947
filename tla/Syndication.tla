---------------------------- MODULE Syndication ----------------------------
(***************************************************************************)
(* The syndication of listings: SyndicationService and the parts of        *)
(* MarketplaceService and CapitalService whose state it reads.             *)
(*                                                                         *)
(* Every HTTP request is a handler that runs as a process of its own: each *)
(* await of a repository call is one step, and what a handler read in an   *)
(* earlier step may be stale in a later one.  The state is the database    *)
(* (PostgreSQL behind the Prisma repositories); a $transaction is one      *)
(* step.  Requests that the role and tenant checks refuse change nothing   *)
(* and are left out: providers propose and withdraw, the owner of the      *)
(* listing opens and binds.                                                *)
(***************************************************************************)
EXTENDS Money

CONSTANTS
  Listing,         \* the listings, each with at most one syndication
  Provider,        \* the capital providers
  Request,         \* slots for requests that are handled concurrently
  RowId,           \* ids of allocation rows; bounds the number of proposals
  FullAllocation,  \* FULL_ALLOCATION_BPS: 10000 in the code
  Shares,          \* the shares providers propose
  Ceilings,        \* the capital commitments providers set
  Exposures,       \* the maximum exposures providers declare
  Capacity,        \* the capacity of each listing
  Operations,      \* the operations that are called in this instance
  Crashes,         \* TRUE if a process may die in the middle of a handler
  Owner, None      \* model values: the listing owner, the absence of a value

ASSUME ConstantsAssumption ==
  /\ FullAllocation \in Nat \ {0}
  /\ Shares \subseteq 1 .. FullAllocation
  /\ Ceilings \subseteq Nat \ {0}
  /\ Exposures \subseteq Nat
  /\ Capacity \in [Listing -> Nat \ {0}]
  /\ Crashes \in BOOLEAN
  /\ Owner \notin Provider
  /\ None \notin Listing \cup Provider \cup RowId \cup Nat

VARIABLES
  listing,     \* MarketListing.status
  interest,    \* the providers with a live CapitalInterest, by listing
  commitment,  \* CapitalCommitment, by provider
  exposure,    \* CapitalAppetiteProfile.maxExposure, by provider
  synd,        \* Syndication.status, "NONE" when there is no row
  alloc,       \* SyndicationAllocation, unique by listing and provider
  proposed,    \* the PROPOSED events, by the id of the allocation row
  removed,     \* the ids with a REMOVED event
  bound,       \* the BOUND events, unique by syndication and provider
  audit,       \* the AuditRecords of the four syndication operations
  req          \* where each request is in its handler, and what it has read

history == <<proposed, removed, bound>>
market  == <<listing, interest, commitment, exposure>>
vars    == <<listing, interest, commitment, exposure, synd, alloc,
             proposed, removed, bound, audit, req>>

(* "NONE" is the absence of a row; nothing in the code sets CANCELLED. *)
SyndicationStatus == {"NONE", "OPEN", "BOUND"}
ListingStatus == {"OPEN", "MATCHED", "WITHDRAWN"}

Row   == [id : RowId, share : 1 .. FullAllocation, amount : Nat]
Terms == [share : 1 .. FullAllocation, amount : Nat]
Proposal == [lst : Listing, org : Provider,
             share : 1 .. FullAllocation, amount : Nat]

ASSUME NoneAssumption == None \notin Row \cup Terms \cup Proposal

NoRows == [p \in Provider |-> None]
Idle == [pc |-> "idle", org |-> Owner, lst |-> None, share |-> 0,
         ceiling |-> 0, final |-> NoRows, found |-> NoRows,
         row |-> None, gone |-> FALSE]

-----------------------------------------------------------------------------
(* Reads of the allocation table. *)

Holders(rows) == {p \in Provider : rows[p] # None}
TotalShare(rows) == SumOver([p \in Holders(rows) |-> rows[p].share], Holders(rows))
Amounts(rows) == [p \in Holders(rows) |-> rows[p].amount]
TotalAmount(rows) == SumOver(Amounts(rows), Holders(rows))

(* allocated + reserved of computePosition: every row of the provider, the *)
(* BOUND ones and the OPEN ones.                                           *)
Committed(p) ==
  SumOver([l \in {k \in Listing : alloc[k][p] # None} |-> alloc[l][p].amount],
          {k \in Listing : alloc[k][p] # None})

(* Mutant of Available: what is reserved in OPEN syndications is not counted. *)
AvailableIgnoringReserved(p, ceiling) ==
  LET allocated == {k \in Listing : alloc[k][p] # None /\ synd[k] = "BOUND"}
      used == SumOver([l \in allocated |-> alloc[l][p].amount], allocated)
  IN  IF used >= ceiling THEN 0 ELSE ceiling - used

(* available: the ceiling less what is used, never below zero. *)
Available(p, ceiling) ==
  IF Committed(p) >= ceiling THEN 0 ELSE ceiling - Committed(p)

(* The amount a share of the listing's capacity stands for. *)
Indicative(l, share) == ScaleMoney(Capacity[l], share, FullAllocation)

(* Mutant of FinalAllocations: the indicative amounts are taken as they are. *)
IndicativeAllocations(l, rows) ==
  {[p \in Provider |-> IF rows[p] = None THEN None
                      ELSE [share |-> rows[p].share, amount |-> rows[p].amount]]}

(* Mutant of FinalAllocations: the capacity is split equally. *)
EqualAllocations(l, rows) ==
  LET n == Cardinality(Holders(rows)) IN
  {[p \in Provider |-> IF rows[p] = None THEN None
                      ELSE [share |-> FullAllocation \div n,
                            amount |-> Capacity[l] \div n]]}

(* bindAllocations: the final terms for the rows that were read, for every *)
(* order the database may return them in.                                  *)
FinalAllocations(l, rows) ==
  LET weights == [p \in Holders(rows) |-> rows[p].share]
  IN  {[p \in Provider |->
          IF p \in Holders(rows)
            THEN [share |-> rows[p].share, amount |-> parts[p]]
            ELSE None] : parts \in AllocateMoney(Capacity[l], weights)}

(* listInterests, findAppetite, upsertAppetite, findCommitment and          *)
(* upsertCommitment.  A provider has one profile and one commitment, and    *)
(* an upsert looks at nothing that has been allocated.                      *)
HasInterest(p, l) == p \in interest[l]
AppetiteOf(p) == exposure[p]
UpsertAppetite(p, e) == exposure' = [exposure EXCEPT ![p] = e]
CommitmentOf(p) == commitment[p]
UpsertCommitment(p, c) == commitment' = [commitment EXCEPT ![p] = c]

(* The steps of a proposal that has not reached its insert yet. *)
ProposalSteps == {"propose.interest", "propose.list", "propose.appetite",
  "propose.commitment", "propose.position", "propose.recheck", "propose.insert"}

(* Row ids no proposal has used yet, beyond those in-flight proposals need. *)
Unused == {i \in RowId : proposed[i] = None}
Proposing == {r \in Request : req[r].pc \in ProposalSteps}

-----------------------------------------------------------------------------
(* How a handler moves on. *)

At(r, pc) == req[r].pc = pc
Become(r, q) == req' = [req EXCEPT ![r] = q]
Goto(r, pc) == Become(r, [req[r] EXCEPT !.pc = pc])
Finish(r) == Become(r, Idle)
(* A check that throws ends the request; one that passes goes on to pc. *)
Require(r, condition, pc) == IF condition THEN Goto(r, pc) ELSE Finish(r)

Begin(r, pc, p, l, s) ==
  /\ At(r, "idle")
  /\ Become(r, [Idle EXCEPT !.pc = pc, !.org = p, !.lst = l, !.share = s])

(* What a handler writes into its audit record.  The row it is about, and  *)
(* whether the handler changed anything itself, are history: the code      *)
(* records the action, the syndication and the caller.                     *)
Entry(q, action) ==
  [action |-> action, lst |-> q.lst, org |-> q.org, row |-> q.row, own |-> ~ q.gone]

(* audit.record: awaited after the change, a write of its own. *)
Record(r, pc, action) ==
  /\ At(r, pc)
  /\ audit' = audit \cup {Entry(req[r], action)}
  /\ Finish(r)
  /\ UNCHANGED <<market, synd, alloc, history>>

-----------------------------------------------------------------------------
(* SyndicationService.open *)

(* findListing and the status check. *)
OpenStart(r, l) ==
  /\ listing[l] = "OPEN"
  /\ Begin(r, "open.find", Owner, l, 0)
  /\ UNCHANGED <<market, synd, alloc, history, audit>>

(* findByListing: refused when the listing already has a syndication. *)
OpenFind(r) ==
  /\ At(r, "open.find")
  /\ Require(r, synd[req[r].lst] = "NONE", "open.create")
  /\ UNCHANGED <<market, synd, alloc, history, audit>>

(* create: listingId is unique, so the second of two concurrent calls fails. *)
OpenCreate(r) ==
  LET l == req[r].lst IN
  /\ At(r, "open.create")
  /\ Require(r, synd[l] = "NONE", "open.audit")
  /\ synd' = IF synd[l] = "NONE" THEN [synd EXCEPT ![l] = "OPEN"] ELSE synd
  /\ UNCHANGED <<market, alloc, history, audit>>

-----------------------------------------------------------------------------
(* SyndicationService.propose *)

(* requireOpenSyndication. *)
ProposeStart(r, p, l, s) ==
  /\ synd[l] = "OPEN"
  /\ Cardinality(Proposing) < Cardinality(Unused)   \* bound: RowId
  /\ Begin(r, "propose.interest", p, l, s)
  /\ UNCHANGED <<market, synd, alloc, history, audit>>

(* listInterests: NO_LIVE_INTEREST. *)
ProposeInterest(r) ==
  /\ At(r, "propose.interest")
  /\ Require(r, HasInterest(req[r].org, req[r].lst), "propose.list")
  /\ UNCHANGED <<market, synd, alloc, history, audit>>

(* Mutant of FitsSyndication: the shares of the others are not added. *)
FitsAlone(rows, p, s) == rows[p] = None /\ s <= FullAllocation

(* proposeAllocation refuses a second row and a total above 100%.  Its     *)
(* input is listAllocations, read here; the exposure check waits for the   *)
(* appetite that is read next, and none of them changes anything.          *)
FitsSyndication(rows, p, s) ==
  /\ rows[p] = None
  /\ TotalShare(rows) + s <= FullAllocation

ProposeList(r) ==
  /\ At(r, "propose.list")
  /\ Require(r, FitsSyndication(alloc[req[r].lst], req[r].org, req[r].share),
             "propose.appetite")
  /\ UNCHANGED <<market, synd, alloc, history, audit>>

(* findAppetite: EXPOSURE_LIMIT_EXCEEDED, when the provider has a profile. *)
ProposeAppetite(r) ==
  LET limit == AppetiteOf(req[r].org) IN
  /\ At(r, "propose.appetite")
  /\ Require(r, limit = None \/ Indicative(req[r].lst, req[r].share) <= limit,
             "propose.commitment")
  /\ UNCHANGED <<market, synd, alloc, history, audit>>

(* findCommitment: NO_CAPITAL_COMMITMENT, else the ceiling is kept. *)
ProposeCommitment(r) ==
  LET ceiling == CommitmentOf(req[r].org) IN
  /\ At(r, "propose.commitment")
  /\ IF ceiling = None
       THEN Finish(r)
       ELSE Become(r, [req[r] EXCEPT !.pc = "propose.position", !.ceiling = ceiling])
  /\ UNCHANGED <<market, synd, alloc, history, audit>>

(* listAllocationsForOrganisation, computePosition and                     *)
(* requireCapacityForProposal: INSUFFICIENT_COMMITTED_CAPITAL.             *)
ProposePosition(r) ==
  /\ At(r, "propose.position")
  /\ Require(r, Indicative(req[r].lst, req[r].share)
                  <= Available(req[r].org, req[r].ceiling), "propose.recheck")
  /\ UNCHANGED <<market, synd, alloc, history, audit>>

(* addAllocation reads the status again, outside its transaction. *)
ProposeRecheck(r) ==
  /\ At(r, "propose.recheck")
  /\ Require(r, synd[req[r].lst] = "OPEN", "propose.insert")
  /\ UNCHANGED <<market, synd, alloc, history, audit>>

(* The transaction of addAllocation: the row and its PROPOSED event.  The  *)
(* unique key refuses a second row; no trigger looks at an INSERT, so the  *)
(* status of the syndication is not checked.                               *)
ProposeInsert(r) ==
  LET p == req[r].org
      l == req[r].lst
      s == req[r].share
      a == Indicative(l, s)
  IN
  /\ At(r, "propose.insert")
  /\ IF alloc[l][p] = None
       THEN /\ \E i \in Unused :
                 /\ alloc' = [alloc EXCEPT ![l][p] = [id |-> i, share |-> s, amount |-> a]]
                 /\ proposed' = [proposed EXCEPT ![i] =
                                   [lst |-> l, org |-> p, share |-> s, amount |-> a]]
                 /\ Become(r, [req[r] EXCEPT !.pc = "propose.audit", !.row = i])
       ELSE /\ Finish(r)
            /\ UNCHANGED <<alloc, proposed>>
  /\ UNCHANGED <<market, synd, removed, bound, audit>>

-----------------------------------------------------------------------------
(* SyndicationService.withdraw *)

(* requireOpenSyndication. *)
WithdrawStart(r, p, l) ==
  /\ synd[l] = "OPEN"
  /\ Begin(r, "withdraw.list", p, l, 0)
  /\ UNCHANGED <<market, synd, alloc, history, audit>>

(* listAllocations and the domain's removeAllocation: ALLOCATION_NOT_FOUND. *)
WithdrawList(r) ==
  LET row == alloc[req[r].lst][req[r].org] IN
  /\ At(r, "withdraw.list")
  /\ IF row = None THEN Finish(r)
     ELSE Become(r, [req[r] EXCEPT !.pc = "withdraw.recheck", !.row = row.id])
  /\ UNCHANGED <<market, synd, alloc, history, audit>>

(* The repository's removeAllocation reads the status again. *)
WithdrawRecheck(r) ==
  /\ At(r, "withdraw.recheck")
  /\ Require(r, synd[req[r].lst] = "OPEN", "withdraw.find")
  /\ UNCHANGED <<market, synd, alloc, history, audit>>

(* findUnique.  When the row has gone, removeAllocation returns as if it   *)
(* had removed it, and the service records a withdrawal all the same.      *)
WithdrawFind(r) ==
  LET row == alloc[req[r].lst][req[r].org] IN
  /\ At(r, "withdraw.find")
  /\ IF row = None
       THEN Become(r, [req[r] EXCEPT !.pc = "withdraw.audit", !.gone = TRUE])
       ELSE Become(r, [req[r] EXCEPT !.pc = "withdraw.delete", !.row = row.id])
  /\ UNCHANGED <<market, synd, alloc, history, audit>>

(* Mutant of Deletable: the row is looked up by its key, not by its id. *)
DeletableByKey(l, p, i) == alloc[l][p] # None /\ synd[l] # "BOUND"

(* Mutant of Deletable: there is no trigger on DELETE. *)
DeletableWithoutTrigger(l, p, i) == alloc[l][p] # None /\ alloc[l][p].id = i

(* The row with this id may still be deleted: it exists, and the trigger   *)
(* that freezes the rows of a BOUND syndication does not refuse.           *)
Deletable(l, p, i) ==
  /\ alloc[l][p] # None
  /\ alloc[l][p].id = i
  /\ synd[l] # "BOUND"

(* Mutant of WithdrawDelete: a failed transaction is swallowed. *)
WithdrawDeleteSwallowed(r) ==
  LET p == req[r].org
      l == req[r].lst
      i == req[r].row
      ok == Deletable(l, p, i)
  IN
  /\ At(r, "withdraw.delete")
  /\ Goto(r, "withdraw.audit")
  /\ alloc' = IF ok THEN [alloc EXCEPT ![l][p] = None] ELSE alloc
  /\ removed' = IF ok THEN removed \cup {i} ELSE removed
  /\ UNCHANGED <<market, synd, proposed, bound, audit>>

(* The transaction: the REMOVED event and the deletion, by row id. *)
WithdrawDelete(r) ==
  LET p == req[r].org
      l == req[r].lst
      i == req[r].row
      ok == Deletable(l, p, i)
  IN
  /\ At(r, "withdraw.delete")
  /\ Require(r, ok, "withdraw.audit")
  /\ alloc' = IF ok THEN [alloc EXCEPT ![l][p] = None] ELSE alloc
  /\ removed' = IF ok THEN removed \cup {i} ELSE removed
  /\ UNCHANGED <<market, synd, proposed, bound, audit>>

-----------------------------------------------------------------------------
(* SyndicationService.bind *)

(* requireOpenSyndication. *)
BindStart(r, l) ==
  /\ synd[l] = "OPEN"
  /\ Begin(r, "bind.list", Owner, l, 0)
  /\ UNCHANGED <<market, synd, alloc, history, audit>>

(* listAllocations and bindAllocations: INCOMPLETE_ALLOCATION unless the   *)
(* shares read sum to 100%, else the exact amounts are computed from them. *)
BindList(r) ==
  LET l == req[r].lst IN
  /\ At(r, "bind.list")
  /\ IF TotalShare(alloc[l]) = FullAllocation
       THEN \E f \in FinalAllocations(l, alloc[l]) :
              Become(r, [req[r] EXCEPT !.pc = "bind.find", !.final = f])
       ELSE Finish(r)
  /\ UNCHANGED <<market, synd, alloc, history, audit>>

(* The repository's bind reads the rows again, for their ids. *)
BindFind(r) ==
  LET rows == alloc[req[r].lst] IN
  /\ At(r, "bind.find")
  /\ Become(r, [req[r] EXCEPT !.pc = "bind.commit", !.found =
                  [p \in Provider |-> IF rows[p] = None THEN None ELSE rows[p].id]])
  /\ UNCHANGED <<market, synd, alloc, history, audit>>

(* Every row to update is still there under the id that was read, and the  *)
(* trigger does not freeze it.                                             *)
Updatable(l, final, found) ==
  \A p \in Holders(final) :
    /\ found[p] # None
    /\ alloc[l][p] # None
    /\ alloc[l][p].id = found[p]
    /\ synd[l] # "BOUND"

(* The transaction: the amounts (not the shares) of the rows that were     *)
(* read, the status, and a BOUND event each.  The update of the status has *)
(* no condition of its own.                                                *)
BindCommit(r) ==
  LET l == req[r].lst
      final == req[r].final
      ok == Updatable(l, final, req[r].found)
  IN
  /\ At(r, "bind.commit")
  /\ Require(r, ok, "bind.match")
  /\ IF ok
       THEN /\ alloc' = [alloc EXCEPT ![l] = [p \in Provider |->
                           IF final[p] = None THEN @[p]
                           ELSE [@[p] EXCEPT !.amount = final[p].amount]]]
            /\ synd' = [synd EXCEPT ![l] = "BOUND"]
            /\ bound' = [bound EXCEPT ![l] = final]
       ELSE UNCHANGED <<alloc, synd, bound>>
  /\ UNCHANGED <<market, proposed, removed, audit>>

(* Mutant of BindMatch: the listing is left as it is. *)
BindMatchSkipped(r) ==
  /\ At(r, "bind.match")
  /\ Goto(r, "bind.audit")
  /\ UNCHANGED <<market, synd, alloc, history, audit>>

(* setListingStatus, after the transaction and outside it. *)
BindMatch(r) ==
  /\ At(r, "bind.match")
  /\ listing' = [listing EXCEPT ![req[r].lst] = "MATCHED"]
  /\ Goto(r, "bind.audit")
  /\ UNCHANGED <<interest, commitment, exposure, synd, alloc, history, audit>>

-----------------------------------------------------------------------------
(* MarketplaceService and CapitalService *)

(* expressInterest: findListing and the status check, then the upsert. *)
InterestStart(r, p, l) ==
  /\ listing[l] = "OPEN"
  /\ Begin(r, "interest.upsert", p, l, 0)
  /\ UNCHANGED <<market, synd, alloc, history, audit>>

InterestUpsert(r) ==
  /\ At(r, "interest.upsert")
  /\ interest' = [interest EXCEPT ![req[r].lst] = @ \cup {req[r].org}]
  /\ Finish(r)
  /\ UNCHANGED <<listing, commitment, exposure, synd, alloc, history, audit>>

(* withdrawInterest: neither the listing nor an allocation is looked at. *)
WithdrawInterest(p, l) ==
  /\ HasInterest(p, l)
  /\ interest' = [interest EXCEPT ![l] = @ \ {p}]
  /\ UNCHANGED <<listing, commitment, exposure, synd, alloc, history, audit, req>>

(* withdrawListing: no check of the status, a MATCHED listing included. *)
WithdrawListing(l) ==
  /\ listing' = [listing EXCEPT ![l] = "WITHDRAWN"]
  /\ UNCHANGED <<interest, commitment, exposure, synd, alloc, history, audit, req>>

(* setAppetite: an upsert of the caller's profile. *)
SetAppetite(p, e) ==
  /\ UpsertAppetite(p, e)
  /\ UNCHANGED <<listing, interest, commitment, synd, alloc, history, audit, req>>

(* setCommitment: an upsert, whatever the provider has already allocated. *)
SetCommitment(p, c) ==
  /\ UpsertCommitment(p, c)
  /\ UNCHANGED <<listing, interest, exposure, synd, alloc, history, audit, req>>

(* The process that handles a request dies, or one of its awaits fails. *)
Crash(r) ==
  /\ Crashes
  /\ ~ At(r, "idle")
  /\ Finish(r)
  /\ UNCHANGED <<market, synd, alloc, history, audit>>

-----------------------------------------------------------------------------
Init ==
  /\ listing = [l \in Listing |-> "OPEN"]
  /\ interest = [l \in Listing |-> {}]
  /\ commitment = [p \in Provider |-> None]
  /\ exposure = [p \in Provider |-> None]
  /\ synd = [l \in Listing |-> "NONE"]
  /\ alloc = [l \in Listing |-> NoRows]
  /\ proposed = [i \in RowId |-> None]
  /\ removed = {}
  /\ bound = [l \in Listing |-> NoRows]
  /\ audit = {}
  /\ req = [r \in Request |-> Idle]

Called(operation) == operation \in Operations

(* A request arrives. *)
Arrive(r) ==
  \E l \in Listing :
    \/ Called("open") /\ OpenStart(r, l)
    \/ Called("bind") /\ BindStart(r, l)
    \/ \E p \in Provider :
         \/ Called("propose") /\ \E s \in Shares : ProposeStart(r, p, l, s)
         \/ Called("withdraw") /\ WithdrawStart(r, p, l)
         \/ Called("expressInterest") /\ InterestStart(r, p, l)

(* A handler takes its next step. *)
Step(r) ==
  \/ OpenFind(r) \/ OpenCreate(r) \/ Record(r, "open.audit", "open")
  \/ ProposeInterest(r) \/ ProposeList(r) \/ ProposeAppetite(r)
  \/ ProposeCommitment(r) \/ ProposePosition(r) \/ ProposeRecheck(r)
  \/ ProposeInsert(r) \/ Record(r, "propose.audit", "propose")
  \/ WithdrawList(r) \/ WithdrawRecheck(r) \/ WithdrawFind(r)
  \/ WithdrawDelete(r) \/ Record(r, "withdraw.audit", "withdraw")
  \/ BindList(r) \/ BindFind(r) \/ BindCommit(r) \/ BindMatch(r)
  \/ Record(r, "bind.audit", "bind")
  \/ InterestUpsert(r)

(* Operations that are a single write. *)
Write ==
  \/ Called("withdrawListing") /\ \E l \in Listing : WithdrawListing(l)
  \/ \E p \in Provider :
       \/ Called("withdrawInterest") /\ \E l \in Listing : WithdrawInterest(p, l)
       \/ Called("setAppetite") /\ \E e \in Exposures : SetAppetite(p, e)
       \/ Called("setCommitment") /\ \E c \in Ceilings : SetCommitment(p, c)

Next ==
  \/ \E r \in Request : Arrive(r) \/ Step(r) \/ Crash(r)
  \/ Write

Spec == Init /\ [][Next]_vars

(* A handler that has started runs to its end: nothing in it waits for     *)
(* another request.  Nobody is obliged to send a request.                  *)
FairSpec == Spec /\ \A r \in Request : WF_vars(Step(r))

-----------------------------------------------------------------------------
(* What is stored, and what a handler knows at each of its steps. *)

ProviderSteps == ProposalSteps \cup {
  "propose.audit", "withdraw.list", "withdraw.recheck", "withdraw.find", "withdraw.delete",
  "withdraw.audit", "interest.upsert"}
OwnerSteps == {
  "open.find", "open.create", "open.audit",
  "bind.list", "bind.find", "bind.commit", "bind.match", "bind.audit"}

RequestState ==
  [pc : {"idle"} \cup ProviderSteps \cup OwnerSteps,
   org : Provider \cup {Owner}, lst : Listing \cup {None},
   share : 0 .. FullAllocation, ceiling : Nat,
   final : [Provider -> Terms \cup {None}],
   found : [Provider -> RowId \cup {None}],
   row : RowId \cup {None}, gone : BOOLEAN]

(* A request on its way knows its listing, and a provider's request its    *)
(* provider and the share it proposes; only a withdrawal finds a row gone. *)
RequestOK(q) ==
  /\ q \in RequestState
  /\ q.pc # "idle" => q.lst \in Listing
  /\ q.pc \in ProviderSteps => q.org \in Provider
  /\ q.pc \in ProposalSteps => q.share \in Shares
  /\ q.gone => q.pc = "withdraw.audit"

AuditRecord ==
  [action : {"open", "propose", "withdraw", "bind"}, lst : Listing,
   org : Provider \cup {Owner}, row : RowId \cup {None}, own : BOOLEAN]

(* The type of every variable. *)
TypeOK ==
  /\ listing \in [Listing -> ListingStatus]
  /\ interest \in [Listing -> SUBSET Provider]
  /\ commitment \in [Provider -> Nat \cup {None}]
  /\ exposure \in [Provider -> Nat \cup {None}]
  /\ synd \in [Listing -> SyndicationStatus]
  /\ alloc \in [Listing -> [Provider -> Row \cup {None}]]
  /\ proposed \in [RowId -> Proposal \cup {None}]
  /\ removed \subseteq RowId
  /\ bound \in [Listing -> [Provider -> Terms \cup {None}]]
  /\ audit \subseteq AuditRecord
  /\ req \in [Request -> RequestState]
  /\ \A r \in Request : RequestOK(req[r])

-----------------------------------------------------------------------------
(* Properties that hold however requests interleave and wherever they die. *)

(* What the event history says of a provider on a listing. *)
ProposedBy(i, l, p) ==
  i \in RowId /\ proposed[i] # None /\ proposed[i].lst = l /\ proposed[i].org = p
HasProposedShare(l, p, s) == \E i \in RowId :
  /\ proposed[i] # None
  /\ proposed[i].lst = l /\ proposed[i].org = p /\ proposed[i].share = s

(* The allocation table is exactly what its history says: a row is there   *)
(* if and only if it was proposed, by that provider on that listing at     *)
(* that share, and was not removed; nothing is removed that was not        *)
(* proposed.  addAllocation and removeAllocation write the row and its     *)
(* event in one transaction, and the deletion is by row id, not by key.    *)
HistoryExplainsRows ==
  /\ \A l \in Listing, p \in Provider : alloc[l][p] # None =>
       LET i == alloc[l][p].id IN
         /\ i \notin removed
         /\ proposed[i] # None
         /\ proposed[i].lst = l
         /\ proposed[i].org = p
         /\ proposed[i].share = alloc[l][p].share
  /\ \A i \in RowId : proposed[i] # None /\ i \notin removed =>
       LET row == alloc[proposed[i].lst][proposed[i].org] IN
         row # None /\ row.id = i
  /\ \A i \in removed : proposed[i] # None

(* The commitment that bind records is exact and is the one stored: the    *)
(* amounts of the BOUND events sum to the capacity of the listing, with no *)
(* minor unit lost, and each is the amount of a row that is still there.   *)
(* bindAllocations computes the amounts from rows that may be stale by the *)
(* time the transaction runs.                                              *)
BoundIsExact ==
  \A l \in Listing :
    IF synd[l] = "BOUND"
      THEN /\ TotalAmount(bound[l]) = Capacity[l]
           /\ \A p \in Holders(bound[l]) :
                /\ alloc[l][p] # None
                /\ alloc[l][p].amount = bound[l][p].amount
      ELSE bound[l] = NoRows

(* A listing is marked MATCHED only for a syndication that is BOUND: bind  *)
(* sets the status after its transaction, never for one that failed.       *)
MatchedOnlyIfBound ==
  \A l \in Listing : listing[l] = "MATCHED" => synd[l] = "BOUND"

(* Nobody is bound to a share it did not itself propose on that listing,   *)
(* at some time: a bind that was overtaken may still bind a provider that  *)
(* has withdrawn the share and proposed another one since.                 *)
BoundByConsent ==
  \A l \in Listing, p \in Provider : bound[l][p] # None =>
    HasProposedShare(l, p, bound[l][p].share)

(* A proposal rests on a declared commitment: no provider has an           *)
(* allocation without one (NO_CAPITAL_COMMITMENT), and only a listing that *)
(* has a syndication has allocations.                                      *)
ProposalBacked ==
  \A l \in Listing, p \in Provider : alloc[l][p] # None =>
    commitment[p] # None /\ synd[l] # "NONE"

(* The handlers that have made their change and have not recorded it yet,  *)
(* and the action each of them is about to record.                         *)
Reports(q) ==
  /\ q.pc \in {"open.audit", "propose.audit", "withdraw.audit", "bind.match", "bind.audit"}
  /\ ~ q.gone
ActionAt(pc) ==
  IF pc = "open.audit" THEN "open"
  ELSE IF pc = "propose.audit" THEN "propose"
  ELSE IF pc = "withdraw.audit" THEN "withdraw" ELSE "bind"
Report(q) == Entry(q, ActionAt(q.pc))

(* An audit record tells of a change that has happened: the syndication    *)
(* exists or is BOUND, the row was proposed by the caller, or it has been  *)
(* removed.  The one record without a change of the handler's own is of a  *)
(* withdrawal that another one overtook: the row that it had read itself   *)
(* is removed, by the other, and the audit tells of that twice             *)
(* (removeAllocation returns normally when the row has gone).              *)
RecordsTellOfChanges ==
  \A a \in audit :
    /\ a.action = "open" => synd[a.lst] # "NONE"
    /\ a.action = "bind" => synd[a.lst] = "BOUND"
    /\ a.action \in {"propose", "withdraw"} => ProposedBy(a.row, a.lst, a.org)
    /\ a.action = "withdraw" => a.row \in removed
    /\ ~ a.own => a.action = "withdraw"

(* No change has two handlers that made it: what a handler is about to     *)
(* record as its own is neither recorded as somebody's own already nor     *)
(* about to be.  It rests on the unique keys, on the deletion by row id    *)
(* and on the trigger, which let one of several handlers win.              *)
ChangesHaveOneMaker ==
  \A r \in Request : Reports(req[r]) =>
    /\ Report(req[r]) \notin audit
    /\ \A s \in Request \ {r} : Reports(req[s]) => Report(req[s]) # Report(req[r])

(* The audit trail: no record of what did not happen, and but for an       *)
(* overtaken withdrawal one record for each change, by whoever made it.    *)
AuditTruthful == RecordsTellOfChanges /\ ChangesHaveOneMaker

(* What a handler has read stays true enough for what it does next, however *)
(* long it is overtaken: the syndication it works on is still there, a     *)
(* provider past its commitment check still has one, the final terms a     *)
(* bind carries are exact and consented to, a listing is about to be       *)
(* marked MATCHED only behind a committed bind, and a handler about to     *)
(* write its audit record has something to report.                         *)
Knows(q) ==
  /\ q.pc \in (ProviderSteps \ {"interest.upsert"})
              \cup (OwnerSteps \ {"open.find", "open.create"})
       => synd[q.lst] # "NONE"
  /\ q.pc \in {"propose.position", "propose.recheck", "propose.insert"}
       => commitment[q.org] # None
  /\ q.pc \in {"propose.audit", "withdraw.recheck", "withdraw.find",
               "withdraw.delete", "withdraw.audit"} => ProposedBy(q.row, q.lst, q.org)
  /\ q.pc = "withdraw.audit" => q.row \in removed
  /\ q.pc \in {"bind.find", "bind.commit"} =>
       /\ Holders(q.final) # {}
       /\ TotalAmount(q.final) = Capacity[q.lst]
       /\ \A p \in Provider : q.final[p] # None =>
            /\ HasProposedShare(q.lst, p, q.final[p].share)
            /\ q.final[p].amount <= Capacity[q.lst]
  /\ q.pc \in {"bind.match", "bind.audit"} => synd[q.lst] = "BOUND"

HandlersKnow == \A r \in Request : Knows(req[r])

(* Binding means binding: once a syndication is BOUND it stays so, its     *)
(* BOUND events stay as they are, and no row that it has is changed or     *)
(* deleted, by a withdrawal or a second bind that was under way included.  *)
BoundFrozen ==
  [][\A l \in Listing : synd[l] = "BOUND" =>
       /\ synd'[l] = "BOUND"
       /\ bound'[l] = bound[l]
       /\ \A p \in Provider :
            alloc[l][p] # None => alloc'[l][p] = alloc[l][p]]_vars

(* With no crash, a listing that is still on offer when its syndication is *)
(* bound is marked MATCHED in the end, even if the owner withdraws it in   *)
(* between: it cannot stay OPEN for good.                                  *)
BoundIsMatched ==
  \A l \in Listing :
    (synd[l] = "BOUND" /\ listing[l] = "OPEN") ~> listing[l] = "MATCHED"

-----------------------------------------------------------------------------
(* Properties of the checks in propose and bind when requests are handled  *)
(* one at a time.  With concurrent requests each of them is violated.      *)

(* proposeAllocation: the proposed total never exceeds 100%. *)
ProposedWithinFull ==
  \A l \in Listing : TotalShare(alloc[l]) <= FullAllocation

(* The allocations of a BOUND syndication sum to exactly 100%, and their   *)
(* amounts to the capacity.                                                *)
BoundRowsExact ==
  \A l \in Listing : synd[l] = "BOUND" =>
    /\ TotalShare(alloc[l]) = FullAllocation
    /\ TotalAmount(alloc[l]) = Capacity[l]

(* requireCapacityForProposal: no new allocation takes what the provider   *)
(* has allocated across all syndications above its commitment.  One whose  *)
(* indicative amount rounds to nothing takes nothing, and is allowed also  *)
(* to a provider whose commitment has been lowered below what it holds.    *)
CeilingHeld ==
  [][\A p \in Provider :
       (\E l \in Listing : alloc[l][p] = None /\ alloc'[l][p] # None)
         => Committed(p)' <= Committed(p) \/ Committed(p)' <= commitment[p]]_vars

(* A bound row's amount is the rounding, up or down, of its own share.     *)
BoundAmountFollowsShare ==
  \A l \in Listing : synd[l] = "BOUND" =>
    \A p \in Holders(alloc[l]) :
      LET exact == Capacity[l] * alloc[l][p].share
          stored == FullAllocation * alloc[l][p].amount
      IN  stored - exact < FullAllocation /\ exact - stored < FullAllocation

(***************************************************************************)
(* What the checks of propose and bind are for, when requests come one at  *)
(* a time: shares stay within 100%, and what is bound is 100%, the whole   *)
(* capacity, and for each provider its own share.                          *)
(***************************************************************************)
ChecksHold == ProposedWithinFull /\ BoundRowsExact /\ BoundAmountFollowsShare

-----------------------------------------------------------------------------
(* What the rest of the system relies on. *)

Holding == [l \in Listing |-> [p \in Provider |->
  IF alloc[l][p] = None THEN None ELSE alloc[l][p].share]]

Promise == INSTANCE Commitments WITH holding <- Holding

(* Syndication implements Commitments: a share is taken once and given     *)
(* back only before binding, and a syndication is bound once, at terms     *)
(* that sum to the capacity and name only providers that hold a row.       *)
KeepsPromise == Promise!PromiseSpec
=============================================================================

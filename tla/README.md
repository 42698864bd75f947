# Neo-Lloyds: models, checks and proofs

Neo-Lloyds is a simulated risk marketplace: a NestJS API (`apps/api`) over a
pure domain package (`packages/domain`) and PostgreSQL through Prisma
(`packages/database`), web portals, and vault contracts in Solidity
(`packages/contracts`). Paths below are relative to the repository.

This directory models how a risk gets to the market, how capital is committed
to it, ceded, settled and paid out, who may do so, the graph the risks live in,
and the vault. Every module is translated from the code; the lines are in
`PROJECT.json` ("map").

## 1. Inventory

| Part | State | Operations | What makes it correct | Status |
|---|---|---|---|---|
| Money (`domain/money.ts`) | none | sum, scale, `allocateMoney` | a split loses and invents no unit | modelled, proved |
| Submission workflow (`submission.service.ts`) | `RiskSubmission` | create, advance | a listed submission came through the workflow | modelled, proved |
| Underwriting (`underwriting.service.ts`, `domain/underwriting.ts`) | `UnderwritingAssessment`, `UnderwritingApproval` | assess, approve, requireClearance | no clearance without the approval its band needs | modelled, proved |
| Marketplace (`marketplace.service.ts`) | `MarketListing`, `CapitalInterest`, `CapitalAppetiteProfile` | listSubmission, withdrawListing, setAppetite, expressInterest, withdrawInterest | only cleared risks are listed; a proposal rests on interest | partly: views and ranking are left out |
| Syndication (`syndication.service.ts`, `domain/syndication.ts`, repository, triggers) | `Syndication`, `SyndicationAllocation`, append-only `SyndicationAllocationEvent` | open, propose, withdraw, bind | what is bound sums to the capacity, was consented to, never changes | modelled, proved |
| Capital ledger (`capital.service.ts`, `capital-ledger.ts`) | `CapitalCommitment` | setCommitment; position in propose | no provider is committed above its ceiling | modelled, proved (serially) |
| Claims (`claims.service.ts`, `domain/claims.ts`) | `Claim`, `ClaimPayout` | report, addEvidence, advance, calculateLoss, decide, settle | paid once, exactly, after coverage and review | modelled, proved |
| Reinsurance (`reinsurance.service.ts`, `domain/reinsurance.ts`) | programs, layers with running state, cessions | createProgram, cede | an aggregate is consumed once per loss, never above its limit | modelled, proved |
| Settlement (`settlement.service.ts`, adapters) | `SettlementTransaction` | initiate, routed to Null, Stripe or OpenFireblocks | money moves once; the record says so, or says that it is not known | modelled, proved |
| Identity and mandates (`identity.service.ts`, `common/auth.ts`) | organisations, credentials, users, mandates | register, roles, KYB, issue, revoke; the guard | what is revoked or expired lets nobody in | modelled, proved |
| Agent API (`agent.service.ts`) | audit of checks | mandateCheck and the gated call | an agent acts within a mandate, on record | modelled, proved |
| Compliance (`compliance/`) | audit of reports | checks, webhook | KYB changes by a human decision only | partly: screening and signatures are left out |
| Risk graph (`graph.service.ts`, `domain/graph.ts`) | nodes, edges | createNode, createEdge, traversals | edges are legal, `DEPENDS_ON` stays acyclic | modelled, proved |
| Ontology (`domain/ontology.ts`) | none | the edge rules | | modelled |
| Scoring, queries, simulation (`domain/scoring.ts`, `queries.ts`, `simulation.ts`) | stored scores and runs | score, the graph queries, run a scenario | automation is earned; queries and scenarios agree | partly, proved: quantiles and stored results are left out |
| Vault contracts (`packages/contracts/src`) | bundles, roles, fees, guard | lockCapital, releaseClaim, returnCapital, governance | solvent; paid at most what is locked, once | modelled, proved |
| Persistence (`apps/api/src/persistence`) | | the Prisma repositories and the in-memory ones of the tests | both mean the same | partly |
| Audit (`audit.service.ts`) | append-only `AuditRecord` | record | no record of what did not happen | partly: images and hashes are left out |
| Analyst, jurisdictions, portals, bootstrap and seed | | | | not modelled, see section 7 |

**How they interact.** Underwriters assess a risk and humans approve it; a
submission about it moves through its workflow and, when it is ready and the
risk is cleared, is listed. Providers declare appetite, interest and a
commitment; the owner opens a syndication for the listing; providers propose
shares; the owner binds, which freezes rows and amounts and marks the listing
MATCHED. Claims are reported against a syndication, tested against its
capacity, reviewed above a threshold, and split over its rows. A syndicate
cedes losses into its reinsurance programs; payouts are settled over rails that
are other systems. Every request passes the guard, and an agent's the check of
its mandate as well. Services call each other's repositories directly; there
are no messages or queues. The API does not call the vault contracts.

**What is hard.** Node runs many requests at once. A handler reads, awaits,
checks what it read and writes; between the awaits other requests run, and
other instances of the API may run too. Few writes are conditional on what was
checked. What protects the state is a handful of database mechanisms: unique
keys, the transactions of `addAllocation`, `removeAllocation` and `bind`, one
`updateMany` that is conditional on OPEN, and the triggers that freeze rows of
a BOUND syndication. Audit records are separate writes, and a process may die
between any two. Rails and compliance providers answer late, twice or not at
all. The token of the vault may call back. The hazards are listed one by one,
with their lines and the properties that cover them, in `PROJECT.json`.

## 2. Modules

| Module | Models |
|---|---|
| `Money` | sums, `scaleMoney`, and `allocateMoney` as the set of largest-remainder splits |
| `MoneyAllocation` | the loop of `allocateMoney`, on doubles of few bits |
| `Commitments` | the abstract specification of syndication: who holds a share, what was bound |
| `Syndication` | the handlers of syndication and of the market state they read |
| `Claims` | the handlers of claims, over the variables of `Commitments` |
| `Scoring` | `scoreRisk` and `assessUnderwriting`: bands, premium, capital, notes |
| `Placement` | submission workflow, assessments, approvals and listings, over `Scoring` |
| `Reinsurance` | programs and the layer-by-layer cession |
| `Settlement` | initiate, the three rails and what may happen on them unseen |
| `Identity` | organisations, credentials, mandates, the guard, the mandate check, compliance answers |
| `Ontology` | edge rules, reachability, acyclicity, what `loadGraph` returns |
| `RiskQueries`, `Scenarios` | the traversals and queries, and what a simulation reaches, as operators |
| `RiskGraph` | createNode and createEdge over `Ontology`, and the questions asked of every graph |
| `Vault` | the facets, transfer by transfer |
| `SyndicationInMemory`, `ClaimsInMemory`, `ReinsuranceInMemory`, `SettlementInMemory`, `IdentityInMemory` | the in-memory repository of the tests beside the database |
| `MC...` | values of the constants for TLC |
| `Sums` | the laws of finite sums, induction on numbers, and how far a split is from exact |
| `SyndicationProofs`, `ClaimsProofs`, `PlacementProofs`, `IdentityProofs`, `RiskGraphProofs` | the theorems about the component, its in-memory repository included |
| `MoneyProofs` | the theorems about `MoneyAllocation`, and about `Settlement` and its in-memory repository |
| `CapitalProofs` | the theorems about `Reinsurance`, its in-memory repository, and `Vault` |

**Handlers.** A request is a slot `req[r]` with a program counter and the
values its handler has read. Each awaited repository or provider call is one
action; the checks up to the next await are its guard, and a check that throws
ends the request. A Prisma `$transaction` is one action, with the trigger or
unique key that may refuse it. `audit.record` is the last action of a handler.
`Crash` ends a request anywhere; it stands for a process that dies and for an
await that fails. Calls that the role and tenant checks refuse change nothing
and are left out, except in `Identity`, which models those checks. There an
administrator's call reads a row, checks fields that never change and writes,
so it is one step.

**State.** A table is a function from its unique key to a row or `None`:
`alloc[l][p]` is the `SyndicationAllocation` of provider p on listing l (a
listing has at most one syndication, so it stands for both), with the row id,
because `removeAllocation` deletes by id. Assessments, approvals and mandates
are sequences, because the newest one decides. Times are left out except where
an expiry is checked (`Identity`, `Vault`). Variables marked "history" record
what no row does, such as that two requests overlapped; no guard reads them.

**Money.** `AllocateMoney(total, weights)` is every largest-remainder split.
The code breaks ties by position, and positions come from the order in which
the database returns rows, so every split of the set is possible.
`MoneyAllocation` shows where the loop stays in the set. `Scoring` counts in
percent and basis points, rounded down.

**Composition.** `Claims` EXTENDS `Commitments` and lets its variables change by
`PromiseNext`, so claims are checked over everything syndication may do.
`Syndication` shows with `KeepsPromise` that it is an implementation:
`Promise == INSTANCE Commitments WITH holding <- Holding`, the refinement
mapping that forgets ids, amounts of unbound rows, events and handlers.
`Placement` composes the submission, underwriting and marketplace services, with
the one write of syndication to a listing, bind's MATCHED. An
in-memory module takes the actions of its component and performs each write a
second time on `mem`, as the method of `in-memory.ts` does; `MemoryAgrees` says
that both repositories then hold the same.

**External systems.** Stripe (`transfer`) and OpenFireblocks (`workflow`) act
when asked, and their answers may be lost, late or wrong: an error answer (any
status that is not 2xx) says nothing of whether the rail acted, and a workflow goes
on when the poll has given up. Didit answers whatever it likes and its webhooks come at any
time. The vault's token is a balance for each account that lets anybody call
while a transfer is under way; a transfer that lacks funds undoes the whole
transaction. These are `external` in the map, as the code uses them.

## 3. Runs

| Run | Question | Properties | Instance |
|---|---|---|---|
| `money_split` | Is the loop of `allocateMoney` the largest-remainder split, and does it sum to the amount? | `LargestRemainder`, `SumsToAmount` | up to 3 weights of 0 to 7, all amounts of 8 bits |
| `syndication_race` | Two requests on one syndication: is what is bound exact, consented to and frozen? Do rows and events agree? Is a bound listing MATCHED in the end? | `HistoryExplainsRows`, `BoundIsExact`, `BoundByConsent`, `BoundFrozen`, `BoundIsMatched` (liveness) | 1 listing, 2 providers, 3 row ids |
| `syndication_market` | From the empty market with every operation and crashes anywhere: does the audit tell of nothing that did not happen and of no change as two handlers', and does the detailed model implement `Commitments`? | `AuditTruthful`, `KeepsPromise` | 1 listing, 1 provider, 2 requests, 1 ceiling, an exposure limit |
| `syndication_serial` | One request at a time, and the four operations that are a single write: what do the checks of propose and bind keep, and does the memory of the tests agree? | `ChecksHold`, `MemoryAgrees`, `CeilingHeld` | 2 listings, 2 providers, the market entries of one changing |
| `claims_race` | Two requests on a claim, callers that push `advance` through every legal status, the syndication changing meanwhile: is a claim paid only after its tests, by holders only, within the capacity, and once? | `PaidAfterTests`, `HoldersPay`, `LossIsCovered`, `PaidOnce` | 1 claim, 2 providers, losses below the ceiling, above it, above the capacity |
| `claims_serial` | One request at a time while syndications are being bound, one of two claims may lose its handlers: are payouts the loss, do decisions stand, do automatic approvals respect the capacity, is an approved claim paid in the end? | `ChecksHold`, `MemoryAgrees`, `AutoApprovalCovered`, `ApprovedIsPaid` (liveness) | 2 claims of one syndication, bound or not yet |
| `placement` | Two requests that advance, assess, approve, list and withdraw, binds that match, releases of the model, crashes: is everything listed cleared, prudent, fresh, and audited? | `Inv`, `AssessedPrudently`, `ListedWhenClear` | 1 risk, 4 inputs around the thresholds, 3 rows about it, 2 versions |
| `reinsurance` | Two cessions at a time, crashes between layers: are layers within their limit, is the state the sum of the cessions unless they overlapped, is a cession recorded in the end, whatever overlaps it? | `Inv`, `StateIsSumOfCessions`, `MemoryAgrees`, `CessionIsRecorded` (liveness) | 3 placements of quota share, excess of loss and aggregates, losses of 3 and 8, 3 cessions |
| `settlement` | Two settlements, each rail, lost answers, error answers of rails that acted, timeouts, crashes: does the row tell the truth about the money or that it is not known, and is a settlement that nothing kills concluded? | `Inv`, `MemoryAgrees`, `Concluded` (liveness) | 2 transactions, 5 orders: each method, each refusal, a fee above the amount |
| `identity` | A caller under way while administrators revoke, mandates expire and compliance answers arrive: who may act? Does a revocation drain? | `Inv`, `MemoryAgrees`, `PassesOnlyOnDecision`, `RevocationDrains` (liveness) | 4 organisations, 1 credential, 2 mandates, 2 routes, production |
| `graph` | Two requests build a graph, every question asked at every state: is it legal and acyclic, do queries and scenarios agree? | `Inv`, `QueriesAgree`, `ScenariosAgree` | 12 nodes of 2 organisations, 6 edges and 8 candidates, among them a cycle of three |
| `vault` | Lock, release and return with a token that calls back, transfers that fail for lack of funds, and signers that change: is it solvent, are payouts within the lock, does a bundle end once? | `VaultInv`, `PaidOut`, `EndsOnce` | 2 bundles, 2 participants, 5 lock inputs, 2 payouts, 2 fees, 2 signatures |

**Properties with parts.** A conjunction is one property of a run, its parts are
named definitions with a comment each:

- `Syndication.AuditTruthful`: `RecordsTellOfChanges`, `ChangesHaveOneMaker`.
- `Syndication.ChecksHold`: `ProposedWithinFull`, `BoundRowsExact`, `BoundAmountFollowsShare`.
- `Claims.ChecksHold`: `PaidExactly`, `RejectedForGood`, `ApprovedByHuman`.
- `Placement.Inv`: `TypeOK`, `ListedOnClearance`, `ListedIsReady`, `AuditTold`, `HandlersKnow`;
  `AssessedPrudently`: `LargeNeedsHuman`, `UnsureNeedsHuman`, `PricedPrudently`.
- `Reinsurance.Inv`: `TypeOK`, `LayersFilled`, `HandlersKnow`.
- `Settlement.Inv`: `TypeOK`, `RailsOnRecord`, `ConfirmedIsPaid`, `FailedSaysWhy`, `ToldIsKept`,
  `AuditTold`, `HandlersKnow`.
- `Identity.Inv`: `TypeOK`, `PrincipalsAnswer`, `ActsWithinMandate`, `CheckIsOnRecord`,
  `RevokedOnlyInFlight`, `ServedAreAdmitted`, `KybIsDecided`, `HandlersKnow`.
- `RiskGraph.Inv`: `TypeOK`, `EdgesLegal`, `DependenciesAcyclic`, `NothingSkipped`, `ChecksStand`, `CallersLegal`.
- `RiskGraph.QueriesAgree`: `dependsOn` and `dependents` mirror each other level by level;
  a traversal finds what the cycle check finds; exposure follows failure; correlation is mutual;
  a verified answer rests on verified edges; the picture of a risk is complete.
  `ScenariosAgree`: a simulation exposes those for whom its trigger can fail, spreads along
  dependencies as far as its eight levels reach, and insures only who is covered.
- `Vault.VaultInv`: `VaultTypeOK`, `Solvent`; `PaidOut`: `PaidWithinLock` with `ReleasedOnAttestation`, `FairReturn`.

**Bounds and why they are enough.** Every race in these handlers is between a
read and a later write of one request and one write of another, so two request
slots, reused without limit, show it; a slot that is free again stands for a
third caller. In `identity` the other party is an administrator, who needs no
slot, so one slot is enough: requests do not write what other requests read.
Row ids bound the number of proposals in a behaviour: three allow a proposal,
its withdrawal and a second one by each of two providers in turn, which is what
a stale id needs. Amounts are small (a capacity of 3 or 6) and chosen so that
shares are not whole and rounding shows. `FullAllocation` and `Full` are 1, 2 or
4 instead of 10 000, except in `vault`, where shares of 3333 and 6667 are those
that `bindAllocations` computes. Claims use losses on each side of the ceiling
and of the capacity; `placement` uses inputs on each side of the ceiling and of
the confidence, and a currency without thresholds; losses of `reinsurance` fall
into a layer, through it, and exhaust an aggregate at the second. Three rows
about a risk (`MCRows`) allow an assessment, a decision and a newer one of either.
The graph starts with two owners, an exposed asset and a syndicate, and its
candidates close a cycle, cross organisations and break the ontology. The
signatures of `vault` allow a change of signer between two claims. `MCInit`
starts some runs in a state that is set up, one that `Init` reaches;
`syndication_market`, `claims_race`, `placement`, `reinsurance`, `settlement` and
`vault` start from `Init`. `claims_race` runs without `Crash`, which frees a slot and
changes nothing else: what a dead handler leaves behind, one that is never scheduled
again leaves too. Request slots, row ids and claims are symmetric; runs with a
liveness property use no symmetry (`InOrder` gives row ids out in order instead).
`CHECK_DEADLOCK FALSE` stands where a behaviour really ends: every row id,
cession or transaction used, every claim settled, a split returned.

**Doubles.** `MoneyAllocation` computes with `Precision` significant bits,
rounding half to even, in place of the 53 of a double, and weights in place of
basis points; a safe integer is one below `2^Precision`. The product, the
quotient and their floors are rounded as in the code. The sort is what its
comparator makes of it: `Place(i)` counts the indices before i, and `Ordered`
names the index at a place. A small precision is enough for the run because the
bounds of the properties move with it, and the theorems are for every precision.

**Fairness.** Only the steps of handlers that have started are weakly fair, each
request for itself: the event loop runs every continuation whose promise has
resolved. A poll of OpenFireblocks ends by its own deadline, which is a step of the
handler. No operation is ever assumed to be called, no rail to answer, no
administrator or clock to move. Where crashes are on, a liveness property
speaks only of what no crash hit (`lost`, `died`, `Crashes`), because
nothing in the code resumes a handler. `CessionIsRecorded` is of each cession by
itself: others that overlap it, or die over the same layers, do not excuse it.

## 4. What is proved

The theorems are about `Spec` of the component, for every value of its
constants: any number of listings, providers, claims, risks, programs,
transactions, organisations, nodes, bundles and concurrent requests, any
shares, amounts and thresholds, crashes or not. Those about an in-memory
repository and those marked *serial* are about `MemSpec`: the same handlers, one
request at a time, each write made to both. The runs check the same properties
on these specifications or on a restriction of them (an initial state that is set
up, a bound on rows).

| Module | Theorems (property of a run) |
|---|---|
| `SyndicationProofs` | `TypeCorrect`, `HistoryCorrect` (`HistoryExplainsRows`), `BoundExact` (`BoundIsExact`), `BoundConsented` (`BoundByConsent`), `MatchedAndBacked`, `AuditCorrect` (`AuditTruthful`), `Frozen` (`BoundFrozen`), `HandlersCorrect`, `Implements` (`KeepsPromise`); serial: `SerialChecksHold` (`ChecksHold`), `SerialCeilingHeld` (`CeilingHeld`), `SyndicationMemory` (`MemoryAgrees`) |
| `ClaimsProofs` | `TypeCorrect`, `HandlersCorrect`, `PaidTested` (`PaidAfterTests`), `PaidByHolders` (`HoldersPay`), `PaidOnlyOnce` (`PaidOnce`), `AuditCorrect`, `LossesCovered` (`LossIsCovered`); serial: `SerialChecksHold` (`ChecksHold`), `AutoWithinCapacity` (`AutoApprovalCovered`), `ClaimsMemory` (`MemoryAgrees`) |
| `PlacementProofs` | `ListingsAreCleared` (`Inv`), `ListingsAreFresh` (`ListedWhenClear`), `ListedIsPrudent` (`AssessedPrudently`) |
| `CapitalProofs` | reinsurance: `LayersStayFilled` (`Inv`), `BooksMatchCessions` (`StateIsSumOfCessions`), `ReinsuranceMemory` (`MemoryAgrees`); vault: `VaultStaysSolvent` (`VaultInv`), `PaymentsFit` (`PaidOut`), `ReleasesAreAttested` (`ReleasedOnAttestation`), `BundlesEndOnce` (`EndsOnce`) |
| `MoneyProofs` | the loop of `allocateMoney`: `AllocateLargestRemainder` (`LargestRemainder`), `AllocateSums` (`SumsToAmount`); settlement: `SettlementCorrect` (`Inv`), `SettlementForward` (no step takes a conclusion back), `SettlementMemory` (`MemoryAgrees`) |
| `IdentityProofs` | `WhoMayAct` (`Inv`), `PassesAreDecided` (`PassesOnlyOnDecision`), `IdentityMemory` (`MemoryAgrees`) |
| `RiskGraphProofs` | `GraphStaysLegal` (`Inv`), `QuestionsAgree` (`QueriesAgree`), `SimulationsAgree` (`ScenariosAgree`) |
| `Sums` | `SumRemove` and the other laws of `SumOver`; `SplitWithinUnit`: a largest-remainder split gives every part its exact share to within one unit |

**Assumptions.** The named ASSUMEs of each module: sizes and amounts are in
their ranges (shares between 1 and the full allocation, capacities positive,
model values distinct), and `None` is not a row. TLC evaluates them in every run
of the module. The proofs about claims assume nothing of syndication but
`PromiseNext`, which `Implements` shows to be what `Syndication` does. One
theorem has a hypothesis of its own: `SerialChecksHold` of claims holds when
APPROVED is not among the `Targets` of `advance`, which grants it without a
decision (section 6); `claims_serial` has the same.

About `MoneyAllocation` it is assumed that amounts, weights and the sum of the weights
are safe integers. `money` refuses other amounts, and both callers pass shares in basis points.

**The argument.** The invariants that matter are not inductive alone, because a step
acts on what its handler read some steps ago. The missing part is always what
a handler carries: it remains true however long the handler is overtaken, or a
history variable says that it was.

*Sums.* `SumOver` takes one element of a set after another; that the order does not
matter, and with it every law of `Sums`, is an induction over finite sets or
numbers with the property given as a set (`NatsByInduction`). What a table holds
is finite because rows are written one by one, so each proof about amounts
carries that as a part of its invariant.

*Syndication.* A provider that passed the commitment check still has a
commitment, as nothing deletes one; the final terms a `bind` carries sum to the
capacity and each share in them was proposed at some time, as events are never
deleted; a handler about to write its audit record has its change in the
history, and nobody else has recorded it or is about to (`ChangesHaveOneMaker`: a
row is inserted under a fresh id and removed by its id once, a syndication is created
and bound once, so what a handler has just changed nobody had changed before it).
`IInv` is `TypeOK`, the six state invariants (`StoredInv`), `HandlersKnow` and
`ChangesHaveOneMaker`. The proof that `Next` preserves it rests on `Grows`, what no step
takes back, and `KnowsPersists`. `FinalAllocationsExact` carries the arithmetic
of `allocateMoney`. `BoundFrozen` and the refinement follow from `IInv`, step by
step: every handler step is a stutter of `Commitments` except the insert, the
delete, the commit of bind and the creation of the syndication. One request at
a time, what a handler has read is also what is there (`KnowsMarket`), and the
sums that the checks compute are the sums after the write (`SerialInv`).
`CeilingHeld` is stated for what a proposal adds: a proposal whose amount rounds
to nothing passes also under a ceiling that was lowered below what is committed.

*Syndication in memory.* The memory keeps lists where the database keeps rows by key.
`MemInv` is `SerialInv` with three facts: each list holds exactly the stored rows
(`MemHolds`), a row has the amount it was proposed with until bind changes it
(`AsProposed`: `removeAllocation` takes the amount of its event from the row it
drops), and what a handler has read it would read again (`KnowsRows`).
`AmongLaw` says what dropping the elements outside a set does to the members and the
length of a list.

*The loop of allocateMoney.* A power of two divides every larger one (`TwoToDivides`),
so the ulp of a quotient divides every coarser one. A double is then within half an ulp
of the quotient, hence within one part in `2^Precision` of it, and exact for a
safe product (`ProductNear`) and for a whole quotient (`QuotientNear`). Two such errors
in a row add less than one unit to the sum of the parts of an amount that leaves the
last bit unused (`FloorsWithinAmount`), so the remainder is not negative and the
loop ends at the amount. Where no product is rounded, a floor is that of the exact
quotient (`PartExact`), two different fractions keep their order (`FractionOrder`) and fewer
units are left than there are weights (`FloorsOfSmall`), so the loop goes less than once round.
The comparator is a strict total order, so places are one to one (`PlaceIs`, `OrderedIs`, by
counting) and the indices rounded up are those at the places passed (`UnitsInOrder`).

*Claims.* `IInv` adds three facts: a loss stands only behind a BOUND syndication
(`LossBehindBound`), those a syndication is bound to still hold their rows
(`BoundHeld`), and only reported claims are paid or audited (`Recorded`).
`SecondRefused` shows that every set of rows on its way to `createMany` names the
providers that were bound, so it meets the unique key if anything was paid.
`CoverInv` adds the amounts: a loss that a handler carries past the coverage test
fits the capacity alone, because the sum that the test subtracts, stale or not,
is not negative. `SerialInv` adds that the status a handler has tested is still
the status when it writes, and that the memory holds what the database holds.

*Reinsurance.* A layer's books are those of some history of losses, which one
cession moves to those of the history with one more (`AggregateFills`). That the
books are the sum of the recorded cessions needs, where a program is undisturbed:
one cession under way at most (`Apart`), its row not yet there (`Drawn`), the state
it has read still the stored one where it has not written (`Current`), and every
layer written before the row is (`Written`); together `Accounts`.

*Vault.* With the guard at most one call is under way, so a step starts, continues, reverts
or ends one transaction; the storage and the copy saved for a reversal are both in order, and no
step of a transaction touches a bundle that had ended before (`VaultIInv`). The signer at a
release is kept as history (`attestor`), so what was released stays attested by who signed for
the vault then when governance has changed the signer since. `LedgerInv` keeps the
books of both: what each place of a bundle has received, and the legs still to come, fit
what has become of the bundle (`Accounted`), and the balance and what is coming in cover
what is going out and what is locked.

*Placement, Settlement, Identity, RiskGraph.* `Inv` itself is
inductive: `HandlersKnow` (in the graph `ChecksStand` and `CallersLegal`) is part of
it and is model-checked with it. The proofs name what the invariant says of one
submission, transaction or request (`Sound`) and of one handler (`Knows`), show
once that what a step does not touch stays so (`StaysSound`, `StaysKnowing`, `Frame`,
`OthersStand`), and then treat each action where it bites. What they rest on
besides: rows of assessments and approvals are only appended, so the row a
clearance was read from is there for good (`ClearanceStands`); a listing that a withdrawal or a
bind has closed is not opened again, whichever of them writes last (`Closed`); an error answer is
recorded only for a rail that was asked and has told no id (`FailedSaysWhy`, `ToldIsKept`); a request is told
when the credential or mandate it holds
is revoked (`RevokedOnlyInFlight`), and the newest mandate of a set is a member of it
(`NewestIsMember`, by well-founded distances); an edge from whose end nothing leads back
closes no cycle (`AddKeepsAcyclic`), shown with sets closed under the edges, so that no
induction on paths is needed. `AssessedPrudently` holds of every row that `assess` can
store (`AssessmentIsSound`): a weighted mean of percentages is one, confidence is the
least of its parts, so whatever may proceed alone is as small and as certain as the
thresholds ask.

*Questions.* `traverse` finds a node at the first level it is near (`TraverseFinds`), and
levels are added, split at the first step and turned around by induction over their
number (`NearAdds`, `NearFirst`, `NearIsDual`). In as many levels as there are other nodes
nothing is left to find (`NearIsComplete`, by counting), so a deep traversal and the
search of `addEdge` agree. The answers then follow on any stored graph (`Stored`), and
`LoadedIsStored` says that what `loadGraph` keeps is one.

**Only model-checked.** Every invariant and every action property of a run is proved,
and so is the refinement. What remains to TLC is liveness (`BoundIsMatched`, `ApprovedIsPaid`,
`CessionIsRecorded`, `Concluded`, `RevocationDrains`): fairness and ENABLED are out of the
prover's reach. The auxiliary `HandlersKnow` of `Syndication` and of `Claims` is proved and in no run.

## 5. Properties that hold only serially, or without overlap

`ChecksHold`, `CeilingHeld` (syndication) and `ChecksHold` (claims) state what the
checks of the domain package are for. They hold when one request is handled at
a time, which is proved, and fail as soon as `Request` has two elements: the check is on rows read
earlier and the write is unconditional. The runs that check them show that the
checks themselves are right; the theorems show what survives without them.

Elsewhere the same is said inside one run with concurrency, by a history
variable: `DependenciesAcyclic` and `NothingSkipped` for organisations in which no two
`createEdge` calls overlapped (`raced`), `StateIsSumOfCessions` for programs on which no
cessions overlapped or died (`disturbed`; `CessionIsRecorded` excludes only what
died), `ListedIsReady` for submissions that no two
requests advanced at once (`overlapped`), `ListedWhenClear` for listings that nothing
outdated between read and insert (`stale`). What is not guarded by such a
variable holds under every overlap.

## 6. Disagreements with the documentation

Met while modelling; each is visible in these modules with the property and
constants named:

- `addAllocation` checks OPEN outside its transaction and no trigger guards INSERT, so a
  row can join a BOUND syndication, whose rows then sum to more than 100% for good
  (`BoundRowsExact` with two requests); `docs/reports/phase-5.md:5` promises "allocations that
  sum to exactly 100%".
- bind rounds a share up over the amount its ceiling was checked with, with no concurrency
  (`Committed` compared with `commitment` after a bind, one provider with a ceiling below its rounded share);
  `domain/capital-ledger.ts:14` calls the ceiling "the most it will ever commit, platform-wide".
- Claims above the review ceiling are tested for coverage before any is approved and are all
  approved, together above the capacity, with no concurrency (`AutoApprovalCovered` without
  its restriction to automatic approvals); `domain/claims.ts:67-72` says they never exceed it.
- `advance` takes a claim to APPROVED past the human decision (`ApprovedByHuman` with APPROVED
  among `Targets`); `domain/claims.ts:106-108` says "There is no code path that skips this".
- Two proposals together exceed 100% (`ProposedWithinFull`) or a ceiling (`CeilingHeld`); bind
  freezes a replaced row with the old amount (`BoundAmountFollowsShare`); concurrent decisions
  pay a REJECTED claim (`RejectedForGood`); concurrent calculations pay a loss other than the
  one stored (`PaidExactly`): all with two requests.
- A crash between approval and payout leaves an APPROVED claim that no operation can pay.
- Overlapping cessions lose updates of an aggregate (`StateIsSumOfCessions` without `disturbed`),
  although the comment at `reinsurance.service.ts:91-95` has a second cession see what the first consumed.
- A listing stays OPEN after a decision or assessment that would no longer clear it, whereas
  `marketplace.service.ts:52-54` says "a later-revoked approval must not leave a stale listing
  standing": clearance is checked once, when the submission is listed.
- An approval counts for later assessments of the risk under the same model version, also in a
  higher band, and an assessment marked ineligible can be approved and listed.
- `verifiedOnly` filters dependencies and not OWNS, EXPOSED_TO or COVERS edges, although
  `docs/api/reference.md:80` speaks of every edge.
- A poll that times out records FAILED for a transfer that may still go through; the row keeps the
  workflow's id (`ToldIsKept`). `claimPayoutClaimId` is not checked: a payout can be settled twice.
- Every answer of a rail that is not 2xx is recorded FAILED, also a 5xx of a rail that has acted
  (`stripe.ts:116`, `openfireblocks.ts:167`), and nothing on the row then leads to the payment
  (`FailedSaysWhy` with `Untouched` for `declined`), whereas `openfireblocks.ts:203` promises
  'Honest "not yet known" rather than a fabricated success or failure' for the other end of the same call.
- bind marks its listing MATCHED without a condition: also one that the owner has withdrawn, with the
  withdrawal in the audit trail (`AuditTold` of `Placement` with WITHDRAWN alone).
- A withdrawal that finds its row gone returns normally (`prisma.repositories.ts:970`) and is recorded
  "Allocation proposal withdrawn" (`syndication.service.ts:211`) like the one that removed the row: one
  removal, two records (`AuditTruthful` without `own`).
- Listing cessions returns the newest first from the database and the oldest first from
  memory. The memory's `createListing` enforces no unique key, its `recordPayouts` replaces the
  payouts of a claim where the database refuses new ones, and its `revokeCredential` changes the
  very object a request under way holds.
- A simulation looks eight levels deep (`DefaultOptions`), and `simulation.ts` does not say that it
  stopped: on a longer chain of dependencies the scenario at its far end misses owners that the one
  at a nearer asset names (`Spreads` without its condition on the depth).
- The vault keeps the remainder of a partial release and the fee: no operation pays them out.
  Governance may set fees above 100%, after which `releaseClaim` only reverts. `Solvent` and `EndsOnce`
  hold without the reentrancy guard too, as every facet writes before it transfers.
- `allocateMoney` of a single weight returns one unit more than the amount for some amounts
  above 2^52 minor units (`SumsToAmount` without its bound).

## 7. Not modelled

- Analyst: text from a language model, checked for form and returned; nothing reads it back.
- Jurisdictions: a table of disclosures. Portals: front ends without state of their own.
- Bootstrap, seed, response headers: wiring and example data.
- The quantiles of estimated losses (`simulation.ts`, `uncertainty.ts`) are real arithmetic; stored
  scores and simulation runs are written and listed and decide nothing.
- Sanctions screening, whose answers go into the same report as the company check; signatures of
  webhooks and tokens, and hashing of secrets.
- Reads, lists, anonymised views and the ranking of matches, where no decision rests on them.
- Images and hashes of audit records.

## 8. Plan

1. *Done.* Money, Commitments, Syndication, Claims and their proofs.
2. *Done.* Placement with Scoring, Reinsurance, Settlement, Identity, RiskGraph with its
   queries and scenarios, Vault, the in-memory repositories; the proofs about who may act, what is
   listed, settled, ceded, released and linked.
3. *Done.* The laws of sums, and on them the amounts: what is covered, approved, ceded, paid and
   returned; the serial checks of syndication and claims; the in-memory repositories of claims,
   reinsurance, settlement and identity; what the questions and simulations answer.
4. *Done.* The in-memory repository of syndication; the loop of `allocateMoney`, for every precision.
5. If the code grows: an abstract specification of an aggregate consumed once per
   loss, when `cede` becomes conditional on the state it read; settlement of claim payouts
   composed with `Claims`, when `claimPayoutClaimId` is checked.

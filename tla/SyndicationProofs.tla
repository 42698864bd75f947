-------------------------- MODULE SyndicationProofs --------------------------
(***************************************************************************)
(* Proofs about Syndication, for any listings, providers, concurrent       *)
(* requests, shares, ceilings and capacities.                              *)
(***************************************************************************)
EXTENDS SyndicationInMemory, Sums, TLAPS

USE DEF HasInterest, AppetiteOf, UpsertAppetite, CommitmentOf, UpsertCommitment

(* A scaled amount is an amount. *)
LEMMA ScaleMoneyNat ==
  ASSUME NEW amount \in Nat, NEW num \in Nat, NEW den \in Nat \ {0}
  PROVE  ScaleMoney(amount, num, den) \in Nat
<1>1. 2 * amount * num + den \in Nat
  OBVIOUS
<1>2. 2 * den \in Nat /\ 2 * den > 0
  OBVIOUS
<1> DEFINE n == 2 * amount * num + den
           d == 2 * den
<1>3. n \in Nat /\ d \in Nat /\ d > 0
  BY <1>1, <1>2
<1> HIDE DEF n, d
<1>4. n \div d \in Nat
  BY <1>3
<1>5. QED
  BY <1>4 DEF n, d, ScaleMoney

LEMMA IndicativeNat ==
  ASSUME NEW l \in Listing, NEW s \in 0 .. FullAllocation
  PROVE  Indicative(l, s) \in Nat
BY ScaleMoneyNat, ConstantsAssumption DEF Indicative

(* What bindAllocations returns: terms for exactly the rows it was given,  *)
(* at their shares, whose amounts sum to the capacity.                     *)
LEMMA FinalAllocationsExact ==
  ASSUME NEW l \in Listing,
         NEW rows \in [Provider -> Row \cup {None}],
         NEW final \in FinalAllocations(l, rows)
  PROVE  /\ final \in [Provider -> Terms \cup {None}]
         /\ Holders(final) # {} /\ Holders(final) = Holders(rows)
         /\ TotalAmount(final) = Capacity[l]
         /\ \A p \in Provider : final[p] # None =>
              /\ rows[p] # None /\ final[p].share = rows[p].share
              /\ final[p].amount <= Capacity[l]
<1> DEFINE W == Holders(rows)
           weights == [p \in W |-> rows[p].share]
<1>1. PICK parts \in AllocateMoney(Capacity[l], weights) :
        final = [p \in Provider |-> IF p \in W
                   THEN [share |-> rows[p].share, amount |-> parts[p]] ELSE None]
  BY DEF FinalAllocations
<1>2. /\ parts \in [W -> 0 .. Capacity[l]]
      /\ SumOver(parts, W) = Capacity[l]
      /\ W # {}
  BY <1>1 DEF AllocateMoney
<1>3. Capacity[l] \in Nat /\ W \subseteq Provider
  BY ConstantsAssumption DEF Holders
<1>4. \A p \in W : rows[p] \in Row
  BY DEF Holders
<1>5. \A p \in W : [share |-> rows[p].share, amount |-> parts[p]] \in Terms
  BY <1>2, <1>3, <1>4 DEF Row, Terms
<1>6. final \in [Provider -> Terms \cup {None}]
  BY <1>1, <1>3, <1>5
<1>7. \A p \in Provider : final[p] # None <=> p \in W
  BY <1>1, <1>5, NoneAssumption
<1>8. Holders(final) = W
  BY <1>3, <1>7 DEF Holders
<1>9. Amounts(final) = parts
  BY <1>1, <1>2, <1>3, <1>8 DEF Amounts
<1>10. TotalAmount(final) = Capacity[l]
  BY <1>2, <1>8, <1>9 DEF TotalAmount
<1>11. \A p \in Provider : final[p] # None =>
         /\ rows[p] # None /\ final[p].share = rows[p].share
         /\ final[p].amount <= Capacity[l]
  BY <1>1, <1>2, <1>3, <1>7 DEF Holders
<1> QED
  BY <1>2, <1>6, <1>8, <1>10, <1>11

-----------------------------------------------------------------------------
(* Type correctness. *)

LEMMA InitType == Init => TypeOK
BY ConstantsAssumption DEF Init, TypeOK, NoRows, Idle, RequestState, RequestOK,
   ListingStatus, SyndicationStatus, ProviderSteps, OwnerSteps, ProposalSteps

LEMMA IdleOK == RequestOK(Idle)
BY ConstantsAssumption DEF RequestOK, Idle, NoRows, RequestState, ProviderSteps,
   OwnerSteps, ProposalSteps

(* Moving on to a later step of the same handler keeps a request well formed. *)
LEMMA GotoOK ==
  ASSUME NEW q, RequestOK(q), q.pc \notin {"idle", "withdraw.audit"},
         NEW pc \in ProviderSteps \cup OwnerSteps,
         pc \in ProviderSteps => q.pc \in ProviderSteps,
         pc \in ProposalSteps => q.pc \in ProposalSteps
  PROVE  RequestOK([q EXCEPT !.pc = pc])
BY DEF RequestOK, RequestState, ProviderSteps, OwnerSteps, ProposalSteps

(* A step of one request leaves the others as they are. *)
LEMMA BecomeOK ==
  ASSUME TypeOK, NEW r \in Request, NEW q, RequestOK(q), Become(r, q)
  PROVE  /\ req' \in [Request -> RequestState]
         /\ \A s \in Request : RequestOK(req'[s])
         /\ req'[r] = q
         /\ \A s \in Request : s # r => req'[s] = req[s]
BY DEF TypeOK, Become, RequestOK

LEMMA RequireOK ==
  ASSUME TypeOK, NEW r \in Request, req[r].pc \notin {"idle", "withdraw.audit"},
         NEW condition, NEW pc \in ProviderSteps \cup OwnerSteps,
         pc \in ProviderSteps => req[r].pc \in ProviderSteps,
         pc \in ProposalSteps => req[r].pc \in ProposalSteps,
         Require(r, condition, pc)
  PROVE  /\ req' \in [Request -> RequestState]
         /\ \A s \in Request : RequestOK(req'[s])
         /\ req'[r] = IF condition THEN [req[r] EXCEPT !.pc = pc] ELSE Idle
         /\ \A s \in Request : s # r => req'[s] = req[s]
<1>1. RequestOK(req[r])
  BY DEF TypeOK
<1>2. CASE condition
  BY <1>1, <1>2, GotoOK, BecomeOK DEF Require, Goto
<1>3. CASE ~condition
  BY <1>3, IdleOK, BecomeOK DEF Require, Finish
<1>4. QED
  BY <1>2, <1>3

(* The two reads of a withdrawal: the row it is about, or none. *)
LEMMA WithdrawListStep ==
  ASSUME TypeOK, NEW r \in Request, WithdrawList(r)
  PROVE  /\ req[r].pc = "withdraw.list" /\ req[r].lst \in Listing /\ req[r].org \in Provider
         /\ req' \in [Request -> RequestState]
         /\ \A s \in Request : RequestOK(req'[s])
         /\ \A s \in Request : s # r => req'[s] = req[s]
         /\ \/ req'[r] = Idle
            \/ /\ alloc[req[r].lst][req[r].org] # None
               /\ req'[r].pc = "withdraw.recheck"
               /\ req'[r].lst = req[r].lst /\ req'[r].org = req[r].org
               /\ req'[r].row = alloc[req[r].lst][req[r].org].id
<1> DEFINE row == alloc[req[r].lst][req[r].org]
<1>1. RequestOK(req[r]) /\ req[r].pc = "withdraw.list"
  BY DEF TypeOK, WithdrawList, At
<1>2. req[r].lst \in Listing /\ req[r].org \in Provider
  BY <1>1 DEF RequestOK, ProviderSteps
<1>3. CASE row = None
  BY <1>1, <1>2, <1>3, IdleOK, BecomeOK DEF WithdrawList, Finish
<1>4. CASE row # None
  <2>1. row.id \in RowId
    BY <1>2, <1>4 DEF TypeOK, Row
  <2>2. PICK i \in RowId : i = row.id
    BY <2>1
  <2>3. PICK q : q = [req[r] EXCEPT !.pc = "withdraw.recheck", !.row = i]
    OBVIOUS
  <2>4. Become(r, q)
    BY <1>4, <2>2, <2>3 DEF WithdrawList
  <2>5. /\ q.pc = "withdraw.recheck" /\ q.lst = req[r].lst /\ q.org = req[r].org
        /\ q.row = i /\ RequestOK(q)
    BY <1>1, <2>3 DEF RequestOK, RequestState, ProviderSteps, ProposalSteps
  <2>6. QED
    BY <1>1, <1>2, <1>4, <2>2, <2>4, <2>5, BecomeOK
<1>5. QED
  BY <1>3, <1>4

LEMMA WithdrawFindStep ==
  ASSUME TypeOK, NEW r \in Request, WithdrawFind(r)
  PROVE  /\ req[r].pc = "withdraw.find" /\ req[r].lst \in Listing /\ req[r].org \in Provider
         /\ req' \in [Request -> RequestState]
         /\ \A s \in Request : RequestOK(req'[s])
         /\ \A s \in Request : s # r => req'[s] = req[s]
         /\ req'[r].lst = req[r].lst /\ req'[r].org = req[r].org
         /\ \/ /\ alloc[req[r].lst][req[r].org] = None
               /\ req'[r].pc = "withdraw.audit" /\ req'[r].row = req[r].row /\ req'[r].gone
            \/ /\ alloc[req[r].lst][req[r].org] # None
               /\ req'[r].pc = "withdraw.delete"
               /\ req'[r].row = alloc[req[r].lst][req[r].org].id
<1> DEFINE row == alloc[req[r].lst][req[r].org]
<1>1. RequestOK(req[r]) /\ req[r].pc = "withdraw.find"
  BY DEF TypeOK, WithdrawFind, At
<1>2. req[r].lst \in Listing /\ req[r].org \in Provider
  BY <1>1 DEF RequestOK, ProviderSteps
<1>3. CASE row = None
  <2>1. PICK q : q = [req[r] EXCEPT !.pc = "withdraw.audit", !.gone = TRUE]
    OBVIOUS
  <2>2. Become(r, q)
    BY <1>3, <2>1 DEF WithdrawFind
  <2>3. /\ q.pc = "withdraw.audit" /\ q.lst = req[r].lst /\ q.org = req[r].org
        /\ q.row = req[r].row /\ q.gone /\ RequestOK(q)
    BY <1>1, <2>1 DEF RequestOK, RequestState, ProviderSteps, ProposalSteps
  <2>4. QED
    BY <1>1, <1>2, <1>3, <2>2, <2>3, BecomeOK
<1>4. CASE row # None
  <2>1. row.id \in RowId
    BY <1>2, <1>4 DEF TypeOK, Row
  <2>2. PICK i \in RowId : i = row.id
    BY <2>1
  <2>3. PICK q : q = [req[r] EXCEPT !.pc = "withdraw.delete", !.row = i]
    OBVIOUS
  <2>4. Become(r, q)
    BY <1>4, <2>2, <2>3 DEF WithdrawFind
  <2>5. /\ q.pc = "withdraw.delete" /\ q.lst = req[r].lst /\ q.org = req[r].org
        /\ q.row = i /\ RequestOK(q)
    BY <1>1, <2>3 DEF RequestOK, RequestState, ProviderSteps, ProposalSteps
  <2>6. QED
    BY <1>1, <1>2, <1>4, <2>2, <2>4, <2>5, BecomeOK
<1>5. QED
  BY <1>3, <1>4

(* The steps that only check what they read. *)
LEMMA CheckType ==
  ASSUME TypeOK, NEW r \in Request,
         \/ OpenFind(r) \/ ProposeInterest(r) \/ ProposeList(r)
         \/ ProposeAppetite(r) \/ ProposePosition(r) \/ ProposeRecheck(r)
         \/ WithdrawRecheck(r)
  PROVE  TypeOK'
<1>1. /\ req' \in [Request -> RequestState]
      /\ \A s \in Request : RequestOK(req'[s])
  BY RequireOK DEF OpenFind, ProposeInterest, ProposeList, ProposeAppetite,
     ProposePosition, ProposeRecheck, WithdrawRecheck, At,
     ProviderSteps, OwnerSteps, ProposalSteps
<1>2. UNCHANGED <<market, synd, alloc, history, audit>>
  BY DEF OpenFind, ProposeInterest, ProposeList, ProposeAppetite,
     ProposePosition, ProposeRecheck, WithdrawRecheck
<1>3. QED
  BY <1>1, <1>2 DEF TypeOK, market, history

LEMMA ArriveType ==
  ASSUME TypeOK, NEW r \in Request, Arrive(r)
  PROVE  TypeOK'
<1>1. \E pc \in ProviderSteps \cup OwnerSteps, p \in Provider \cup {Owner},
         l \in Listing, s \in 0 .. FullAllocation :
        /\ pc \in ProviderSteps => p \in Provider
        /\ pc \in ProposalSteps => s \in Shares
        /\ Begin(r, pc, p, l, s)
  BY ConstantsAssumption DEF Arrive, OpenStart, BindStart, ProposeStart, WithdrawStart, InterestStart,
     ProviderSteps, OwnerSteps, ProposalSteps
<1>2. PICK pc \in ProviderSteps \cup OwnerSteps, p \in Provider \cup {Owner},
         l \in Listing, s \in 0 .. FullAllocation :
        /\ pc \in ProviderSteps => p \in Provider
        /\ pc \in ProposalSteps => s \in Shares
        /\ Begin(r, pc, p, l, s)
  BY <1>1
<1>3. RequestOK([Idle EXCEPT !.pc = pc, !.org = p, !.lst = l, !.share = s])
  BY <1>2, ConstantsAssumption DEF RequestOK, RequestState, Idle, NoRows
<1>4. /\ req' \in [Request -> RequestState]
      /\ \A s2 \in Request : RequestOK(req'[s2])
  BY <1>2, <1>3, BecomeOK DEF Begin
<1>5. UNCHANGED <<market, synd, alloc, history, audit>>
  BY DEF Arrive, OpenStart, BindStart, ProposeStart, WithdrawStart, InterestStart
<1>6. QED
  BY <1>4, <1>5 DEF TypeOK, market, history

LEMMA RecordType ==
  ASSUME TypeOK, NEW r \in Request, NEW pc \in OwnerSteps \cup ProviderSteps,
         NEW action \in {"open", "propose", "withdraw", "bind"},
         Record(r, pc, action)
  PROVE  TypeOK'
<1>1. /\ req' \in [Request -> RequestState]
      /\ \A s \in Request : RequestOK(req'[s])
  BY IdleOK, BecomeOK DEF Record, Finish
<1>2. /\ req[r].lst \in Listing /\ req[r].org \in Provider \cup {Owner}
      /\ req[r].row \in RowId \cup {None} /\ req[r].gone \in BOOLEAN
  BY DEF TypeOK, RequestOK, RequestState, Record, At, OwnerSteps, ProviderSteps, ProposalSteps
<1>3. audit' \subseteq AuditRecord
  <2>1. Entry(req[r], action) \in AuditRecord
    BY <1>2 DEF Entry, AuditRecord
  <2>2. QED
    BY <2>1 DEF TypeOK, Record
<1>4. QED
  BY <1>1, <1>3 DEF TypeOK, Record, market, history

LEMMA OpenCreateType ==
  ASSUME TypeOK, NEW r \in Request, OpenCreate(r)
  PROVE  TypeOK'
<1>1. /\ req' \in [Request -> RequestState]
      /\ \A s \in Request : RequestOK(req'[s])
  BY RequireOK DEF OpenCreate, At, ProviderSteps, OwnerSteps, ProposalSteps
<1>2. synd' \in [Listing -> SyndicationStatus]
  BY DEF TypeOK, OpenCreate, SyndicationStatus
<1>3. QED
  BY <1>1, <1>2 DEF TypeOK, OpenCreate, market, history

LEMMA ProposeCommitmentType ==
  ASSUME TypeOK, NEW r \in Request, ProposeCommitment(r)
  PROVE  TypeOK'
<1> DEFINE c == commitment[req[r].org]
           q == [req[r] EXCEPT !.pc = "propose.position", !.ceiling = c]
<1>1. RequestOK(req[r]) /\ req[r].pc = "propose.commitment"
  BY DEF TypeOK, ProposeCommitment, At
<1>2. c \in Nat \cup {None}
  BY <1>1 DEF TypeOK, RequestOK, ProviderSteps, ProposalSteps
<1>3. c # None => RequestOK(q)
  BY <1>1, <1>2 DEF RequestOK, RequestState, ProviderSteps, ProposalSteps
<1>4. /\ req' \in [Request -> RequestState]
      /\ \A s \in Request : RequestOK(req'[s])
  BY <1>3, IdleOK, BecomeOK DEF ProposeCommitment, Finish
<1>5. QED
  BY <1>4 DEF TypeOK, ProposeCommitment, market, history

LEMMA ProposeInsertType ==
  ASSUME TypeOK, NEW r \in Request, ProposeInsert(r)
  PROVE  TypeOK'
<1> DEFINE p == req[r].org
           l == req[r].lst
           s == req[r].share
           a == Indicative(l, s)
<1>1. RequestOK(req[r]) /\ req[r].pc = "propose.insert"
  BY DEF TypeOK, ProposeInsert, At
<1>2. p \in Provider /\ l \in Listing /\ s \in 1 .. FullAllocation /\ a \in Nat
  <2>1. p \in Provider /\ l \in Listing /\ s \in 1 .. FullAllocation
    BY <1>1, ConstantsAssumption DEF RequestOK, RequestState, ProviderSteps, ProposalSteps
  <2>2. QED
    BY <2>1, IndicativeNat, ConstantsAssumption
<1>3. /\ req' \in [Request -> RequestState]
      /\ \A q \in Request : RequestOK(req'[q])
  <2>1. ASSUME NEW i \in RowId
        PROVE  RequestOK([req[r] EXCEPT !.pc = "propose.audit", !.row = i])
    BY <1>1 DEF RequestOK, RequestState, ProviderSteps, ProposalSteps
  <2>2. \/ Finish(r)
        \/ \E i \in RowId : Become(r, [req[r] EXCEPT !.pc = "propose.audit", !.row = i])
    BY DEF ProposeInsert, Unused
  <2>3. QED
    BY <2>1, <2>2, IdleOK, BecomeOK DEF Finish
<1>4. /\ alloc' \in [Listing -> [Provider -> Row \cup {None}]]
      /\ proposed' \in [RowId -> Proposal \cup {None}]
  <2>1. CASE UNCHANGED <<alloc, proposed>>
    BY <2>1 DEF TypeOK
  <2>2. ASSUME NEW i \in Unused,
               alloc' = [alloc EXCEPT ![l][p] = [id |-> i, share |-> s, amount |-> a]],
               proposed' = [proposed EXCEPT ![i] =
                              [lst |-> l, org |-> p, share |-> s, amount |-> a]]
        PROVE  /\ alloc' \in [Listing -> [Provider -> Row \cup {None}]]
               /\ proposed' \in [RowId -> Proposal \cup {None}]
    <3> HIDE DEF p, l, s, a
    <3>1. i \in RowId
      BY DEF Unused
    <3>2. [id |-> i, share |-> s, amount |-> a] \in Row
      BY <1>2, <3>1 DEF Row
    <3>3. [lst |-> l, org |-> p, share |-> s, amount |-> a] \in Proposal
      BY <1>2 DEF Proposal
    <3>4. QED
      BY <1>2, <2>2, <3>1, <3>2, <3>3 DEF TypeOK
  <2>3. QED
    BY <2>1, <2>2 DEF ProposeInsert
<1>5. QED
  BY <1>3, <1>4 DEF TypeOK, ProposeInsert, market

LEMMA WithdrawReadType ==
  ASSUME TypeOK, NEW r \in Request, WithdrawList(r) \/ WithdrawFind(r)
  PROVE  TypeOK'
<1>1. /\ req' \in [Request -> RequestState]
      /\ \A s \in Request : RequestOK(req'[s])
  BY WithdrawListStep, WithdrawFindStep
<1>2. QED
  BY <1>1 DEF TypeOK, WithdrawList, WithdrawFind, market, history

LEMMA WithdrawDeleteType ==
  ASSUME TypeOK, NEW r \in Request, WithdrawDelete(r)
  PROVE  TypeOK'
<1> DEFINE p == req[r].org
           l == req[r].lst
           i == req[r].row
<1>1. RequestOK(req[r]) /\ req[r].pc = "withdraw.delete"
  BY DEF TypeOK, WithdrawDelete, At
<1>2. p \in Provider /\ l \in Listing
  BY <1>1 DEF RequestOK, RequestState, ProviderSteps
<1>3. /\ req' \in [Request -> RequestState]
      /\ \A s \in Request : RequestOK(req'[s])
  BY <1>1, RequireOK DEF WithdrawDelete, ProviderSteps, ProposalSteps
<1>4. Deletable(l, p, i) => i \in RowId
  BY <1>2 DEF TypeOK, Deletable, Row
<1>5. removed' \subseteq RowId
  BY <1>4 DEF TypeOK, WithdrawDelete
<1>6. alloc' \in [Listing -> [Provider -> Row \cup {None}]]
  BY <1>2 DEF TypeOK, WithdrawDelete
<1>7. QED
  BY <1>3, <1>5, <1>6 DEF TypeOK, WithdrawDelete, market

LEMMA BindListType ==
  ASSUME TypeOK, NEW r \in Request, BindList(r)
  PROVE  TypeOK'
<1> DEFINE l == req[r].lst
<1>1. RequestOK(req[r]) /\ req[r].pc = "bind.list"
  BY DEF TypeOK, BindList, At
<1>2. l \in Listing /\ alloc[l] \in [Provider -> Row \cup {None}]
  BY <1>1 DEF TypeOK, RequestOK, RequestState
<1>3. ASSUME NEW f \in FinalAllocations(l, alloc[l])
      PROVE  RequestOK([req[r] EXCEPT !.pc = "bind.find", !.final = f])
  <2>1. f \in [Provider -> Terms \cup {None}]
    BY <1>2, <1>3, FinalAllocationsExact
  <2>2. QED
    BY <1>1, <1>2, <2>1 DEF RequestOK, RequestState, OwnerSteps, ProviderSteps, ProposalSteps
<1>4. /\ req' \in [Request -> RequestState]
      /\ \A s \in Request : RequestOK(req'[s])
  BY <1>3, IdleOK, BecomeOK DEF BindList, Finish
<1>5. QED
  BY <1>4 DEF TypeOK, BindList, market, history

LEMMA BindFindType ==
  ASSUME TypeOK, NEW r \in Request, BindFind(r)
  PROVE  TypeOK'
<1> DEFINE rows == alloc[req[r].lst]
           ids == [p \in Provider |-> IF rows[p] = None THEN None ELSE rows[p].id]
           q == [req[r] EXCEPT !.pc = "bind.commit", !.found = ids]
<1>1. RequestOK(req[r]) /\ req[r].pc = "bind.find"
  BY DEF TypeOK, BindFind, At
<1>2. rows \in [Provider -> Row \cup {None}]
  BY <1>1 DEF TypeOK, RequestOK, RequestState
<1>3. ids \in [Provider -> RowId \cup {None}]
  BY <1>2 DEF Row
<1>4. RequestOK(q)
  <2> HIDE DEF ids
  <2> QED
    BY <1>1, <1>3 DEF RequestOK, RequestState, OwnerSteps, ProviderSteps, ProposalSteps
<1>5. /\ req' \in [Request -> RequestState]
      /\ \A s \in Request : RequestOK(req'[s])
  BY <1>4, BecomeOK DEF BindFind
<1>6. QED
  BY <1>5 DEF TypeOK, BindFind, market, history

LEMMA BindCommitType ==
  ASSUME TypeOK, NEW r \in Request, BindCommit(r)
  PROVE  TypeOK'
<1> DEFINE l == req[r].lst
           final == req[r].final
           rows == [p \in Provider |-> IF final[p] = None THEN alloc[l][p]
                      ELSE [alloc[l][p] EXCEPT !.amount = final[p].amount]]
<1>1. RequestOK(req[r]) /\ req[r].pc = "bind.commit"
  BY DEF TypeOK, BindCommit, At
<1>2. l \in Listing /\ final \in [Provider -> Terms \cup {None}]
  BY <1>1 DEF RequestOK, RequestState, OwnerSteps
<1>3. /\ req' \in [Request -> RequestState]
      /\ \A s \in Request : RequestOK(req'[s])
  BY <1>1, RequireOK DEF BindCommit, OwnerSteps, ProviderSteps, ProposalSteps
<1>4. CASE Updatable(l, final, req[r].found)
  <2>1. ASSUME NEW p \in Provider
        PROVE  rows[p] \in Row \cup {None}
    <3>1. CASE final[p] = None
      BY <1>2, <3>1 DEF TypeOK
    <3>2. CASE final[p] # None
      <4>1. alloc[l][p] \in Row
        BY <1>2, <1>4, <3>2 DEF TypeOK, Updatable, Holders
      <4>2. final[p].amount \in Nat
        BY <1>2, <3>2 DEF Terms
      <4>3. QED
        BY <3>2, <4>1, <4>2 DEF Row
    <3>3. QED
      BY <3>1, <3>2
  <2>2. alloc' = [alloc EXCEPT ![l] = rows]
    BY <1>2, <1>4 DEF BindCommit, TypeOK
  <2>3. alloc' \in [Listing -> [Provider -> Row \cup {None}]]
    <3>1. rows \in [Provider -> Row \cup {None}]
      BY <2>1
    <3> HIDE DEF rows
    <3>2. QED
      BY <3>1, <2>2, <1>2 DEF TypeOK
  <2>4. /\ synd' \in [Listing -> SyndicationStatus]
        /\ bound' \in [Listing -> [Provider -> Terms \cup {None}]]
    BY <1>2, <1>4 DEF TypeOK, BindCommit, SyndicationStatus
  <2>5. QED
    BY <1>3, <2>3, <2>4 DEF TypeOK, BindCommit, market
<1>5. CASE ~Updatable(l, final, req[r].found)
  BY <1>3, <1>5 DEF TypeOK, BindCommit, market
<1>6. QED
  BY <1>4, <1>5

LEMMA BindMatchType ==
  ASSUME TypeOK, NEW r \in Request, BindMatch(r)
  PROVE  TypeOK'
<1>1. RequestOK(req[r]) /\ req[r].pc = "bind.match"
  BY DEF TypeOK, BindMatch, At
<1>2. RequestOK([req[r] EXCEPT !.pc = "bind.audit"])
  BY <1>1, GotoOK DEF OwnerSteps, ProviderSteps, ProposalSteps
<1>3. /\ req' \in [Request -> RequestState]
      /\ \A s \in Request : RequestOK(req'[s])
  BY <1>2, BecomeOK DEF BindMatch, Goto
<1>4. listing' \in [Listing -> ListingStatus]
  BY DEF TypeOK, BindMatch, ListingStatus
<1>5. QED
  BY <1>3, <1>4 DEF TypeOK, BindMatch, history

LEMMA InterestUpsertType ==
  ASSUME TypeOK, NEW r \in Request, InterestUpsert(r)
  PROVE  TypeOK'
<1>1. RequestOK(req[r]) /\ req[r].pc = "interest.upsert"
  BY DEF TypeOK, InterestUpsert, At
<1>2. req[r].org \in Provider /\ req[r].lst \in Listing
  BY <1>1 DEF RequestOK, RequestState, ProviderSteps
<1>3. /\ req' \in [Request -> RequestState]
      /\ \A s \in Request : RequestOK(req'[s])
  BY IdleOK, BecomeOK DEF InterestUpsert, Finish
<1>4. interest' \in [Listing -> SUBSET Provider]
  BY <1>2 DEF TypeOK, InterestUpsert
<1>5. QED
  BY <1>3, <1>4 DEF TypeOK, InterestUpsert, history

LEMMA CrashType ==
  ASSUME TypeOK, NEW r \in Request, Crash(r)
  PROVE  TypeOK'
<1>1. /\ req' \in [Request -> RequestState]
      /\ \A s \in Request : RequestOK(req'[s])
  BY IdleOK, BecomeOK DEF Crash, Finish
<1>2. QED
  BY <1>1 DEF TypeOK, Crash, market, history

LEMMA WriteType ==
  ASSUME TypeOK, Write
  PROVE  TypeOK'
<1>1. ASSUME NEW l \in Listing, WithdrawListing(l)
      PROVE  TypeOK'
  BY <1>1 DEF TypeOK, WithdrawListing, ListingStatus, history
<1>2. ASSUME NEW p \in Provider, NEW l \in Listing, WithdrawInterest(p, l)
      PROVE  TypeOK'
  <2>1. interest' \in [Listing -> SUBSET Provider]
    BY <1>2 DEF TypeOK, WithdrawInterest
  <2>2. QED
    BY <1>2, <2>1 DEF TypeOK, WithdrawInterest, history
<1>3. ASSUME NEW p \in Provider, NEW e \in Exposures, SetAppetite(p, e)
      PROVE  TypeOK'
  BY <1>3, ConstantsAssumption DEF TypeOK, SetAppetite, history
<1>4. ASSUME NEW p \in Provider, NEW c \in Ceilings, SetCommitment(p, c)
      PROVE  TypeOK'
  BY <1>4, ConstantsAssumption DEF TypeOK, SetCommitment, history
<1>5. QED
  BY <1>1, <1>2, <1>3, <1>4 DEF Write

LEMMA NextType == TypeOK /\ [Next]_vars => TypeOK'
<1> SUFFICES ASSUME TypeOK, [Next]_vars PROVE TypeOK'
  OBVIOUS
<1>1. CASE UNCHANGED vars
  BY <1>1 DEF TypeOK, vars
<1>2. ASSUME NEW r \in Request, Step(r)
      PROVE  TypeOK'
  BY <1>2, CheckType, OpenCreateType, ProposeCommitmentType, ProposeInsertType,
     WithdrawReadType, WithdrawDeleteType, BindListType, BindFindType, BindCommitType,
     BindMatchType, InterestUpsertType, RecordType DEF Step, OwnerSteps, ProviderSteps
<1>3. QED
  BY <1>1, <1>2, ArriveType, CrashType, WriteType DEF Next

(* Every variable keeps its type, and every request on its way knows the   *)
(* listing, provider and share it works on, for any instance.              *)
THEOREM TypeCorrect == Spec => []TypeOK
<1>1. QED
  BY InitType, NextType, PTL DEF Spec

-----------------------------------------------------------------------------
(* The inductive invariant.  Each property below needs what the handlers in *)
(* flight have read and still rely on (HandlersKnow); that in turn needs    *)
(* the rows to be what the events say of them.                              *)

StoredInv ==
  /\ HistoryExplainsRows
  /\ BoundIsExact
  /\ MatchedOnlyIfBound
  /\ BoundByConsent
  /\ ProposalBacked
  /\ RecordsTellOfChanges

IInv == TypeOK /\ StoredInv /\ HandlersKnow /\ ChangesHaveOneMaker

(* What no step takes back. *)
Grows ==
  /\ \A l \in Listing : /\ synd[l] # "NONE" => synd'[l] # "NONE"
                        /\ synd[l] = "BOUND" => synd'[l] = "BOUND"
  /\ \A p \in Provider : commitment[p] # None => commitment'[p] # None
  /\ \A i \in RowId : proposed[i] # None => proposed'[i] = proposed[i]
  /\ removed \subseteq removed'

(* What a request that does not move knows stays true. *)
LEMMA KnowsPersists ==
  ASSUME TypeOK, Grows, NEW s \in Request, Knows(req[s]), req'[s] = req[s]
  PROVE  Knows(req[s])'
<1>1. RequestOK(req[s])
  BY DEF TypeOK
<1>2. ASSUME NEW l \in Listing, NEW p \in Provider
      PROVE  \A i : ProposedBy(i, l, p) => ProposedBy(i, l, p)'
  BY DEF ProposedBy, Grows
<1>3. ASSUME NEW l \in Listing, NEW p \in Provider, NEW t \in 1 .. FullAllocation
      PROVE  HasProposedShare(l, p, t) => HasProposedShare(l, p, t)'
  BY DEF HasProposedShare, Grows
<1>4. req[s].pc # "idle" => req[s].lst \in Listing
  BY <1>1 DEF RequestOK
<1>5. req[s].pc \in ProviderSteps => req[s].org \in Provider
  BY <1>1 DEF RequestOK
<1>6. \A p \in Provider : req[s].final[p] # None => req[s].final[p].share \in 1 .. FullAllocation
  BY <1>1 DEF RequestOK, RequestState, Terms
<1>7. QED
  BY <1>2, <1>3, <1>4, <1>5, <1>6 DEF Knows, Grows, ProviderSteps, OwnerSteps, ProposalSteps

(* It is enough to look at the request that takes the step. *)
LEMMA OthersKnow ==
  ASSUME TypeOK, HandlersKnow, Grows, NEW r \in Request,
         \A s \in Request : s # r => req'[s] = req[s],
         Knows(req[r])'
  PROVE  HandlersKnow'
<1>1. ASSUME NEW s \in Request
      PROVE  Knows(req[s])'
  <2>1. CASE s = r
    BY <2>1
  <2>2. CASE s # r
    BY <2>2, KnowsPersists DEF HandlersKnow
  <2>3. QED
    BY <2>1, <2>2
<1>2. QED
  BY <1>1 DEF HandlersKnow

(* What the audit tells of is not taken back. *)
LEMMA RecordsKeepTelling ==
  ASSUME TypeOK, RecordsTellOfChanges, Grows, audit' = audit
  PROVE  RecordsTellOfChanges'
BY DEF TypeOK, AuditRecord, RecordsTellOfChanges, Grows, ProposedBy

LEMMA IdleKnows == ASSUME NEW r, req'[r] = Idle PROVE Knows(req[r])'
BY DEF Knows, Idle, ProviderSteps, OwnerSteps, ProposalSteps

(* A step that writes nothing but its request disturbs nothing stored. *)
LEMMA KeepsTables ==
  ASSUME StoredInv, UNCHANGED <<market, synd, alloc, history, audit>>
  PROVE  StoredInv' /\ Grows
<1>1. Grows
  BY DEF Grows, market, history
<1>2. HistoryExplainsRows' /\ BoundIsExact' /\ MatchedOnlyIfBound'
  BY DEF StoredInv, HistoryExplainsRows, BoundIsExact, MatchedOnlyIfBound, market, history
<1>3. BoundByConsent' /\ ProposalBacked'
  BY DEF StoredInv, BoundByConsent, HasProposedShare, ProposalBacked, market, history
<1>4. RecordsTellOfChanges'
  BY DEF StoredInv, RecordsTellOfChanges, ProposedBy, market, history
<1>5. QED
  BY <1>1, <1>2, <1>3, <1>4 DEF StoredInv

(* Steps that only read: what the acting request knows next follows from   *)
(* what it has just read and what it knew before.                          *)
LEMMA ArriveInv ==
  ASSUME IInv, NEW r \in Request, Arrive(r)
  PROVE  StoredInv' /\ HandlersKnow'
<1>1. UNCHANGED <<market, synd, alloc, history, audit>>
  BY DEF Arrive, OpenStart, BindStart, ProposeStart, WithdrawStart, InterestStart
<1>2. StoredInv' /\ Grows
  BY <1>1, KeepsTables DEF IInv
<1>3. PICK pc \in {"open.find", "bind.list", "propose.interest", "withdraw.list",
                 "interest.upsert"},
         l \in Listing, p \in Provider \cup {Owner}, t \in Shares \cup {0} :
        /\ Begin(r, pc, p, l, t)
        /\ pc \in {"bind.list", "propose.interest", "withdraw.list"} => synd[l] = "OPEN"
  BY DEF Arrive, OpenStart, BindStart, ProposeStart, WithdrawStart, InterestStart
<1>4. /\ req'[r].pc = pc /\ req'[r].lst = l
       /\ \A s \in Request : s # r => req'[s] = req[s]
  BY <1>3 DEF Begin, Become, Idle, IInv, TypeOK
<1>5. Knows(req[r])'
  BY <1>1, <1>3, <1>4 DEF Knows, ProviderSteps, OwnerSteps, ProposalSteps
<1>6. HandlersKnow'
  BY <1>2, <1>4, <1>5, OthersKnow DEF IInv
<1>7. QED
  BY <1>2, <1>6

LEMMA CheckInv ==
  ASSUME IInv, NEW r \in Request,
         \/ OpenFind(r) \/ ProposeInterest(r) \/ ProposeList(r)
         \/ ProposeAppetite(r) \/ ProposePosition(r) \/ ProposeRecheck(r)
         \/ WithdrawRecheck(r)
  PROVE  StoredInv' /\ HandlersKnow'
<1>1. UNCHANGED <<market, synd, alloc, history, audit>>
  BY DEF OpenFind, ProposeInterest, ProposeList, ProposeAppetite,
     ProposePosition, ProposeRecheck, WithdrawRecheck
<1>2. StoredInv' /\ Grows
  BY <1>1, KeepsTables DEF IInv
<1>3. TypeOK /\ RequestOK(req[r]) /\ Knows(req[r])
  BY DEF IInv, TypeOK, HandlersKnow
<1>4. \A s \in Request : s # r => req'[s] = req[s]
  BY <1>3, RequireOK DEF OpenFind, ProposeInterest, ProposeList, ProposeAppetite,
     ProposePosition, ProposeRecheck, WithdrawRecheck, At,
     ProviderSteps, OwnerSteps, ProposalSteps
<1>5. req'[r] = Idle => Knows(req[r])'
  BY IdleKnows
<1>6. ASSUME OpenFind(r), req'[r] # Idle
      PROVE  Knows(req[r])'
  <2>1. req'[r] = [req[r] EXCEPT !.pc = "open.create"]
    BY <1>3, <1>6, RequireOK DEF OpenFind, At, OwnerSteps, ProviderSteps, ProposalSteps
  <2>2. QED
    BY <1>3, <2>1 DEF Knows, RequestOK, RequestState, ProviderSteps, OwnerSteps, ProposalSteps
<1>8. ASSUME WithdrawRecheck(r), req'[r] # Idle
      PROVE  Knows(req[r])'
  <2>1. /\ req'[r] = [req[r] EXCEPT !.pc = "withdraw.find"]
        /\ req[r].pc = "withdraw.recheck"
    BY <1>3, <1>8, RequireOK DEF WithdrawRecheck, At, OwnerSteps, ProviderSteps, ProposalSteps
  <2>2. ProposedBy(req[r].row, req[r].lst, req[r].org)'
    BY <1>1, <1>3, <2>1 DEF Knows, ProposedBy, history, RequestOK, RequestState
  <2>3. /\ req'[r].pc = "withdraw.find" /\ req'[r].lst = req[r].lst
        /\ synd'[req[r].lst] # "NONE"
    BY <1>1, <1>3, <2>1 DEF Knows, RequestOK, RequestState, ProviderSteps
  <2>4. QED
    BY <2>2, <2>3 DEF Knows
<1>9. ASSUME req'[r] # Idle,
             \/ ProposeInterest(r) \/ ProposeList(r) \/ ProposeAppetite(r)
             \/ ProposePosition(r) \/ ProposeRecheck(r)
      PROVE  Knows(req[r])'
  <2>1. PICK pc \in ProposalSteps :
          /\ req'[r] = [req[r] EXCEPT !.pc = pc]
          /\ pc \in {"propose.recheck", "propose.insert"} =>
               req[r].pc \in {"propose.position", "propose.recheck"}
          /\ pc # "propose.position"
          /\ req[r].pc \in ProposalSteps
    BY <1>3, <1>9, RequireOK DEF ProposeInterest, ProposeList, ProposeAppetite,
       ProposePosition, ProposeRecheck, At, OwnerSteps, ProviderSteps, ProposalSteps
  <2>2. QED
    BY <1>1, <1>3, <2>1 DEF Knows, RequestOK, RequestState, ProviderSteps,
       OwnerSteps, ProposalSteps, market
<1>10. HandlersKnow'
  BY <1>2, <1>3, <1>4, <1>5, <1>6, <1>8, <1>9, OthersKnow DEF IInv
<1>11. QED
  BY <1>2, <1>10

LEMMA ProposeCommitmentInv ==
  ASSUME IInv, NEW r \in Request, ProposeCommitment(r)
  PROVE  StoredInv' /\ HandlersKnow'
<1> DEFINE c == commitment[req[r].org]
<1>1. UNCHANGED <<market, synd, alloc, history, audit>>
  BY DEF ProposeCommitment
<1>2. StoredInv' /\ Grows
  BY <1>1, KeepsTables DEF IInv
<1>3. TypeOK /\ RequestOK(req[r]) /\ Knows(req[r]) /\ req[r].pc = "propose.commitment"
  BY DEF IInv, TypeOK, HandlersKnow, ProposeCommitment, At
<1>4. CASE c = None
  BY <1>2, <1>4, IdleKnows, OthersKnow
     DEF ProposeCommitment, Finish, Become, IInv, TypeOK
<1>5. CASE c # None
  <2>1. req' = [req EXCEPT ![r] =
                  [req[r] EXCEPT !.pc = "propose.position", !.ceiling = c]]
    BY <1>5 DEF ProposeCommitment, Become
  <2>2. /\ req'[r] = [req[r] EXCEPT !.pc = "propose.position", !.ceiling = c]
        /\ \A s \in Request : s # r => req'[s] = req[s]
    BY <1>3, <2>1 DEF TypeOK
  <2>3. Knows(req[r])'
    BY <1>1, <1>3, <1>5, <2>2 DEF Knows, RequestOK, RequestState, ProviderSteps,
       OwnerSteps, ProposalSteps, market
  <2>4. QED
    BY <1>2, <2>2, <2>3, OthersKnow DEF IInv
<1>6. QED
  BY <1>4, <1>5

LEMMA WithdrawListInv ==
  ASSUME IInv, NEW r \in Request, WithdrawList(r)
  PROVE  StoredInv' /\ HandlersKnow'
<1> DEFINE p == req[r].org
           l == req[r].lst
<1>1. UNCHANGED <<market, synd, alloc, history, audit>>
  BY DEF WithdrawList
<1>2. StoredInv' /\ Grows
  BY <1>1, KeepsTables DEF IInv
<1>3. /\ TypeOK /\ Knows(req[r]) /\ req[r].pc = "withdraw.list"
      /\ l \in Listing /\ p \in Provider
      /\ \A s \in Request : s # r => req'[s] = req[s]
  BY WithdrawListStep DEF IInv, HandlersKnow
<1>4. CASE req'[r] = Idle
  BY <1>2, <1>3, <1>4, IdleKnows, OthersKnow DEF IInv
<1>5. CASE req'[r] # Idle
  <2>1. /\ alloc[l][p] # None
        /\ req'[r].pc = "withdraw.recheck" /\ req'[r].lst = l /\ req'[r].org = p
        /\ req'[r].row = alloc[l][p].id
    BY <1>5, WithdrawListStep DEF IInv
  <2>2. alloc[l][p].id \in RowId
    BY <1>3, <2>1 DEF TypeOK, Row
  <2>3. ProposedBy(alloc[l][p].id, l, p)
    BY <1>3, <2>1, <2>2 DEF IInv, StoredInv, HistoryExplainsRows, ProposedBy
  <2>4. proposed' = proposed /\ synd' = synd
    BY <1>1 DEF history
  <2>5. Knows(req[r])'
    BY <1>3, <2>1, <2>3, <2>4 DEF Knows, ProposedBy, ProviderSteps
  <2>6. QED
    BY <1>2, <1>3, <2>5, OthersKnow DEF IInv
<1>6. QED
  BY <1>4, <1>5

LEMMA WithdrawFindInv ==
  ASSUME IInv, NEW r \in Request, WithdrawFind(r)
  PROVE  StoredInv' /\ HandlersKnow'
<1> DEFINE p == req[r].org
           l == req[r].lst
<1>1. UNCHANGED <<market, synd, alloc, history, audit>>
  BY DEF WithdrawFind
<1>2. StoredInv' /\ Grows
  BY <1>1, KeepsTables DEF IInv
<1>3. /\ TypeOK /\ Knows(req[r]) /\ req[r].pc = "withdraw.find"
      /\ l \in Listing /\ p \in Provider
      /\ req'[r].lst = l /\ req'[r].org = p
      /\ \A s \in Request : s # r => req'[s] = req[s]
  BY WithdrawFindStep DEF IInv, HandlersKnow
<1>4. ProposedBy(req[r].row, l, p) /\ synd[l] # "NONE"
  BY <1>3 DEF Knows, ProviderSteps
(* A row that was proposed and is not there has been removed. *)
<1>5. alloc[l][p] = None => req[r].row \in removed
  BY <1>4 DEF IInv, StoredInv, HistoryExplainsRows, ProposedBy
<1>6. alloc[l][p] # None => ProposedBy(alloc[l][p].id, l, p)
  <2>1. alloc[l][p] # None => alloc[l][p].id \in RowId
    BY <1>3 DEF TypeOK, Row
  <2>2. QED
    BY <1>3, <2>1 DEF IInv, StoredInv, HistoryExplainsRows, ProposedBy
<1>7. \/ /\ alloc[l][p] = None /\ req'[r].pc = "withdraw.audit" /\ req'[r].row = req[r].row
      \/ /\ alloc[l][p] # None /\ req'[r].pc = "withdraw.delete"
         /\ req'[r].row = alloc[l][p].id
  BY WithdrawFindStep DEF IInv
<1>8. Knows(req[r])'
  <2>1. UNCHANGED <<synd, proposed, removed>>
    BY <1>1 DEF history
  <2>2. CASE req'[r].pc = "withdraw.audit"
    BY <1>3, <1>4, <1>5, <1>7, <2>1, <2>2 DEF Knows, ProposedBy
  <2>3. CASE req'[r].pc = "withdraw.delete"
    BY <1>3, <1>4, <1>6, <1>7, <2>1, <2>3 DEF Knows, ProposedBy
  <2>4. QED
    BY <1>7, <2>2, <2>3
<1>9. QED
  BY <1>2, <1>3, <1>8, OthersKnow DEF IInv

LEMMA BindListInv ==
  ASSUME IInv, NEW r \in Request, BindList(r)
  PROVE  StoredInv' /\ HandlersKnow'
<1> DEFINE l == req[r].lst
<1>1. UNCHANGED <<market, synd, alloc, history, audit>>
  BY DEF BindList
<1>2. StoredInv' /\ Grows
  BY <1>1, KeepsTables DEF IInv
<1>3. TypeOK /\ RequestOK(req[r]) /\ Knows(req[r]) /\ req[r].pc = "bind.list"
  BY DEF IInv, TypeOK, HandlersKnow, BindList, At
<1>4. /\ l \in Listing /\ alloc[l] \in [Provider -> Row \cup {None}]
      /\ synd[l] # "NONE"
  BY <1>3 DEF TypeOK, RequestOK, RequestState, Knows, OwnerSteps
<1>5. ASSUME NEW f \in FinalAllocations(l, alloc[l]),
             Become(r, [req[r] EXCEPT !.pc = "bind.find", !.final = f])
      PROVE  Knows(req[r])' /\ \A s \in Request : s # r => req'[s] = req[s]
  <2>1. /\ req'[r] = [req[r] EXCEPT !.pc = "bind.find", !.final = f]
        /\ \A s \in Request : s # r => req'[s] = req[s]
    BY <1>3, <1>5 DEF Become, TypeOK
  <2>2. /\ req'[r].pc = "bind.find" /\ req'[r].lst = l /\ req'[r].final = f
    BY <1>3, <2>1 DEF RequestOK, RequestState
  <2>3. /\ f \in [Provider -> Terms \cup {None}]
        /\ Holders(f) # {}
        /\ TotalAmount(f) = Capacity[l]
        /\ \A p \in Provider : f[p] # None =>
             /\ alloc[l][p] # None /\ f[p].share = alloc[l][p].share
             /\ f[p].amount <= Capacity[l]
    BY <1>4, <1>5, FinalAllocationsExact
  <2>4. \A p \in Provider : f[p] # None =>
          \E i \in RowId : /\ proposed[i] # None
                           /\ proposed[i].lst = l /\ proposed[i].org = p
                           /\ proposed[i].share = f[p].share
    <3>1. ASSUME NEW p \in Provider, f[p] # None
          PROVE  /\ alloc[l][p].id \in RowId
                 /\ proposed[alloc[l][p].id] # None
                 /\ proposed[alloc[l][p].id].lst = l
                 /\ proposed[alloc[l][p].id].org = p
                 /\ proposed[alloc[l][p].id].share = f[p].share
      BY <1>4, <2>3, <3>1 DEF IInv, StoredInv, HistoryExplainsRows, Row
    <3>2. QED
      BY <3>1
  <2>5. proposed' = proposed /\ synd' = synd
    BY <1>1 DEF history
  <2>6. \A p \in Provider : req'[r].final[p] # None =>
          HasProposedShare(req[r].lst, p, req[r].final[p].share)'
    BY <2>2, <2>4, <2>5 DEF HasProposedShare
  <2>7. Knows(req[r])'
    BY <1>4, <2>2, <2>3, <2>5, <2>6 DEF Knows
  <2>8. QED
    BY <2>1, <2>7
<1>6. CASE \E f \in FinalAllocations(l, alloc[l]) :
             Become(r, [req[r] EXCEPT !.pc = "bind.find", !.final = f])
  BY <1>2, <1>5, <1>6, OthersKnow DEF IInv
<1>7. CASE Finish(r)
  BY <1>2, <1>3, <1>7, IdleKnows, OthersKnow DEF Finish, Become, IInv, TypeOK
<1>8. QED
  BY <1>6, <1>7 DEF BindList

LEMMA BindFindInv ==
  ASSUME IInv, NEW r \in Request, BindFind(r)
  PROVE  StoredInv' /\ HandlersKnow'
<1> DEFINE rows == alloc[req[r].lst]
           ids == [p \in Provider |-> IF rows[p] = None THEN None ELSE rows[p].id]
<1>1. UNCHANGED <<market, synd, alloc, history, audit>>
  BY DEF BindFind
<1>2. StoredInv' /\ Grows
  BY <1>1, KeepsTables DEF IInv
<1>3. TypeOK /\ RequestOK(req[r]) /\ Knows(req[r]) /\ req[r].pc = "bind.find"
  BY DEF IInv, TypeOK, HandlersKnow, BindFind, At
<1>4. req' = [req EXCEPT ![r] = [req[r] EXCEPT !.pc = "bind.commit", !.found = ids]]
  BY DEF BindFind, Become
<1>5. /\ req'[r].pc = "bind.commit" /\ req'[r].lst = req[r].lst
      /\ req'[r].final = req[r].final
      /\ \A s \in Request : s # r => req'[s] = req[s]
  <2> HIDE DEF ids
  <2> QED
    BY <1>3, <1>4 DEF TypeOK, RequestOK, RequestState
<1>6. Knows(req[r])'
  <2>1. proposed' = proposed /\ synd' = synd
    BY <1>1 DEF history
  <2>2. \A p \in Provider : req'[r].final[p] # None =>
          HasProposedShare(req[r].lst, p, req[r].final[p].share)'
    BY <1>3, <1>5, <2>1 DEF HasProposedShare, Knows
  <2>3. QED
    BY <1>3, <1>5, <2>1, <2>2 DEF Knows, OwnerSteps
<1>7. QED
  BY <1>2, <1>5, <1>6, OthersKnow DEF IInv

LEMMA CrashInv ==
  ASSUME IInv, NEW r \in Request, Crash(r)
  PROVE  StoredInv' /\ HandlersKnow'
<1>1. StoredInv' /\ Grows
  BY KeepsTables DEF Crash, IInv
<1>2. QED
  BY <1>1, IdleKnows, OthersKnow DEF Crash, Finish, Become, IInv, TypeOK

(* An audit record is written by a handler that has something to report.   *)
LEMMA RecordInv ==
  ASSUME IInv, NEW r \in Request,
         \/ Record(r, "open.audit", "open") \/ Record(r, "propose.audit", "propose")
         \/ Record(r, "withdraw.audit", "withdraw") \/ Record(r, "bind.audit", "bind")
  PROVE  StoredInv' /\ HandlersKnow'
<1>1. UNCHANGED <<market, synd, alloc, history>> /\ Finish(r)
  BY DEF Record
<1>2. UNCHANGED <<listing, interest, commitment, exposure, synd, alloc, proposed, removed, bound>>
  BY <1>1 DEF market, history
<1>3. Grows
  BY <1>2 DEF Grows
<1>4. TypeOK /\ RequestOK(req[r]) /\ Knows(req[r])
  BY DEF IInv, TypeOK, HandlersKnow
<1>5. HistoryExplainsRows' /\ BoundIsExact' /\ MatchedOnlyIfBound'
  BY <1>2 DEF IInv, StoredInv, HistoryExplainsRows, BoundIsExact, MatchedOnlyIfBound
<1>6. BoundByConsent' /\ ProposalBacked'
  BY <1>2 DEF IInv, StoredInv, BoundByConsent, HasProposedShare, ProposalBacked
<1>7. RecordsTellOfChanges'
  <2>1. RecordsTellOfChanges
    BY DEF IInv, StoredInv
  <2>2. PICK action \in {"open", "propose", "withdraw", "bind"} :
          /\ audit' = audit \cup {Entry(req[r], action)}
          /\ action = "open" => req[r].pc = "open.audit"
          /\ action = "propose" => req[r].pc = "propose.audit"
          /\ action = "withdraw" => req[r].pc = "withdraw.audit"
          /\ action = "bind" => req[r].pc = "bind.audit"
    BY DEF Record, At
  <2> DEFINE a == Entry(req[r], action)
  <2>3. /\ a.action = action /\ a.lst = req[r].lst /\ a.org = req[r].org
        /\ a.row = req[r].row /\ a.own = ~ req[r].gone
    BY DEF Entry
  <2>4. /\ action = "open" => synd[req[r].lst] # "NONE"
        /\ action = "bind" => synd[req[r].lst] = "BOUND"
        /\ action \in {"propose", "withdraw"} => ProposedBy(req[r].row, req[r].lst, req[r].org)
        /\ action = "withdraw" => req[r].row \in removed
        /\ req[r].gone => action = "withdraw"
    BY <1>4, <2>2 DEF Knows, RequestOK, OwnerSteps
  <2>5. audit' = audit \cup {a}
    BY <2>2
  <2> HIDE DEF a
  <2>6. QED
    BY <1>2, <2>1, <2>3, <2>4, <2>5 DEF RecordsTellOfChanges, ProposedBy
<1>8. HandlersKnow'
  BY <1>1, <1>3, <1>4, IdleKnows, OthersKnow DEF Finish, Become, IInv, TypeOK
<1>9. QED
  BY <1>5, <1>6, <1>7, <1>8 DEF StoredInv

LEMMA OpenCreateInv ==
  ASSUME IInv, NEW r \in Request, OpenCreate(r)
  PROVE  StoredInv' /\ HandlersKnow'
<1> DEFINE l == req[r].lst
<1>1. TypeOK /\ RequestOK(req[r]) /\ req[r].pc = "open.create"
  BY DEF IInv, TypeOK, OpenCreate, At
<1>2. l \in Listing
  BY <1>1 DEF RequestOK
<1>3. CASE synd[l] # "NONE"
  <2>1. UNCHANGED <<market, synd, alloc, history, audit>> /\ Finish(r)
    BY <1>3 DEF OpenCreate, Require
  <2>2. StoredInv' /\ Grows
    BY <2>1, KeepsTables DEF IInv
  <2>3. QED
    BY <1>1, <2>1, <2>2, IdleKnows, OthersKnow DEF Finish, Become, IInv, TypeOK
<1>4. CASE synd[l] = "NONE"
  <2>1. /\ UNCHANGED <<listing, interest, commitment, exposure, alloc, proposed, removed, bound, audit>>
        /\ synd' = [synd EXCEPT ![l] = "OPEN"]
        /\ req' = [req EXCEPT ![r] = [req[r] EXCEPT !.pc = "open.audit"]]
    BY <1>4 DEF OpenCreate, Require, Goto, Become, market, history
  <2>2. /\ synd'[l] = "OPEN"
        /\ \A k \in Listing : k # l => synd'[k] = synd[k]
    BY <1>1, <1>2, <2>1 DEF TypeOK
  <2>3. Grows
    BY <1>4, <2>1, <2>2 DEF Grows
  <2>4. HistoryExplainsRows'
    BY <2>1 DEF IInv, StoredInv, HistoryExplainsRows
  <2>5. BoundIsExact'
    BY <1>4, <2>1, <2>2 DEF IInv, StoredInv, BoundIsExact
  <2>6. MatchedOnlyIfBound'
    BY <1>4, <2>1, <2>2 DEF IInv, StoredInv, MatchedOnlyIfBound
  <2>7. BoundByConsent'
    BY <2>1 DEF IInv, StoredInv, BoundByConsent, HasProposedShare
  <2>8. ProposalBacked'
    BY <2>1, <2>3 DEF IInv, StoredInv, ProposalBacked, Grows
  <2>9. RecordsTellOfChanges'
    BY <1>1, <2>1, <2>3, RecordsKeepTelling DEF IInv, StoredInv
  <2>10. /\ req'[r].pc = "open.audit" /\ req'[r].lst = l
         /\ \A s \in Request : s # r => req'[s] = req[s]
    BY <1>1, <2>1 DEF TypeOK, RequestOK, RequestState
  <2>11. Knows(req[r])'
    BY <2>2, <2>10 DEF Knows
  <2>12. HandlersKnow'
    BY <2>3, <2>10, <2>11, OthersKnow DEF IInv
  <2>13. QED
    BY <2>4, <2>5, <2>6, <2>7, <2>8, <2>9, <2>12 DEF StoredInv
<1>5. QED
  BY <1>3, <1>4

LEMMA ProposeInsertInv ==
  ASSUME IInv, NEW r \in Request, ProposeInsert(r)
  PROVE  StoredInv' /\ HandlersKnow'
<1> DEFINE p == req[r].org
           l == req[r].lst
           t == req[r].share
           a == Indicative(l, t)
<1>1. TypeOK /\ RequestOK(req[r]) /\ Knows(req[r]) /\ req[r].pc = "propose.insert"
  BY DEF IInv, TypeOK, HandlersKnow, ProposeInsert, At
<1>2. /\ p \in Provider /\ l \in Listing /\ t \in 1 .. FullAllocation
      /\ synd[l] # "NONE" /\ commitment[p] # None
  BY <1>1, ConstantsAssumption
     DEF RequestOK, RequestState, Knows, ProviderSteps, ProposalSteps
<1>3. CASE alloc[l][p] # None
  <2>1. UNCHANGED <<market, synd, alloc, history, audit>> /\ Finish(r)
    BY <1>3 DEF ProposeInsert, history
  <2>2. StoredInv' /\ Grows
    BY <2>1, KeepsTables DEF IInv
  <2>3. QED
    BY <1>1, <2>1, <2>2, IdleKnows, OthersKnow DEF Finish, Become, IInv, TypeOK
<1>4. CASE alloc[l][p] = None
  <2>1. PICK i \in Unused :
          /\ alloc' = [alloc EXCEPT ![l][p] = [id |-> i, share |-> t, amount |-> a]]
          /\ proposed' = [proposed EXCEPT ![i] =
                             [lst |-> l, org |-> p, share |-> t, amount |-> a]]
          /\ req' = [req EXCEPT ![r] = [req[r] EXCEPT !.pc = "propose.audit", !.row = i]]
    BY <1>4 DEF ProposeInsert, Become
  <2>2. UNCHANGED <<listing, interest, commitment, exposure, synd, removed, bound, audit>>
    BY <1>4 DEF ProposeInsert, market
  <2>3. /\ i \in RowId /\ proposed[i] = None
        /\ proposed'[i] # None /\ proposed'[i].lst = l /\ proposed'[i].org = p
        /\ proposed'[i].share = t
        /\ \A j \in RowId : j # i => proposed'[j] = proposed[j]
    <3> HIDE DEF a
    <3>1. i \in RowId /\ proposed[i] = None
      BY DEF Unused
    <3>2. a \in Nat
      BY <1>2, IndicativeNat, ConstantsAssumption DEF a
    <3>3. [lst |-> l, org |-> p, share |-> t, amount |-> a] \in Proposal
      BY <1>2, <3>2 DEF Proposal
    <3>4. QED
      BY <1>1, <2>1, <3>1, <3>3, NoneAssumption DEF TypeOK
  <2>4. /\ alloc'[l][p] # None /\ alloc'[l][p].id = i /\ alloc'[l][p].share = t
        /\ \A k \in Listing, q \in Provider :
             k # l \/ q # p => alloc'[k][q] = alloc[k][q]
    <3> HIDE DEF a
    <3>1. a \in Nat
      BY <1>2, IndicativeNat, ConstantsAssumption DEF a
    <3>2. [id |-> i, share |-> t, amount |-> a] \in Row
      BY <1>2, <2>3, <3>1 DEF Row
    <3>3. QED
      BY <1>1, <1>2, <2>1, <3>2, NoneAssumption DEF TypeOK
  <2>5. /\ req'[r].pc = "propose.audit" /\ req'[r].lst = l /\ req'[r].org = p
        /\ req'[r].row = i
        /\ \A s \in Request : s # r => req'[s] = req[s]
    BY <1>1, <2>1 DEF TypeOK, RequestOK, RequestState
  <2> HIDE DEF p, l, t, a
  <2>6. Grows
    BY <2>2, <2>3 DEF Grows
  <2>7. HistoryExplainsRows'
    <3>1. ASSUME NEW k \in Listing, NEW q \in Provider, alloc'[k][q] # None
          PROVE  /\ alloc'[k][q].id \notin removed'
                 /\ proposed'[alloc'[k][q].id] # None
                 /\ proposed'[alloc'[k][q].id].lst = k
                 /\ proposed'[alloc'[k][q].id].org = q
                 /\ proposed'[alloc'[k][q].id].share = alloc'[k][q].share
      <4>1. CASE k = l /\ q = p
        BY <4>1, <2>2, <2>3, <2>4 DEF IInv, StoredInv, HistoryExplainsRows
      <4>2. CASE k # l \/ q # p
        <5>1. alloc'[k][q] = alloc[k][q]
          BY <4>2, <2>4
        <5>2. alloc[k][q].id \in RowId
          BY <1>1, <3>1, <5>1 DEF TypeOK, Row
        <5>3. QED
          BY <2>2, <2>3, <3>1, <5>1, <5>2 DEF IInv, StoredInv, HistoryExplainsRows
      <4>3. QED
        BY <4>1, <4>2
    <3>2. ASSUME NEW j \in RowId, proposed'[j] # None, j \notin removed'
          PROVE  /\ alloc'[proposed'[j].lst][proposed'[j].org] # None
                 /\ alloc'[proposed'[j].lst][proposed'[j].org].id = j
      <4>1. CASE j = i
        BY <4>1, <2>3, <2>4
      <4>2. CASE j # i
        <5>1. proposed'[j] = proposed[j] /\ removed' = removed
          BY <4>2, <2>2, <2>3
        <5>2. proposed[j].lst \in Listing /\ proposed[j].org \in Provider
          BY <1>1, <3>2, <5>1 DEF TypeOK, Proposal
        <5>3. /\ alloc[proposed[j].lst][proposed[j].org] # None
              /\ alloc[proposed[j].lst][proposed[j].org].id = j
          BY <3>2, <5>1 DEF IInv, StoredInv, HistoryExplainsRows
        <5>4. QED
          BY <1>4, <2>4, <5>1, <5>2, <5>3 DEF l, p
      <4>3. QED
        BY <4>1, <4>2
    <3>3. \A j \in removed' : proposed'[j] # None
      BY <1>1, <2>2, <2>3 DEF IInv, StoredInv, HistoryExplainsRows, TypeOK
    <3>4. QED
      BY <3>1, <3>2, <3>3 DEF HistoryExplainsRows
  <2>8. BoundIsExact'
    <3>1. ASSUME NEW k \in Listing, NEW q \in Provider, alloc[k][q] # None
          PROVE  alloc'[k][q] = alloc[k][q]
      BY <1>4, <2>4, <3>1 DEF l, p
    <3>2. QED
      BY <2>2, <3>1 DEF IInv, StoredInv, BoundIsExact, Holders
  <2>9. MatchedOnlyIfBound'
    BY <2>2 DEF IInv, StoredInv, MatchedOnlyIfBound
  <2>10. BoundByConsent'
    BY <2>2, <2>3 DEF IInv, StoredInv, BoundByConsent, HasProposedShare
  <2>11. ProposalBacked'
    BY <1>2, <2>2, <2>4 DEF IInv, StoredInv, ProposalBacked, l, p
  <2>12. RecordsTellOfChanges'
    BY <1>1, <2>2, <2>6, RecordsKeepTelling DEF IInv, StoredInv
  <2>13. Knows(req[r])'
    BY <1>2, <2>2, <2>3, <2>5 DEF Knows, ProposedBy, l, p
  <2>14. HandlersKnow'
    BY <2>5, <2>6, <2>13, OthersKnow DEF IInv
  <2>15. QED
    BY <2>7, <2>8, <2>9, <2>10, <2>11, <2>12, <2>14 DEF StoredInv
<1>5. QED
  BY <1>3, <1>4

LEMMA WithdrawDeleteInv ==
  ASSUME IInv, NEW r \in Request, WithdrawDelete(r)
  PROVE  StoredInv' /\ HandlersKnow'
<1> DEFINE p == req[r].org
           l == req[r].lst
           i == req[r].row
<1>1. TypeOK /\ RequestOK(req[r]) /\ Knows(req[r]) /\ req[r].pc = "withdraw.delete"
  BY DEF IInv, TypeOK, HandlersKnow, WithdrawDelete, At
<1>2. p \in Provider /\ l \in Listing /\ synd[l] # "NONE"
  BY <1>1 DEF RequestOK, Knows, ProviderSteps
<1>3. CASE ~Deletable(l, p, i)
  <2>1. UNCHANGED <<market, synd, alloc, history, audit>> /\ Finish(r)
    BY <1>3 DEF WithdrawDelete, Require, history
  <2>2. StoredInv' /\ Grows
    BY <2>1, KeepsTables DEF IInv
  <2>3. QED
    BY <1>1, <2>1, <2>2, IdleKnows, OthersKnow DEF Finish, Become, IInv, TypeOK
<1>4. CASE Deletable(l, p, i)
  <2>1. /\ UNCHANGED <<listing, interest, commitment, exposure, synd, proposed, bound, audit>>
        /\ alloc' = [alloc EXCEPT ![l][p] = None]
        /\ removed' = removed \cup {i}
        /\ req' = [req EXCEPT ![r] = [req[r] EXCEPT !.pc = "withdraw.audit"]]
    BY <1>4 DEF WithdrawDelete, Require, Goto, Become, market
  <2>2. /\ alloc[l][p] # None /\ alloc[l][p].id = i /\ i \in RowId
        /\ synd[l] # "BOUND"
    BY <1>1, <1>2, <1>4 DEF Deletable, TypeOK, Row
  <2>3. /\ alloc'[l][p] = None
        /\ \A k \in Listing, q \in Provider :
             k # l \/ q # p => alloc'[k][q] = alloc[k][q]
    BY <1>1, <1>2, <2>1 DEF TypeOK
  <2>4. proposed[i] # None /\ proposed[i].lst = l /\ proposed[i].org = p
    BY <1>2, <2>2 DEF IInv, StoredInv, HistoryExplainsRows
  <2>5. /\ req'[r].pc = "withdraw.audit" /\ req'[r].lst = l /\ req'[r].org = p
        /\ req'[r].row = i
        /\ \A s \in Request : s # r => req'[s] = req[s]
    BY <1>1, <2>1 DEF TypeOK, RequestOK, RequestState
  <2> HIDE DEF p, l, i
  <2>6. Grows
    BY <2>1 DEF Grows
  <2>7. HistoryExplainsRows'
    <3>1. ASSUME NEW k \in Listing, NEW q \in Provider, alloc'[k][q] # None
          PROVE  /\ alloc'[k][q].id \notin removed'
                 /\ proposed'[alloc'[k][q].id] # None
                 /\ proposed'[alloc'[k][q].id].lst = k
                 /\ proposed'[alloc'[k][q].id].org = q
                 /\ proposed'[alloc'[k][q].id].share = alloc'[k][q].share
      <4>1. (k # l \/ q # p) /\ alloc'[k][q] = alloc[k][q]
        BY <2>3, <3>1
      <4>2. QED
        BY <2>1, <2>4, <3>1, <4>1 DEF IInv, StoredInv, HistoryExplainsRows
    <3>2. ASSUME NEW j \in RowId, proposed'[j] # None, j \notin removed'
          PROVE  /\ alloc'[proposed'[j].lst][proposed'[j].org] # None
                 /\ alloc'[proposed'[j].lst][proposed'[j].org].id = j
      <4>1. proposed'[j] = proposed[j] /\ j \notin removed /\ j # i
        BY <2>1, <3>2
      <4>2. proposed[j].lst \in Listing /\ proposed[j].org \in Provider
        BY <1>1, <3>2, <4>1 DEF TypeOK, Proposal
      <4>3. /\ alloc[proposed[j].lst][proposed[j].org] # None
            /\ alloc[proposed[j].lst][proposed[j].org].id = j
        BY <3>2, <4>1 DEF IInv, StoredInv, HistoryExplainsRows
      <4>4. QED
        BY <2>2, <2>3, <4>1, <4>2, <4>3
    <3>3. \A j \in removed' : proposed'[j] # None
      BY <2>1, <2>4 DEF IInv, StoredInv, HistoryExplainsRows
    <3>4. QED
      BY <3>1, <3>2, <3>3 DEF HistoryExplainsRows
  <2>8. BoundIsExact'
    <3>1. \A k \in Listing : synd[k] = "BOUND" =>
            \A q \in Provider : alloc'[k][q] = alloc[k][q]
      BY <2>2, <2>3
    <3>2. QED
      BY <2>1, <3>1 DEF IInv, StoredInv, BoundIsExact, Holders
  <2>9. MatchedOnlyIfBound'
    BY <2>1 DEF IInv, StoredInv, MatchedOnlyIfBound
  <2>10. BoundByConsent'
    BY <2>1 DEF IInv, StoredInv, BoundByConsent, HasProposedShare
  <2>11. ProposalBacked'
    BY <2>1, <2>3 DEF IInv, StoredInv, ProposalBacked
  <2>12. RecordsTellOfChanges'
    BY <1>1, <2>1, <2>6, RecordsKeepTelling DEF IInv, StoredInv
  <2>13. Knows(req[r])'
    BY <1>2, <2>1, <2>2, <2>4, <2>5 DEF Knows, ProposedBy, l, p
  <2>14. HandlersKnow'
    BY <2>5, <2>6, <2>13, OthersKnow DEF IInv
  <2>15. QED
    BY <2>7, <2>8, <2>9, <2>10, <2>11, <2>12, <2>14 DEF StoredInv
<1>5. QED
  BY <1>3, <1>4

LEMMA BindCommitInv ==
  ASSUME IInv, NEW r \in Request, BindCommit(r)
  PROVE  StoredInv' /\ HandlersKnow'
<1> DEFINE l == req[r].lst
           final == req[r].final
           rows == [p \in Provider |-> IF final[p] = None THEN alloc[l][p]
                      ELSE [alloc[l][p] EXCEPT !.amount = final[p].amount]]
<1>1. TypeOK /\ RequestOK(req[r]) /\ Knows(req[r]) /\ req[r].pc = "bind.commit"
  BY DEF IInv, TypeOK, HandlersKnow, BindCommit, At
<1>2. /\ l \in Listing /\ final \in [Provider -> Terms \cup {None}]
      /\ Holders(final) # {} /\ TotalAmount(final) = Capacity[l]
  BY <1>1 DEF RequestOK, RequestState, OwnerSteps, Knows
<1>3. CASE ~Updatable(l, final, req[r].found)
  <2>1. UNCHANGED <<market, synd, alloc, history, audit>> /\ Finish(r)
    BY <1>3 DEF BindCommit, Require, history
  <2>2. StoredInv' /\ Grows
    BY <2>1, KeepsTables DEF IInv
  <2>3. QED
    BY <1>1, <2>1, <2>2, IdleKnows, OthersKnow DEF Finish, Become, IInv, TypeOK
<1>4. CASE Updatable(l, final, req[r].found)
  <2>1. /\ UNCHANGED <<listing, interest, commitment, exposure, proposed, removed, audit>>
        /\ synd' = [synd EXCEPT ![l] = "BOUND"]
        /\ bound' = [bound EXCEPT ![l] = final]
        /\ req' = [req EXCEPT ![r] = [req[r] EXCEPT !.pc = "bind.match"]]
    BY <1>4 DEF BindCommit, Require, Goto, Become, market
  <2>2. alloc' = [alloc EXCEPT ![l] = rows]
    BY <1>1, <1>2, <1>4 DEF BindCommit, TypeOK
  <2>3. /\ synd'[l] = "BOUND" /\ bound'[l] = final
        /\ \A k \in Listing : k # l => synd'[k] = synd[k] /\ bound'[k] = bound[k]
    BY <1>1, <1>2, <2>1 DEF TypeOK
  <2>4. ASSUME NEW p \in Provider, final[p] # None
        PROVE  /\ rows[p] \in Row /\ alloc[l][p] \in Row
               /\ rows[p].amount = final[p].amount
    <3>1. alloc[l][p] \in Row
      BY <1>1, <1>2, <1>4, <2>4 DEF TypeOK, Updatable, Holders
    <3>2. final[p].amount \in Nat
      BY <1>2, <2>4 DEF Terms
    <3>3. QED
      BY <2>4, <3>1, <3>2 DEF Row
  <2>5. \A p \in Provider :
          /\ rows[p] # None <=> alloc[l][p] # None
          /\ alloc[l][p] # None =>
               rows[p].id = alloc[l][p].id /\ rows[p].share = alloc[l][p].share
    <3>1. ASSUME NEW p \in Provider, final[p] # None
          PROVE  /\ rows[p] # None /\ alloc[l][p] # None
                 /\ rows[p].id = alloc[l][p].id /\ rows[p].share = alloc[l][p].share
      <4>1. alloc[l][p] \in Row /\ rows[p] \in Row
        BY <2>4, <3>1
      <4>2. QED
        BY <3>1, <4>1, NoneAssumption DEF Row
    <3>2. QED
      BY <3>1
  <2>6. /\ alloc'[l] = rows
        /\ \A k \in Listing : k # l => alloc'[k] = alloc[k]
    <3> HIDE DEF rows
    <3> QED
      BY <1>1, <1>2, <2>2 DEF TypeOK
  <2>7. /\ req'[r].pc = "bind.match" /\ req'[r].lst = l
        /\ \A s \in Request : s # r => req'[s] = req[s]
    BY <1>1, <2>1 DEF TypeOK, RequestOK, RequestState
  <2>8. \A p \in Provider : final[p] # None => HasProposedShare(l, p, final[p].share)
    BY <1>1 DEF Knows
  <2> HIDE DEF rows
  <2>9. Grows
    BY <2>1, <2>3 DEF Grows
  <2>10. HistoryExplainsRows'
    <3>1. ASSUME NEW k \in Listing, NEW p \in Provider
          PROVE  /\ alloc'[k][p] # None <=> alloc[k][p] # None
                 /\ alloc[k][p] # None => alloc'[k][p].id = alloc[k][p].id
                                         /\ alloc'[k][p].share = alloc[k][p].share
      BY <2>5, <2>6
    <3>2. \A j \in RowId : proposed[j] # None =>
            proposed[j].lst \in Listing /\ proposed[j].org \in Provider
      BY <1>1 DEF TypeOK, Proposal
    <3>3. QED
      BY <2>1, <3>1, <3>2 DEF IInv, StoredInv, HistoryExplainsRows
  <2>11. BoundIsExact'
    <3>1. ASSUME NEW k \in Listing, k # l
          PROVE  /\ synd'[k] = synd[k] /\ bound'[k] = bound[k] /\ alloc'[k] = alloc[k]
      BY <2>3, <2>6, <3>1
    <3>2. \A p \in Holders(final) :
            alloc'[l][p] # None /\ alloc'[l][p].amount = final[p].amount
      BY <2>4, <2>6, NoneAssumption DEF Holders
    <3>3. QED
      BY <1>2, <2>3, <3>1, <3>2 DEF IInv, StoredInv, BoundIsExact
  <2>12. MatchedOnlyIfBound'
    BY <2>1, <2>3 DEF IInv, StoredInv, MatchedOnlyIfBound
  <2>13. BoundByConsent'
    BY <2>1, <2>3, <2>8 DEF IInv, StoredInv, BoundByConsent, HasProposedShare
  <2>14. ProposalBacked'
    BY <2>1, <2>3, <2>5, <2>6 DEF IInv, StoredInv, ProposalBacked
  <2>15. RecordsTellOfChanges'
    BY <1>1, <2>1, <2>9, RecordsKeepTelling DEF IInv, StoredInv
  <2>16. Knows(req[r])'
    BY <2>3, <2>7 DEF Knows
  <2>17. HandlersKnow'
    BY <2>7, <2>9, <2>16, OthersKnow DEF IInv
  <2>18. QED
    BY <2>10, <2>11, <2>12, <2>13, <2>14, <2>15, <2>17 DEF StoredInv
<1>5. QED
  BY <1>3, <1>4

(* The writes that touch neither a syndication nor its history. *)
LEMMA MarketInv ==
  ASSUME IInv,
         UNCHANGED <<synd, alloc, history, audit>>,
         \A p \in Provider : commitment[p] # None => commitment'[p] # None,
         \A l \in Listing : listing'[l] = "MATCHED" =>
           listing[l] = "MATCHED" \/ synd[l] = "BOUND"
  PROVE  StoredInv' /\ Grows
<1>1. UNCHANGED <<synd, alloc, proposed, removed, bound, audit>>
  BY DEF history
<1>2. Grows
  BY <1>1 DEF Grows
<1>3. HistoryExplainsRows' /\ BoundIsExact'
  BY <1>1 DEF IInv, StoredInv, HistoryExplainsRows, BoundIsExact
<1>4. MatchedOnlyIfBound'
  BY <1>1 DEF IInv, StoredInv, MatchedOnlyIfBound
<1>5. BoundByConsent' /\ ProposalBacked'
  BY <1>1 DEF IInv, StoredInv, BoundByConsent, HasProposedShare, ProposalBacked
<1>6. RecordsTellOfChanges'
  BY <1>1, <1>2, RecordsKeepTelling DEF IInv, StoredInv
<1>7. QED
  BY <1>2, <1>3, <1>4, <1>5, <1>6 DEF StoredInv

LEMMA BindMatchInv ==
  ASSUME IInv, NEW r \in Request, BindMatch(r)
  PROVE  StoredInv' /\ HandlersKnow'
<1>1. /\ TypeOK /\ RequestOK(req[r]) /\ req[r].pc = "bind.match"
      /\ req[r].lst \in Listing /\ synd[req[r].lst] = "BOUND"
  BY DEF IInv, TypeOK, HandlersKnow, Knows, RequestOK, BindMatch, At
<1>2. /\ UNCHANGED <<commitment, synd, alloc, history, audit>>
      /\ listing' = [listing EXCEPT ![req[r].lst] = "MATCHED"]
      /\ req' = [req EXCEPT ![r] = [req[r] EXCEPT !.pc = "bind.audit"]]
  BY DEF BindMatch, Goto, Become
<1>3. \A l \in Listing : listing'[l] = "MATCHED" =>
        listing[l] = "MATCHED" \/ synd[l] = "BOUND"
  BY <1>1, <1>2 DEF TypeOK
<1>4. StoredInv' /\ Grows
  BY <1>2, <1>3, MarketInv
<1>5. /\ req'[r].pc = "bind.audit" /\ req'[r].lst = req[r].lst
      /\ \A s \in Request : s # r => req'[s] = req[s]
  BY <1>1, <1>2 DEF TypeOK, RequestOK, RequestState
<1>6. Knows(req[r])'
  BY <1>1, <1>2, <1>5 DEF Knows
<1>7. QED
  BY <1>4, <1>5, <1>6, OthersKnow DEF IInv

LEMMA InterestUpsertInv ==
  ASSUME IInv, NEW r \in Request, InterestUpsert(r)
  PROVE  StoredInv' /\ HandlersKnow'
<1>1. StoredInv' /\ Grows
  BY MarketInv DEF InterestUpsert
<1>2. QED
  BY <1>1, IdleKnows, OthersKnow DEF InterestUpsert, Finish, Become, IInv, TypeOK

LEMMA WriteInv ==
  ASSUME IInv, Write
  PROVE  StoredInv' /\ HandlersKnow'
<1>1. /\ UNCHANGED <<synd, alloc, history, audit>> /\ req' = req
      /\ \A p \in Provider : commitment[p] # None => commitment'[p] # None
      /\ \A l \in Listing : listing'[l] = "MATCHED" => listing[l] = "MATCHED"
  <2>1. ASSUME NEW l \in Listing, WithdrawListing(l)
        PROVE  /\ UNCHANGED <<synd, alloc, history, audit, commitment>> /\ req' = req
               /\ \A k \in Listing : listing'[k] = "MATCHED" => listing[k] = "MATCHED"
    BY <2>1 DEF WithdrawListing, IInv, TypeOK
  <2>2. ASSUME NEW p \in Provider, NEW c \in Ceilings, SetCommitment(p, c)
        PROVE  /\ UNCHANGED <<synd, alloc, history, audit, listing>> /\ req' = req
               /\ \A q \in Provider : commitment[q] # None => commitment'[q] # None
    BY <2>2, ConstantsAssumption DEF SetCommitment, IInv, TypeOK
  <2>3. ASSUME NEW p \in Provider,
               \/ \E l \in Listing : WithdrawInterest(p, l)
               \/ \E e \in Exposures : SetAppetite(p, e)
        PROVE  UNCHANGED <<synd, alloc, history, audit, listing, commitment>> /\ req' = req
    BY <2>3 DEF WithdrawInterest, SetAppetite
  <2>4. QED
    BY <2>1, <2>2, <2>3 DEF Write
<1>2. StoredInv' /\ Grows
  BY <1>1, MarketInv
<1>3. ASSUME NEW s \in Request
      PROVE  Knows(req[s])'
  BY <1>1, <1>2, KnowsPersists DEF IInv, HandlersKnow
<1>4. QED
  BY <1>2, <1>3 DEF HandlersKnow

-----------------------------------------------------------------------------
(* One maker for each change. *)

(* A step of one request, which may leave it with a change to report.  *)
LEMMA MakersMove ==
  ASSUME ChangesHaveOneMaker, audit' = audit, NEW r \in Request,
         \A s \in Request : s # r => req'[s] = req[s],
         Reports(req'[r]) =>
           /\ Report(req'[r]) \notin audit
           /\ \A s \in Request \ {r} : Reports(req[s]) => Report(req[s]) # Report(req'[r])
  PROVE  ChangesHaveOneMaker'
<1>1. ASSUME NEW t \in Request, Reports(req'[t])
      PROVE  /\ Report(req'[t]) \notin audit
             /\ \A s \in Request \ {t} : Reports(req'[s]) => Report(req'[s]) # Report(req'[t])
  <2>1. CASE t = r
    BY <1>1, <2>1
  <2>2. CASE t # r
    <3>1. req'[t] = req[t] /\ Reports(req[t])
      BY <1>1, <2>2
    <3>2. /\ Report(req[t]) \notin audit
          /\ \A s \in Request \ {t} : Reports(req[s]) => Report(req[s]) # Report(req[t])
      BY <3>1 DEF ChangesHaveOneMaker
    <3>3. ASSUME NEW s \in Request \ {t}, Reports(req'[s])
          PROVE  Report(req'[s]) # Report(req'[t])
      <4>1. CASE s = r
        BY <2>2, <3>1, <3>3, <4>1
      <4>2. CASE s # r
        BY <3>1, <3>2, <3>3, <4>2
      <4>3. QED
        BY <4>1, <4>2
    <3>4. QED
      BY <3>1, <3>2, <3>3
  <2>3. QED
    BY <2>1, <2>2
<1>2. QED
  BY <1>1 DEF ChangesHaveOneMaker, Reports, Report, Entry, ActionAt

LEMMA IdleReportsNothing == ~ Reports(Idle)
BY DEF Reports, Idle

(* The steps that leave a handler with nothing to report. *)
LEMMA QuietSteps ==
  ASSUME TypeOK, NEW r \in Request,
         \/ Arrive(r) \/ Crash(r)
         \/ OpenFind(r) \/ ProposeInterest(r) \/ ProposeList(r)
         \/ ProposeAppetite(r) \/ ProposeCommitment(r) \/ ProposePosition(r)
         \/ ProposeRecheck(r) \/ WithdrawList(r) \/ WithdrawRecheck(r)
         \/ WithdrawFind(r) \/ BindList(r) \/ BindFind(r) \/ InterestUpsert(r)
  PROVE  /\ audit' = audit
         /\ \A s \in Request : s # r => req'[s] = req[s]
         /\ ~ Reports(req'[r])
<1> DEFINE Goal == /\ audit' = audit
                   /\ \A s \in Request : s # r => req'[s] = req[s]
                   /\ ~ Reports(req'[r])
           Silent == {"open.find", "open.create", "bind.list", "bind.find", "bind.commit",
                      "propose.interest", "propose.list", "propose.appetite",
                      "propose.commitment", "propose.position", "propose.recheck",
                      "propose.insert", "withdraw.list", "withdraw.recheck",
                      "withdraw.find", "withdraw.delete", "interest.upsert"}
<1> SUFFICES Goal
  OBVIOUS
<1>1. req \in [Request -> RequestState] /\ RequestOK(req[r]) /\ req[r] \in RequestState
  BY DEF TypeOK
<1>2. ASSUME NEW pc \in Silent, NEW q, q.pc = pc
      PROVE  ~ Reports(q)
  BY <1>2 DEF Reports
<1>3. CASE WithdrawList(r) \/ WithdrawFind(r)
  <2>1. ~ Reports(req'[r])
    BY <1>3, WithdrawListStep, WithdrawFindStep, IdleReportsNothing DEF Reports
  <2>2. QED
    BY <1>3, <2>1, WithdrawListStep, WithdrawFindStep DEF WithdrawList, WithdrawFind
<1>4. ASSUME NEW q, Become(r, q), audit' = audit, ~ Reports(q)
      PROVE  Goal
  BY <1>1, <1>4 DEF Become
<1>5. CASE Arrive(r)
  <2>1. PICK pc \in Silent : \E p, l, t : Begin(r, pc, p, l, t)
    BY <1>5 DEF Arrive, OpenStart, BindStart, ProposeStart, WithdrawStart, InterestStart
  <2>2. PICK p, l, t : Begin(r, pc, p, l, t)
    BY <2>1
  <2>6. PICK q : q = [Idle EXCEPT !.pc = pc, !.org = p, !.lst = l, !.share = t]
    OBVIOUS
  <2>3. q.pc = pc /\ Become(r, q)
    BY <2>2, <2>6 DEF Begin, Idle
  <2>4. audit' = audit
    BY <1>5 DEF Arrive, OpenStart, BindStart, ProposeStart, WithdrawStart, InterestStart
  <2>5. QED
    BY <1>2, <1>4, <2>3, <2>4
<1>6. ASSUME Finish(r), audit' = audit
      PROVE  Goal
  BY <1>4, <1>6, IdleReportsNothing DEF Finish
<1>7. CASE Crash(r) \/ InterestUpsert(r)
  BY <1>6, <1>7 DEF Crash, InterestUpsert
<1>8. ASSUME NEW pc \in Silent, Goto(r, pc), audit' = audit
      PROVE  Goal
  <2>1. PICK q : q = [req[r] EXCEPT !.pc = pc]
    OBVIOUS
  <2>2. q.pc = pc /\ Become(r, q)
    BY <1>1, <1>8, <2>1 DEF Goto, RequestState
  <2>3. QED
    BY <1>2, <1>4, <1>8, <2>2
<1>9. ASSUME NEW pc \in Silent, NEW c, Require(r, c, pc), audit' = audit
      PROVE  Goal
  BY <1>6, <1>8, <1>9 DEF Require
<1> HIDE DEF Goal
<1>10. CASE \/ OpenFind(r) \/ ProposeInterest(r) \/ ProposeList(r)
            \/ ProposeAppetite(r) \/ ProposePosition(r)
            \/ ProposeRecheck(r) \/ WithdrawRecheck(r)
  <2>1. audit' = audit
    BY <1>10 DEF OpenFind, ProposeInterest, ProposeList, ProposeAppetite, ProposePosition,
       ProposeRecheck, WithdrawRecheck
  <2>2. \E pc \in Silent : \E c : Require(r, c, pc)
    BY <1>10 DEF OpenFind, ProposeInterest, ProposeList, ProposeAppetite, ProposePosition,
       ProposeRecheck, WithdrawRecheck
  <2>3. QED
    BY <1>9, <2>1, <2>2
<1>11. CASE ProposeCommitment(r)
  <2>1. audit' = audit
    BY <1>11 DEF ProposeCommitment
  <2>2. CASE Finish(r)
    BY <1>6, <2>1, <2>2
  <2>3. CASE ~ Finish(r)
    <3>1. PICK q : q = [req[r] EXCEPT !.pc = "propose.position",
                                       !.ceiling = commitment[req[r].org]]
      OBVIOUS
    <3>2. q.pc = "propose.position" /\ Become(r, q)
      BY <1>1, <1>11, <2>3, <3>1 DEF ProposeCommitment, CommitmentOf, RequestState
    <3>3. QED
      BY <1>2, <1>4, <2>1, <3>2
  <2>4. QED
    BY <2>2, <2>3
<1>12. CASE BindList(r)
  <2>1. audit' = audit
    BY <1>12 DEF BindList
  <2>2. CASE Finish(r)
    BY <1>6, <2>1, <2>2
  <2>3. CASE ~ Finish(r)
    <3>1. PICK f : Become(r, [req[r] EXCEPT !.pc = "bind.find", !.final = f])
      BY <1>12, <2>3 DEF BindList
    <3>2. PICK q : q = [req[r] EXCEPT !.pc = "bind.find", !.final = f]
      OBVIOUS
    <3>3. q.pc = "bind.find" /\ Become(r, q)
      BY <1>1, <3>1, <3>2 DEF RequestState
    <3>4. QED
      BY <1>2, <1>4, <2>1, <3>3
  <2>4. QED
    BY <2>2, <2>3
<1>13. CASE BindFind(r)
  <2>1. audit' = audit
    BY <1>13 DEF BindFind
  <2>2. PICK ids : Become(r, [req[r] EXCEPT !.pc = "bind.commit", !.found = ids])
    BY <1>13 DEF BindFind
  <2>3. PICK q : q = [req[r] EXCEPT !.pc = "bind.commit", !.found = ids]
    OBVIOUS
  <2>4. q.pc = "bind.commit" /\ Become(r, q)
    BY <1>1, <2>2, <2>3 DEF RequestState
  <2>5. QED
    BY <1>2, <1>4, <2>1, <2>4
<1>14. QED
  BY <1>3, <1>5, <1>7, <1>10, <1>11, <1>12, <1>13

(* What a report says holds already: the audit and the handlers that are   *)
(* about to report tell of changes that have happened.                     *)
LEMMA ReportsTell ==
  ASSUME IInv, NEW s \in Request, Reports(req[s])
  PROVE  LET a == Report(req[s]) IN
         /\ a.own /\ a.lst = req[s].lst /\ a.row = req[s].row
         /\ a.action \in {"open", "propose", "withdraw", "bind"}
         /\ a.action = "open" => synd[a.lst] # "NONE"
         /\ a.action = "bind" => synd[a.lst] = "BOUND"
         /\ a.action = "propose" => proposed[a.row] # None
         /\ a.action = "withdraw" => a.row \in removed
BY DEF IInv, HandlersKnow, Knows, Reports, Report, Entry, ActionAt, ProposedBy, OwnerSteps

(* A change that nobody has reported or is about to report: each kind of   *)
(* change happens once, to one syndication or one row.                     *)
LEMMA NewChange ==
  ASSUME IInv, NEW r \in Request, NEW q,
         Reports(q),
         \/ q.pc = "open.audit" /\ synd[q.lst] = "NONE"
         \/ q.pc = "propose.audit" /\ proposed[q.row] = None
         \/ q.pc = "withdraw.audit" /\ q.row \notin removed
         \/ q.pc = "bind.match" /\ synd[q.lst] # "BOUND"
  PROVE  /\ Report(q) \notin audit
         /\ \A s \in Request \ {r} : Reports(req[s]) => Report(req[s]) # Report(q)
<1> DEFINE a == Report(q)
<1>1. /\ a.lst = q.lst /\ a.row = q.row
      /\ \/ a.action = "open" /\ synd[a.lst] = "NONE"
         \/ a.action = "propose" /\ proposed[a.row] = None
         \/ a.action = "withdraw" /\ a.row \notin removed
         \/ a.action = "bind" /\ synd[a.lst] # "BOUND"
  BY DEF Report, Entry, ActionAt
<1> HIDE DEF a
<1>2. a \notin audit
  BY <1>1 DEF IInv, StoredInv, RecordsTellOfChanges, ProposedBy
<1>3. ASSUME NEW s \in Request, Reports(req[s])
      PROVE  Report(req[s]) # a
  <2>1. PICK b : b = Report(req[s])
    OBVIOUS
  <2>2. /\ b.action = "open" => synd[b.lst] # "NONE"
        /\ b.action = "bind" => synd[b.lst] = "BOUND"
        /\ b.action = "propose" => proposed[b.row] # None
        /\ b.action = "withdraw" => b.row \in removed
    BY <1>3, <2>1, ReportsTell
  <2>3. QED
    BY <1>1, <2>1, <2>2
<1>4. QED
  BY <1>2, <1>3 DEF a

LEMMA ChangingStepMakers ==
  ASSUME IInv, NEW r \in Request,
         OpenCreate(r) \/ ProposeInsert(r) \/ WithdrawDelete(r) \/ BindCommit(r)
  PROVE  ChangesHaveOneMaker'
<1>1. /\ TypeOK /\ ChangesHaveOneMaker /\ req \in [Request -> RequestState]
      /\ RequestOK(req[r]) /\ req[r] \in RequestState /\ Knows(req[r])
  BY DEF IInv, TypeOK, HandlersKnow
<1>2. audit' = audit
  BY DEF OpenCreate, ProposeInsert, WithdrawDelete, BindCommit
<1>3. CASE Finish(r)
  <2>1. req'[r] = Idle /\ \A s \in Request : s # r => req'[s] = req[s]
    BY <1>1, <1>3 DEF Finish, Become
  <2>2. QED
    BY <1>1, <1>2, <2>1, IdleReportsNothing, MakersMove
<1>4. ASSUME NEW q, Become(r, q), Reports(q),
             \/ q.pc = "open.audit" /\ synd[q.lst] = "NONE"
             \/ q.pc = "propose.audit" /\ proposed[q.row] = None
             \/ q.pc = "withdraw.audit" /\ q.row \notin removed
             \/ q.pc = "bind.match" /\ synd[q.lst] # "BOUND"
      PROVE  ChangesHaveOneMaker'
  <2>1. req'[r] = q /\ \A s \in Request : s # r => req'[s] = req[s]
    BY <1>1, <1>4 DEF Become
  <2>2. /\ Report(q) \notin audit
        /\ \A s \in Request \ {r} : Reports(req[s]) => Report(req[s]) # Report(q)
    BY <1>4, NewChange
  <2>3. QED
    BY <1>1, <1>2, <2>1, <2>2, MakersMove
<1>5. ASSUME NEW pc \in {"open.audit", "withdraw.audit", "bind.match"}, Goto(r, pc),
             req[r].pc # "withdraw.audit"
      PROVE  \E q : /\ Become(r, q) /\ q.pc = pc /\ q.lst = req[r].lst
                     /\ q.row = req[r].row /\ Reports(q)
  <2>1. PICK q : q = [req[r] EXCEPT !.pc = pc]
    OBVIOUS
  <2>2. q.pc = pc /\ q.lst = req[r].lst /\ q.row = req[r].row /\ ~ q.gone
    BY <1>1, <1>5, <2>1 DEF RequestOK, RequestState
  <2>3. Reports(q)
    BY <2>2 DEF Reports
  <2>4. Become(r, q)
    BY <1>5, <2>1 DEF Goto
  <2>5. QED
    BY <2>2, <2>3, <2>4
<1>6. CASE OpenCreate(r) /\ ~ Finish(r)
  <2>1. Goto(r, "open.audit") /\ synd[req[r].lst] = "NONE" /\ req[r].pc = "open.create"
    BY <1>6 DEF OpenCreate, Require, At
  <2>2. QED
    BY <1>4, <1>5, <2>1
<1>7. CASE WithdrawDelete(r) /\ ~ Finish(r)
  <2>1. /\ Goto(r, "withdraw.audit") /\ req[r].pc = "withdraw.delete"
        /\ Deletable(req[r].lst, req[r].org, req[r].row)
    BY <1>7 DEF WithdrawDelete, Require, At
  <2>2. req[r].lst \in Listing /\ req[r].org \in Provider
    BY <1>1, <2>1 DEF RequestOK, ProviderSteps
  <2>3. req[r].row \notin removed
    BY <2>1, <2>2 DEF IInv, StoredInv, HistoryExplainsRows, Deletable
  <2>4. QED
    BY <1>4, <1>5, <2>1, <2>3
<1>8. CASE BindCommit(r) /\ ~ Finish(r)
  <2>1. /\ Goto(r, "bind.match") /\ req[r].pc = "bind.commit"
        /\ Updatable(req[r].lst, req[r].final, req[r].found)
    BY <1>8 DEF BindCommit, Require, At
  <2>2. synd[req[r].lst] # "BOUND"
    BY <1>1, <2>1 DEF Knows, Updatable
  <2>3. QED
    BY <1>4, <1>5, <2>1, <2>2
<1>9. CASE ProposeInsert(r) /\ ~ Finish(r)
  <2>1. req[r].pc = "propose.insert"
    BY <1>9 DEF ProposeInsert, At
  <2>2. PICK i \in Unused : Become(r, [req[r] EXCEPT !.pc = "propose.audit", !.row = i])
    BY <1>9 DEF ProposeInsert
  <2>3. PICK q : q = [req[r] EXCEPT !.pc = "propose.audit", !.row = i]
    OBVIOUS
  <2>4. q.pc = "propose.audit" /\ q.row = i /\ ~ q.gone /\ Become(r, q)
    BY <1>1, <2>1, <2>2, <2>3 DEF RequestOK, RequestState
  <2>5. Reports(q) /\ proposed[q.row] = None
    BY <2>4 DEF Reports, Unused
  <2>6. QED
    BY <1>4, <2>4, <2>5
<1>10. QED
  BY <1>3, <1>6, <1>7, <1>8, <1>9

(* Marking the listing leaves the report of bind to be made. *)
LEMMA BindMatchMakers ==
  ASSUME IInv, NEW r \in Request, BindMatch(r)
  PROVE  ChangesHaveOneMaker'
<1>1. /\ ChangesHaveOneMaker /\ req \in [Request -> RequestState]
      /\ RequestOK(req[r]) /\ req[r] \in RequestState /\ req[r].pc = "bind.match"
  BY DEF IInv, TypeOK, BindMatch, At
<1>2. PICK q : q = [req[r] EXCEPT !.pc = "bind.audit"]
  OBVIOUS
<1>3. /\ q.pc = "bind.audit" /\ q.lst = req[r].lst /\ q.org = req[r].org
      /\ q.row = req[r].row /\ q.gone = req[r].gone
  BY <1>1, <1>2 DEF RequestState
<1>4. /\ req'[r] = q /\ audit' = audit
      /\ \A s \in Request : s # r => req'[s] = req[s]
  BY <1>1, <1>2 DEF BindMatch, Goto, Become
<1>5. Report(q) = Report(req[r]) /\ (Reports(q) => Reports(req[r]))
  BY <1>1, <1>3 DEF Report, Reports, Entry, ActionAt
<1>6. Reports(q) => /\ Report(q) \notin audit
                    /\ \A s \in Request \ {r} : Reports(req[s]) => Report(req[s]) # Report(q)
  BY <1>1, <1>5 DEF ChangesHaveOneMaker
<1>7. QED
  BY <1>1, <1>4, <1>6, MakersMove

(* A record is the report of its handler, or the one of an overtaken       *)
(* withdrawal, which is nobody's own.                                      *)
LEMMA RecordMakers ==
  ASSUME IInv, NEW r \in Request,
         \/ Record(r, "open.audit", "open") \/ Record(r, "propose.audit", "propose")
         \/ Record(r, "withdraw.audit", "withdraw") \/ Record(r, "bind.audit", "bind")
  PROVE  ChangesHaveOneMaker'
<1>1. ChangesHaveOneMaker /\ req \in [Request -> RequestState]
  BY DEF IInv, TypeOK
<1>2. /\ req'[r] = Idle /\ \A s \in Request : s # r => req'[s] = req[s]
  BY <1>1 DEF Record, Finish, Become
<1>3. audit' = audit \cup {Report(req[r])} /\ (~ req[r].gone => Reports(req[r]))
  BY DEF Record, At, Report, ActionAt, Reports
<1>4. ASSUME NEW t \in Request, Reports(req'[t])
      PROVE  /\ Report(req'[t]) \notin audit'
             /\ \A s \in Request \ {t} : Reports(req'[s]) => Report(req'[s]) # Report(req'[t])
  <2>1. t # r /\ req'[t] = req[t] /\ Reports(req[t])
    BY <1>2, <1>4, IdleReportsNothing
  <2>2. /\ Report(req[t]) \notin audit
        /\ \A s \in Request \ {t} : Reports(req[s]) => Report(req[s]) # Report(req[t])
    BY <1>1, <2>1 DEF ChangesHaveOneMaker
  <2>3. Report(req[t]) # Report(req[r])
    <3>1. CASE ~ req[r].gone
      BY <1>3, <2>1, <2>2, <3>1
    <3>2. CASE req[r].gone
      <4>1. Report(req[t]).own /\ ~ Report(req[r]).own
        BY <2>1, <3>2 DEF Report, Reports, Entry
      <4>2. QED
        BY <4>1
    <3>3. QED
      BY <3>1, <3>2
  <2>4. ASSUME NEW s \in Request \ {t}, Reports(req'[s])
        PROVE  Report(req'[s]) # Report(req'[t])
    BY <1>2, <2>1, <2>2, <2>4, IdleReportsNothing
  <2>5. QED
    BY <1>3, <2>1, <2>2, <2>3, <2>4
<1>5. QED
  BY <1>4 DEF ChangesHaveOneMaker, Reports, Report, Entry, ActionAt

LEMMA StepMakers ==
  ASSUME IInv, NEW r \in Request, Arrive(r) \/ Step(r) \/ Crash(r)
  PROVE  ChangesHaveOneMaker'
<1>1. TypeOK /\ ChangesHaveOneMaker
  BY DEF IInv
<1>2. CASE \/ Arrive(r) \/ Crash(r)
           \/ OpenFind(r) \/ ProposeInterest(r) \/ ProposeList(r)
           \/ ProposeAppetite(r) \/ ProposeCommitment(r) \/ ProposePosition(r)
           \/ ProposeRecheck(r) \/ WithdrawList(r) \/ WithdrawRecheck(r)
           \/ WithdrawFind(r) \/ BindList(r) \/ BindFind(r) \/ InterestUpsert(r)
  BY <1>1, <1>2, QuietSteps, MakersMove
<1>3. QED
  BY <1>2, ChangingStepMakers, BindMatchMakers, RecordMakers DEF Step

LEMMA StillMakers ==
  ASSUME ChangesHaveOneMaker, UNCHANGED <<audit, req>>
  PROVE  ChangesHaveOneMaker'
BY DEF ChangesHaveOneMaker, Reports, Report, Entry, ActionAt

LEMMA InitInv == Init => IInv
<1> SUFFICES ASSUME Init PROVE IInv
  OBVIOUS
<1>1. TypeOK
  BY InitType
<1>2. StoredInv
  BY DEF Init, NoRows, StoredInv, HistoryExplainsRows, BoundIsExact, MatchedOnlyIfBound,
     BoundByConsent, ProposalBacked, RecordsTellOfChanges
<1>3. HandlersKnow
  BY DEF Init, Idle, HandlersKnow, Knows, ProviderSteps, OwnerSteps, ProposalSteps
<1>4. ChangesHaveOneMaker
  BY DEF Init, Idle, ChangesHaveOneMaker, Reports
<1>5. QED
  BY <1>1, <1>2, <1>3, <1>4 DEF IInv

LEMMA NextInv == IInv /\ [Next]_vars => IInv'
<1> SUFFICES ASSUME IInv, [Next]_vars PROVE IInv'
  OBVIOUS
<1>1. TypeOK'
  BY NextType DEF IInv
<1>2. ASSUME UNCHANGED vars
      PROVE  StoredInv' /\ HandlersKnow'
  <2>1. StoredInv' /\ Grows
    BY <1>2, KeepsTables DEF vars, market, history, IInv
  <2>2. \A s \in Request : Knows(req[s])'
    BY <1>2, <2>1, KnowsPersists DEF vars, IInv, HandlersKnow
  <2>3. QED
    BY <2>1, <2>2 DEF HandlersKnow
<1>3. ASSUME NEW r \in Request, Step(r)
      PROVE  StoredInv' /\ HandlersKnow'
  BY <1>3, CheckInv, OpenCreateInv, ProposeCommitmentInv, ProposeInsertInv,
     WithdrawListInv, WithdrawFindInv, WithdrawDeleteInv, BindListInv, BindFindInv, BindCommitInv,
     BindMatchInv, InterestUpsertInv, RecordInv DEF Step
<1>4. StoredInv' /\ HandlersKnow'
  BY <1>2, <1>3, ArriveInv, CrashInv, WriteInv DEF Next
<1>5. ChangesHaveOneMaker'
  <2>1. Write => UNCHANGED <<audit, req>>
    BY DEF Write, WithdrawListing, WithdrawInterest, SetAppetite, SetCommitment
  <2>2. QED
    BY <2>1, StepMakers, StillMakers DEF Next, vars, IInv
<1>6. QED
  BY <1>1, <1>4, <1>5 DEF IInv

LEMMA Invariance == Spec => []IInv
BY InitInv, NextInv, PTL DEF Spec

(* What a handler of propose, withdraw or bind has read and carries past   *)
(* its awaits stays true of the database until it writes, without locks.   *)
THEOREM HandlersCorrect == Spec => []HandlersKnow
BY Invariance, PTL DEF IInv

(* Rows and events agree: however requests interleave and die, the         *)
(* allocation table is what its PROPOSED and REMOVED events say.           *)
THEOREM HistoryCorrect == Spec => []HistoryExplainsRows
<1>1. IInv => HistoryExplainsRows
  BY DEF IInv, StoredInv
<1>2. QED
  BY Invariance, <1>1, PTL

(* What bind commits is exact to the minor unit, for every capacity and    *)
(* every split of it, and whatever happens while bind is on its way.       *)
THEOREM BoundExact == Spec => []BoundIsExact
<1>1. IInv => BoundIsExact
  BY DEF IInv, StoredInv
<1>2. QED
  BY Invariance, <1>1, PTL

(* No provider is bound to a share that it has not proposed on that listing *)
(* at some time.                                                            *)
THEOREM BoundConsented == Spec => []BoundByConsent
<1>1. IInv => BoundByConsent
  BY DEF IInv, StoredInv
<1>2. QED
  BY Invariance, <1>1, PTL

(* A MATCHED listing has a BOUND syndication, and every allocation a       *)
(* commitment behind it.                                                   *)
THEOREM MatchedAndBacked == Spec => [](MatchedOnlyIfBound /\ ProposalBacked)
<1>1. IInv => MatchedOnlyIfBound /\ ProposalBacked
  BY DEF IInv, StoredInv
<1>2. QED
  BY Invariance, <1>1, PTL

(* The audit trail of syndication tells of nothing that did not happen, and *)
(* no change of two handlers: only a withdrawal that was overtaken records  *)
(* again what another one did.                                              *)
THEOREM AuditCorrect == Spec => []AuditTruthful
<1>1. IInv => AuditTruthful
  BY DEF IInv, StoredInv, AuditTruthful
<1>2. QED
  BY Invariance, <1>1, PTL

(* The steps that leave every syndication and its rows alone. *)
Undisturbing(r) ==
  \/ Arrive(r) \/ Crash(r)
  \/ OpenFind(r) \/ ProposeInterest(r) \/ ProposeList(r)
  \/ ProposeAppetite(r) \/ ProposeCommitment(r) \/ ProposePosition(r)
  \/ ProposeRecheck(r) \/ WithdrawList(r) \/ WithdrawRecheck(r)
  \/ WithdrawFind(r) \/ BindList(r) \/ BindFind(r)
  \/ BindMatch(r) \/ InterestUpsert(r)
  \/ Record(r, "open.audit", "open") \/ Record(r, "propose.audit", "propose")
  \/ Record(r, "withdraw.audit", "withdraw") \/ Record(r, "bind.audit", "bind")

LEMMA WritingSteps ==
  ASSUME [Next]_vars
  PROVE  \/ UNCHANGED <<synd, alloc, bound>>
         \/ \E r \in Request : OpenCreate(r) \/ ProposeInsert(r)
                             \/ WithdrawDelete(r) \/ BindCommit(r)
<1>1. ASSUME NEW r \in Request, Undisturbing(r)
      PROVE  UNCHANGED <<synd, alloc, bound>>
  BY <1>1 DEF Undisturbing, Arrive, OpenStart, BindStart, ProposeStart, WithdrawStart,
     InterestStart, Crash, OpenFind, ProposeInterest, ProposeList, ProposeAppetite,
     ProposeCommitment, ProposePosition, ProposeRecheck, WithdrawList, WithdrawRecheck,
     WithdrawFind, BindList, BindFind, BindMatch, InterestUpsert, Record, history
<1>2. Write => UNCHANGED <<synd, alloc, bound>>
  BY DEF Write, WithdrawListing, WithdrawInterest, SetAppetite, SetCommitment, history
<1>3. CASE UNCHANGED vars
  BY <1>3 DEF vars
<1>4. QED
  BY <1>1, <1>2, <1>3 DEF Next, Step, Undisturbing

(* Binding means binding.  A withdrawal or a second bind that is under way *)
(* when the syndication is bound is refused by the trigger: it updates or  *)
(* deletes at least one row, because the terms a bind carries are never    *)
(* empty.                                                                  *)
THEOREM Frozen == Spec => BoundFrozen
<1> DEFINE Kept(l) == /\ synd'[l] = "BOUND"
                      /\ bound'[l] = bound[l]
                      /\ \A p \in Provider :
                           alloc[l][p] # None => alloc'[l][p] = alloc[l][p]
<1>1. ASSUME IInv, [Next]_vars, NEW l \in Listing, synd[l] = "BOUND"
      PROVE  Kept(l)
  <2>1. ASSUME UNCHANGED <<synd, alloc, bound>>
        PROVE  Kept(l)
    BY <1>1, <2>1
  <2>2. ASSUME NEW r \in Request, OpenCreate(r)
        PROVE  Kept(l)
    <3>1. UNCHANGED <<alloc, bound>>
      BY <2>2 DEF OpenCreate, history
    <3>2. synd'[l] = "BOUND"
      BY <1>1, <2>2 DEF OpenCreate, IInv, TypeOK
    <3>3. QED
      BY <3>1, <3>2
  <2>3. ASSUME NEW r \in Request, ProposeInsert(r)
        PROVE  Kept(l)
    <3>1. UNCHANGED <<synd, bound>>
      BY <2>3 DEF ProposeInsert
    <3>2. ASSUME NEW p \in Provider, alloc[l][p] # None
          PROVE  alloc'[l][p] = alloc[l][p]
      <4>1. alloc \in [Listing -> [Provider -> Row \cup {None}]]
        BY <1>1 DEF IInv, TypeOK
      <4>2. CASE UNCHANGED alloc
        BY <4>2
      <4>3. CASE /\ alloc[req[r].lst][req[r].org] = None
                 /\ \E row : alloc' = [alloc EXCEPT ![req[r].lst][req[r].org] = row]
        BY <3>2, <4>1, <4>3
      <4>4. QED
        BY <2>3, <4>2, <4>3 DEF ProposeInsert
    <3>3. QED
      BY <1>1, <3>1, <3>2
  <2>4. ASSUME NEW r \in Request, WithdrawDelete(r)
        PROVE  Kept(l)
    <3>1. UNCHANGED <<synd, bound>>
      BY <2>4 DEF WithdrawDelete
    <3>2. ASSUME NEW p \in Provider
          PROVE  alloc'[l][p] = alloc[l][p]
      BY <1>1, <2>4 DEF WithdrawDelete, Deletable, IInv, TypeOK
    <3>3. QED
      BY <1>1, <3>1, <3>2
  <2>5. ASSUME NEW r \in Request, BindCommit(r)
        PROVE  Kept(l)
    <3>1. Knows(req[r]) /\ req[r].pc = "bind.commit"
      BY <1>1, <2>5 DEF IInv, HandlersKnow, BindCommit, At
    <3>2. Updatable(req[r].lst, req[r].final, req[r].found) => synd[req[r].lst] # "BOUND"
      BY <3>1 DEF Knows, Updatable
    <3>3. CASE ~Updatable(req[r].lst, req[r].final, req[r].found)
      BY <2>1, <2>5, <3>3 DEF BindCommit
    <3>4. CASE Updatable(req[r].lst, req[r].final, req[r].found)
      <4>1. l # req[r].lst
        BY <1>1, <3>2, <3>4
      <4>2. \E rows : alloc' = [alloc EXCEPT ![req[r].lst] = rows]
        BY <2>5, <3>4 DEF BindCommit
      <4>3. alloc'[l] = alloc[l]
        BY <1>1, <4>1, <4>2 DEF IInv, TypeOK
      <4>4. synd'[l] = synd[l] /\ bound'[l] = bound[l]
        BY <1>1, <2>5, <3>4, <4>1 DEF BindCommit, IInv, TypeOK
      <4>5. QED
        BY <1>1, <4>3, <4>4
    <3>5. QED
      BY <3>3, <3>4
  <2>6. QED
    BY <1>1, <2>1, <2>2, <2>3, <2>4, <2>5, WritingSteps
<1>2. IInv /\ [Next]_vars =>
        [\A l \in Listing : synd[l] = "BOUND" => Kept(l)]_vars
  BY <1>1
<1>3. QED
  BY Invariance, <1>2, PTL DEF BoundFrozen, Spec

-----------------------------------------------------------------------------
(* Syndication implements Commitments.                                     *)

LEMMA SameTotal ==
  ASSUME NEW terms
  PROVE  Promise!Having(terms) = Holders(terms) /\ Promise!Total(terms) = TotalAmount(terms)
<1>1. Promise!Having(terms) = Holders(terms)
  BY DEF Holders, Promise!Having
<1>2. ASSUME NEW f, NEW S
      PROVE  SumOver(f, S) = Promise!SumOver(f, S)
  BY DEF SumOver, Promise!SumOver, MapThenSumSet, Promise!MapThenSumSet,
     MapThenFoldSet, Promise!MapThenFoldSet
<1>3. QED
  BY <1>1, <1>2 DEF Promise!Total, TotalAmount, Amounts

LEMMA HoldingValue ==
  ASSUME NEW l \in Listing, NEW p \in Provider
  PROVE  /\ Holding[l][p] = IF alloc[l][p] = None THEN None ELSE alloc[l][p].share
         /\ (Holding[l][p])' = IF alloc'[l][p] = None THEN None ELSE alloc'[l][p].share
BY DEF Holding

LEMMA HoldingShape ==
  /\ Holding = [l \in Listing |-> [p \in Provider |-> Holding[l][p]]]
  /\ Holding' = [l \in Listing |-> [p \in Provider |-> (Holding[l][p])']]
BY DEF Holding

(* A proposal takes a share nobody holds yet for that provider. *)
LEMMA InsertPromise ==
  ASSUME IInv, NEW r \in Request, ProposeInsert(r)
  PROVE  Promise!PromiseNext \/ UNCHANGED Promise!promise
<1> DEFINE p == req[r].org
           l == req[r].lst
           t == req[r].share
           a == Indicative(l, t)
<1>1. TypeOK /\ RequestOK(req[r]) /\ Knows(req[r]) /\ req[r].pc = "propose.insert"
  BY DEF IInv, TypeOK, HandlersKnow, ProposeInsert, At
<1>2. p \in Provider /\ l \in Listing /\ t \in Shares /\ synd[l] # "NONE"
  BY <1>1 DEF RequestOK, Knows, ProviderSteps, ProposalSteps
<1>3. UNCHANGED <<synd, bound>>
  BY DEF ProposeInsert
<1>4. CASE alloc[l][p] # None
  BY <1>3, <1>4 DEF ProposeInsert, Promise!promise, Holding
<1>5. CASE alloc[l][p] = None
  <2>1. PICK i \in Unused :
          alloc' = [alloc EXCEPT ![l][p] = [id |-> i, share |-> t, amount |-> a]]
    BY <1>5 DEF ProposeInsert
  <2>2. /\ alloc'[l][p] # None /\ alloc'[l][p].share = t
        /\ \A k \in Listing, q \in Provider :
             k # l \/ q # p => alloc'[k][q] = alloc[k][q]
    <3> HIDE DEF a
    <3>1. a \in Nat
      <4> HIDE DEF l, t
      <4>1. l \in Listing /\ t \in 0 .. FullAllocation
        BY <1>2, ConstantsAssumption
      <4>2. QED
        BY <4>1, IndicativeNat DEF a
    <3>2. [id |-> i, share |-> t, amount |-> a] \in Row
      BY <1>2, <3>1, ConstantsAssumption DEF Row, Unused
    <3>3. QED
      BY <1>1, <1>2, <2>1, <3>2, NoneAssumption DEF TypeOK
  <2> HIDE DEF p, l, t, a
  <2>3. Holding[l][p] = None
    BY <1>2, <1>5, HoldingValue DEF l, p
  <2>4. Holding' = [Holding EXCEPT ![l][p] = t]
    <3>1. \A k \in Listing, q \in Provider :
            (Holding[k][q])' = IF k = l /\ q = p THEN t ELSE Holding[k][q]
      BY <2>2, HoldingValue
    <3>2. QED
      BY <1>2, <3>1, HoldingShape
  <2>5. Promise!Propose(l, p, t)
    BY <1>2, <1>3, <2>3, <2>4 DEF Promise!Propose, l
  <2>6. QED
    BY <1>2, <2>5 DEF Promise!PromiseNext, l, p, t
<1>6. QED
  BY <1>4, <1>5

(* A withdrawal gives a share back, before the syndication is BOUND. *)
LEMMA DeletePromise ==
  ASSUME IInv, NEW r \in Request, WithdrawDelete(r)
  PROVE  Promise!PromiseNext \/ UNCHANGED Promise!promise
<1> DEFINE p == req[r].org
           l == req[r].lst
           i == req[r].row
<1>1. TypeOK /\ RequestOK(req[r]) /\ Knows(req[r]) /\ req[r].pc = "withdraw.delete"
  BY DEF IInv, TypeOK, HandlersKnow, WithdrawDelete, At
<1>2. p \in Provider /\ l \in Listing /\ synd[l] \in {"OPEN", "BOUND"}
  BY <1>1 DEF RequestOK, Knows, ProviderSteps, TypeOK, SyndicationStatus
<1>3. UNCHANGED <<synd, bound>>
  BY DEF WithdrawDelete
<1>4. CASE ~Deletable(l, p, i)
  BY <1>3, <1>4 DEF WithdrawDelete, Promise!promise, Holding
<1>5. CASE Deletable(l, p, i)
  <2>1. alloc' = [alloc EXCEPT ![l][p] = None]
    BY <1>5 DEF WithdrawDelete
  <2>2. alloc[l][p] # None /\ alloc[l][p] \in Row /\ synd[l] = "OPEN"
    BY <1>1, <1>2, <1>5 DEF Deletable, TypeOK
  <2>3. /\ alloc'[l][p] = None
        /\ \A k \in Listing, q \in Provider :
             k # l \/ q # p => alloc'[k][q] = alloc[k][q]
    BY <1>1, <1>2, <2>1 DEF TypeOK
  <2>4. Holding[l][p] # None
    <3>1. alloc[l][p].share \in Nat
      BY <2>2, ConstantsAssumption DEF Row
    <3>2. QED
      BY <1>2, <2>2, <3>1, HoldingValue, ConstantsAssumption
  <2> HIDE DEF p, l, i
  <2>5. Holding' = [Holding EXCEPT ![l][p] = None]
    <3>1. \A k \in Listing, q \in Provider :
            (Holding[k][q])' = IF k = l /\ q = p THEN None ELSE Holding[k][q]
      BY <2>3, HoldingValue
    <3>2. QED
      BY <1>2, <3>1, HoldingShape
  <2>6. Promise!Withdraw(l, p)
    BY <1>3, <2>2, <2>4, <2>5 DEF Promise!Withdraw
  <2>7. QED
    BY <1>2, <2>6 DEF Promise!PromiseNext, l, p
<1>6. QED
  BY <1>4, <1>5

(* The transaction of bind, when it commits, binds an OPEN syndication to  *)
(* exact terms; the shares held stay as they are.                          *)
LEMMA CommitPromise ==
  ASSUME IInv, NEW r \in Request, BindCommit(r)
  PROVE  Promise!PromiseNext \/ UNCHANGED Promise!promise
<1> DEFINE l == req[r].lst
           final == req[r].final
           rows == [p \in Provider |-> IF final[p] = None THEN alloc[l][p]
                      ELSE [alloc[l][p] EXCEPT !.amount = final[p].amount]]
<1>1. TypeOK /\ RequestOK(req[r]) /\ Knows(req[r]) /\ req[r].pc = "bind.commit"
  BY DEF IInv, TypeOK, HandlersKnow, BindCommit, At
<1>2. /\ l \in Listing /\ final \in [Provider -> Terms \cup {None}]
      /\ Holders(final) # {} /\ TotalAmount(final) = Capacity[l]
      /\ \A p \in Provider : final[p] # None => final[p].amount <= Capacity[l]
      /\ synd[l] \in {"OPEN", "BOUND"}
  BY <1>1 DEF RequestOK, RequestState, OwnerSteps, Knows, TypeOK, SyndicationStatus
<1>3. CASE ~Updatable(l, final, req[r].found)
  BY <1>3 DEF BindCommit, Promise!promise, Holding
<1>4. CASE Updatable(l, final, req[r].found)
  <2>1. /\ synd' = [synd EXCEPT ![l] = "BOUND"]
        /\ bound' = [bound EXCEPT ![l] = final]
    BY <1>4 DEF BindCommit
  <2>2. alloc' = [alloc EXCEPT ![l] = rows]
    BY <1>1, <1>2, <1>4 DEF BindCommit, TypeOK
  <2>3. synd[l] = "OPEN" /\ \A p \in Holders(final) : alloc[l][p] \in Row
    BY <1>1, <1>2, <1>4 DEF Updatable, TypeOK, Holders
  <2>4. \A p \in Provider : /\ rows[p] # None <=> alloc[l][p] # None
                            /\ alloc[l][p] # None => rows[p].share = alloc[l][p].share
    <3>1. ASSUME NEW p \in Provider, final[p] # None
          PROVE  /\ rows[p] # None /\ alloc[l][p] # None
                 /\ rows[p].share = alloc[l][p].share
      <4>1. alloc[l][p] \in Row /\ final[p].amount \in Nat
        BY <1>2, <2>3, <3>1 DEF Holders, Terms
      <4>2. rows[p] \in Row /\ rows[p].share = alloc[l][p].share
        BY <3>1, <4>1 DEF Row
      <4>3. QED
        BY <4>1, <4>2, NoneAssumption
    <3>2. QED
      BY <3>1
  <2>5. alloc'[l] = rows /\ \A k \in Listing : k # l => alloc'[k] = alloc[k]
    <3> HIDE DEF rows
    <3> QED
      BY <1>1, <1>2, <2>2 DEF TypeOK
  <2> HIDE DEF rows, l, final
  <2>6. Holding' = Holding
    <3>1. \A k \in Listing, q \in Provider : (Holding[k][q])' = Holding[k][q]
      BY <2>4, <2>5, HoldingValue
    <3>2. QED
      BY <3>1, HoldingShape
  <2>7. Holders(final) \subseteq Promise!Having(Holding[l])
    <3>1. ASSUME NEW p \in Holders(final)
          PROVE  Holding[l][p] # None
      <4>1. p \in Provider /\ alloc[l][p] \in Row
        BY <2>3, <3>1 DEF Holders
      <4>2. alloc[l][p].share \in Nat /\ alloc[l][p] # None
        BY <4>1, ConstantsAssumption, NoneAssumption DEF Row
      <4>3. QED
        BY <1>2, <4>1, <4>2, HoldingValue, ConstantsAssumption
    <3>2. QED
      BY <3>1 DEF Promise!Having, Holders
  <2>8. final \in [Provider -> Promise!BoundTerms(l) \cup {None}]
    <3>1. ASSUME NEW p \in Provider, final[p] # None
          PROVE  final[p] \in Promise!BoundTerms(l)
      <4>1. final[p] \in Terms /\ final[p].amount <= Capacity[l]
        BY <1>2, <3>1
      <4>2. Capacity[l] \in Nat
        BY <1>2, ConstantsAssumption
      <4>3. QED
        BY <4>1, <4>2 DEF Terms, Promise!BoundTerms
    <3>2. QED
      BY <1>2, <3>1
  <2>9. Promise!Bind(l, final)
    BY <1>2, <2>1, <2>3, <2>6, <2>7, SameTotal DEF Promise!Bind
  <2>10. QED
    BY <1>2, <2>8, <2>9 DEF Promise!PromiseNext
<1>5. QED
  BY <1>3, <1>4

(* Every step of Syndication is a step of Commitments or leaves what it    *)
(* promises alone.  Components that rely on Commitments can therefore be   *)
(* checked against it, without the handlers of syndication.                *)
THEOREM Implements == Spec => KeepsPromise
<1>1. Init => Promise!PromiseInit
  BY DEF Init, NoRows, Holding, Promise!PromiseInit, Promise!Nobody
<1>2. IInv /\ [Next]_vars => [Promise!PromiseNext]_(Promise!promise)
  <2> SUFFICES ASSUME IInv, [Next]_vars
               PROVE  Promise!PromiseNext \/ UNCHANGED Promise!promise
    OBVIOUS
  <2>1. ASSUME UNCHANGED <<synd, alloc, bound>>
        PROVE  UNCHANGED Promise!promise
    BY <2>1 DEF Promise!promise, Holding
  <2>2. ASSUME NEW r \in Request, OpenCreate(r)
        PROVE  Promise!PromiseNext \/ UNCHANGED Promise!promise
    <3>1. UNCHANGED <<alloc, bound>>
      BY <2>2 DEF OpenCreate, history
    <3>2. Holding' = Holding
      BY <3>1 DEF Holding
    <3>3. req[r].lst \in Listing
      BY <2>2 DEF OpenCreate, At, IInv, TypeOK, RequestOK
    <3>4. CASE synd[req[r].lst] = "NONE"
      BY <2>2, <3>1, <3>2, <3>3, <3>4
         DEF OpenCreate, Promise!PromiseNext, Promise!Open
    <3>5. CASE synd[req[r].lst] # "NONE"
      BY <2>1, <2>2, <3>1, <3>5 DEF OpenCreate
    <3>6. QED
      BY <3>4, <3>5
  <2>3. QED
    BY <2>1, <2>2, WritingSteps, InsertPromise, DeletePromise, CommitPromise
<1>3. QED
  BY Invariance, <1>1, <1>2, PTL DEF KeepsPromise, Promise!PromiseSpec, Spec

-----------------------------------------------------------------------------
(* Requests one at a time: the steps of SyndicationInMemory. *)

HeldBy(p) == {k \in Listing : alloc[k][p] # None}
AmountsOf(p) == [l \in HeldBy(p) |-> alloc[l][p].amount]
SharesOf(rows) == [p \in Holders(rows) |-> rows[p].share]

(* The sums are over finitely many rows. *)
FinitelyMany ==
  /\ \A l \in Listing : IsFiniteSet(Holders(alloc[l]))
  /\ \A p \in Provider : IsFiniteSet(HeldBy(p))

(* What a handler has read is what is there, because nobody else writes. *)
KnowsMarket(q) ==
  /\ q.pc = "propose.insert" => synd[q.lst] = "OPEN"
  /\ q.pc \in {"propose.appetite", "propose.commitment", "propose.position",
               "propose.recheck", "propose.insert"}
       => FitsSyndication(alloc[q.lst], q.org, q.share)
  /\ q.pc \in {"propose.position", "propose.recheck", "propose.insert"}
       => q.ceiling = commitment[q.org]
  /\ q.pc \in {"propose.recheck", "propose.insert"}
       => Indicative(q.lst, q.share) <= Available(q.org, q.ceiling)
  /\ q.pc \in {"bind.find", "bind.commit"}
       => /\ TotalShare(alloc[q.lst]) = FullAllocation
          /\ q.final \in FinalAllocations(q.lst, alloc[q.lst])

Serial == FinitelyMany /\ ChecksHold
SerialInv == IInv /\ Serial /\ \A r \in Request : KnowsMarket(req[r])

LEMMA CommittedValue ==
  ASSUME NEW p
  PROVE  /\ Committed(p) = SumOver(AmountsOf(p), HeldBy(p))
         /\ Committed(p)' = SumOver(AmountsOf(p)', HeldBy(p)')
BY DEF Committed, AmountsOf, HeldBy

LEMMA TotalShareValue ==
  \A rows : TotalShare(rows) = SumOver(SharesOf(rows), Holders(rows))
BY DEF TotalShare, SharesOf

LEMMA SerialNext ==
  ASSUME MemNext
  PROVE  \/ Write /\ \A r \in Request : req[r].pc = "idle"
         \/ \E r \in Request : /\ Arrive(r) \/ Step(r)
                               /\ \A s \in Request \ {r} : req[s].pc = "idle"
<1>1. ASSUME NEW r \in Request, WriteBoth(r) \/ ReadOnly(r)
      PROVE  Arrive(r) \/ Step(r)
  BY <1>1 DEF WriteBoth, ReadOnly, Step
<1>2. WriteDirectly => Write
  BY DEF WriteDirectly, Write
<1> QED  BY <1>1, <1>2 DEF MemNext, Quiet, At

LEMMA SerialKeepsIInv ==
  ASSUME IInv, [MemNext]_memVars
  PROVE  IInv'
<1>1. [Next]_vars
  <2>1. CASE MemNext
    BY <2>1, SerialNext DEF Next
  <2> QED  BY <2>1 DEF memVars
<1> QED  BY <1>1, NextInv

(* A request that waits for nothing more that it has read knows enough.    *)
LEMMA OthersWait ==
  ASSUME TypeOK, NEW r \in Request, \A s \in Request \ {r} : req[s].pc = "idle",
         \A s \in Request : s # r => req'[s] = req[s],
         KnowsMarket(req[r])'
  PROVE  \A s \in Request : KnowsMarket(req[s])'
<1>1. SUFFICES ASSUME NEW s \in Request, s # r PROVE KnowsMarket(req[s])'
  OBVIOUS
<1>2. req'[s].pc = "idle"
  BY <1>1
<1> QED  BY <1>2 DEF KnowsMarket

(* What a step must leave of a row set for its sums to stay. *)
LEMMA SerialUnchanged ==
  ASSUME Serial, UNCHANGED <<synd, alloc>>
  PROVE  Serial'
BY DEF Serial, FinitelyMany, ChecksHold, ProposedWithinFull, BoundRowsExact,
   BoundAmountFollowsShare, HeldBy

LEMMA WriteSerial ==
  ASSUME SerialInv, Write, \A r \in Request : req[r].pc = "idle"
  PROVE  Serial' /\ \A r \in Request : KnowsMarket(req[r])'
<1>1. UNCHANGED <<synd, alloc, req>>
  BY DEF Write, WithdrawListing, WithdrawInterest, SetAppetite, SetCommitment
<1>2. \A r \in Request : req'[r].pc = "idle"
  BY <1>1
<1>3. \A r \in Request : KnowsMarket(req[r])'
  BY <1>2 DEF KnowsMarket
<1> QED  BY <1>1, <1>3, SerialUnchanged DEF SerialInv

(* A request that has reached none of the steps that rely on a read.       *)
LEMMA WaitsForNothing ==
  ASSUME NEW r,
         ~ req'[r].pc \in {"propose.appetite", "propose.commitment", "propose.position",
                           "propose.recheck", "propose.insert", "bind.find", "bind.commit"}
  PROVE  KnowsMarket(req[r])'
BY DEF KnowsMarket

LEMMA ArriveSerial ==
  ASSUME SerialInv, NEW r \in Request, Arrive(r)
  PROVE  /\ UNCHANGED <<synd, alloc, commitment>>
         /\ \A s \in Request : s # r => req'[s] = req[s]
         /\ KnowsMarket(req[r])'
<1>1. UNCHANGED <<market, synd, alloc>>
  BY DEF Arrive, OpenStart, BindStart, ProposeStart, WithdrawStart, InterestStart
<1>2. PICK pc \in {"open.find", "bind.list", "propose.interest", "withdraw.list",
                 "interest.upsert"},
           p \in Provider \cup {Owner}, l \in Listing, t \in Shares \cup {0} :
        Begin(r, pc, p, l, t)
  BY DEF Arrive, OpenStart, BindStart, ProposeStart, WithdrawStart, InterestStart
<1>3. req' = [req EXCEPT ![r] = [Idle EXCEPT !.pc = pc, !.org = p, !.lst = l, !.share = t]]
  BY <1>2 DEF Begin, Become
<1>4. req'[r].pc = pc /\ \A s \in Request : s # r => req'[s] = req[s]
  BY <1>3 DEF SerialInv, IInv, TypeOK, Idle
<1>5. KnowsMarket(req[r])'
  BY <1>2, <1>4, WaitsForNothing
<1> QED  BY <1>1, <1>4, <1>5 DEF market

(* The checks of a handler that go on to the next step.                    *)
LEMMA RequireStep ==
  ASSUME TypeOK, NEW r \in Request, NEW condition, NEW pc, Require(r, condition, pc)
  PROVE  /\ \A s \in Request : s # r => req'[s] = req[s]
         /\ ~ condition => req'[r] = Idle
         /\ condition => /\ req'[r].pc = pc /\ req'[r].lst = req[r].lst
                         /\ req'[r].org = req[r].org /\ req'[r].share = req[r].share
                         /\ req'[r].ceiling = req[r].ceiling
                         /\ req'[r].final = req[r].final
<1>1. req[r] \in RequestState /\ req \in [Request -> RequestState]
  BY DEF TypeOK
<1>2. CASE condition
  <2>1. req' = [req EXCEPT ![r] = [req[r] EXCEPT !.pc = pc]]
    BY <1>2 DEF Require, Goto, Become
  <2> QED  BY <1>1, <1>2, <2>1 DEF RequestState
<1>3. CASE ~ condition
  <2>1. req' = [req EXCEPT ![r] = Idle]
    BY <1>3 DEF Require, Finish, Become
  <2> QED  BY <1>1, <1>3, <2>1
<1> QED  BY <1>2, <1>3

LEMMA CheckSerial ==
  ASSUME SerialInv, NEW r \in Request,
         \/ OpenFind(r) \/ ProposeInterest(r) \/ ProposeList(r)
         \/ ProposeAppetite(r) \/ ProposePosition(r) \/ ProposeRecheck(r)
         \/ WithdrawRecheck(r)
  PROVE  /\ UNCHANGED <<synd, alloc, commitment>>
         /\ \A s \in Request : s # r => req'[s] = req[s]
         /\ KnowsMarket(req[r])'
<1>1. UNCHANGED <<synd, alloc, commitment>>
  BY DEF OpenFind, ProposeInterest, ProposeList, ProposeAppetite,
     ProposePosition, ProposeRecheck, WithdrawRecheck, market
<1>2. TypeOK /\ KnowsMarket(req[r])
  BY DEF SerialInv, IInv
<1>3. CASE OpenFind(r) \/ ProposeInterest(r) \/ WithdrawRecheck(r)
  <2>1. PICK condition \in BOOLEAN, pc \in {"open.create", "propose.list", "withdraw.find"} :
          Require(r, condition, pc)
    <3>1. CASE OpenFind(r)
      BY <3>1 DEF OpenFind
    <3>2. CASE ProposeInterest(r)
      <4> DEFINE has == req[r].org \in interest[req[r].lst]
      <4>1. Require(r, has, "propose.list")
        BY <3>2 DEF ProposeInterest
      <4>2. has \in BOOLEAN
        OBVIOUS
      <4> HIDE DEF has
      <4> QED  BY <4>1, <4>2
    <3>4. CASE WithdrawRecheck(r)
      BY <3>4 DEF WithdrawRecheck
    <3> QED  BY <1>3, <3>1, <3>2, <3>4
  <2>2. /\ \A s \in Request : s # r => req'[s] = req[s]
        /\ req'[r].pc \in {"idle", "open.create", "propose.list", "withdraw.find"}
    BY <1>2, <2>1, RequireStep DEF Idle
  <2> QED  BY <1>1, <2>2, WaitsForNothing
<1> DEFINE Moved(condition, pc) ==
             /\ \A s \in Request : s # r => req'[s] = req[s]
             /\ ~ condition => req'[r].pc = "idle"
             /\ condition => /\ req'[r].pc = pc /\ req'[r].lst = req[r].lst
                             /\ req'[r].org = req[r].org /\ req'[r].share = req[r].share
                             /\ req'[r].ceiling = req[r].ceiling
<1>4. ASSUME NEW condition, NEW pc, Require(r, condition, pc)
      PROVE  Moved(condition, pc)
  BY <1>2, <1>4, RequireStep DEF Idle
<1> HIDE DEF Moved
<1>5. CASE ProposeList(r)
  <2> DEFINE fits == FitsSyndication(alloc[req[r].lst], req[r].org, req[r].share)
  <2>1. Moved(fits, "propose.appetite")
    BY <1>4, <1>5 DEF ProposeList
  <2>2. CASE fits
    BY <1>1, <2>1, <2>2 DEF Moved, KnowsMarket
  <2>3. CASE ~ fits
    BY <1>1, <2>1, <2>3 DEF Moved, KnowsMarket
  <2> QED  BY <2>2, <2>3
<1>6. CASE ProposeAppetite(r)
  <2> DEFINE ok == exposure[req[r].org] = None \/ Indicative(req[r].lst, req[r].share) <= exposure[req[r].org]
  <2>1. Moved(ok, "propose.commitment") /\ req[r].pc = "propose.appetite"
    BY <1>4, <1>6 DEF ProposeAppetite, At
  <2> HIDE DEF ok
  <2>2. CASE ok
    BY <1>1, <1>2, <2>1, <2>2 DEF Moved, KnowsMarket
  <2>3. CASE ~ ok
    BY <1>1, <2>1, <2>3 DEF Moved, KnowsMarket
  <2> QED  BY <2>2, <2>3
<1>7. CASE ProposePosition(r)
  <2> DEFINE ok == Indicative(req[r].lst, req[r].share) <= Available(req[r].org, req[r].ceiling)
  <2>1. Moved(ok, "propose.recheck") /\ req[r].pc = "propose.position"
    BY <1>4, <1>7 DEF ProposePosition, At
  <2>2. CASE ok
    <3>1. Available(req[r].org, req[r].ceiling)' = Available(req'[r].org, req'[r].ceiling)
      BY <1>1 DEF Available, Committed
    <3>2. Available(req'[r].org, req'[r].ceiling) = Available(req[r].org, req[r].ceiling)
      BY <2>1, <2>2 DEF Moved
    <3> QED  BY <1>1, <1>2, <2>1, <2>2, <3>1, <3>2 DEF Moved, KnowsMarket
  <2>3. CASE ~ ok
    BY <1>1, <2>1, <2>3 DEF Moved, KnowsMarket
  <2> QED  BY <2>2, <2>3
<1>8. CASE ProposeRecheck(r)
  <2> DEFINE ok == synd[req[r].lst] = "OPEN"
  <2>1. Moved(ok, "propose.insert") /\ req[r].pc = "propose.recheck"
    BY <1>4, <1>8 DEF ProposeRecheck, At
  <2>2. CASE ok
    <3>1. Available(req[r].org, req[r].ceiling)' = Available(req'[r].org, req'[r].ceiling)
      BY <1>1 DEF Available, Committed
    <3>2. Available(req'[r].org, req'[r].ceiling) = Available(req[r].org, req[r].ceiling)
      BY <2>1, <2>2 DEF Moved
    <3> QED  BY <1>1, <1>2, <2>1, <2>2, <3>1, <3>2 DEF Moved, KnowsMarket
  <2>3. CASE ~ ok
    BY <1>1, <2>1, <2>3 DEF Moved, KnowsMarket
  <2> QED  BY <2>2, <2>3
<1> QED  BY <1>3, <1>5, <1>6, <1>7, <1>8

LEMMA ProposeCommitmentSerial ==
  ASSUME SerialInv, NEW r \in Request, ProposeCommitment(r)
  PROVE  /\ UNCHANGED <<synd, alloc, commitment>>
         /\ \A s \in Request : s # r => req'[s] = req[s]
         /\ KnowsMarket(req[r])'
<1> DEFINE c == commitment[req[r].org]
<1>1. UNCHANGED <<synd, alloc, commitment>> /\ req[r].pc = "propose.commitment"
  BY DEF ProposeCommitment, market, At
<1>2. TypeOK /\ KnowsMarket(req[r]) /\ req[r] \in RequestState
      /\ req \in [Request -> RequestState]
  BY DEF SerialInv, IInv, TypeOK
<1>3. CASE c = None
  <2>1. req' = [req EXCEPT ![r] = Idle]
    BY <1>3 DEF ProposeCommitment, Finish, Become
  <2>2. req'[r].pc = "idle" /\ \A s \in Request : s # r => req'[s] = req[s]
    BY <1>2, <2>1 DEF Idle
  <2> QED  BY <1>1, <2>2, WaitsForNothing
<1>4. CASE c # None
  <2>1. req' = [req EXCEPT ![r] = [req[r] EXCEPT !.pc = "propose.position", !.ceiling = c]]
    BY <1>4 DEF ProposeCommitment, Become
  <2> HIDE DEF c
  <2>2. /\ req'[r].pc = "propose.position" /\ req'[r].lst = req[r].lst
        /\ req'[r].org = req[r].org /\ req'[r].share = req[r].share
        /\ req'[r].ceiling = c
        /\ \A s \in Request : s # r => req'[s] = req[s]
    BY <1>2, <2>1 DEF RequestState
  <2>3. req'[r].ceiling = commitment'[req'[r].org]
    BY <1>1, <2>2 DEF c
  <2> QED  BY <1>1, <1>2, <2>2, <2>3 DEF KnowsMarket
<1> QED  BY <1>3, <1>4

LEMMA BindListSerial ==
  ASSUME SerialInv, NEW r \in Request, BindList(r)
  PROVE  /\ UNCHANGED <<synd, alloc, commitment>>
         /\ \A s \in Request : s # r => req'[s] = req[s]
         /\ KnowsMarket(req[r])'
<1> DEFINE l == req[r].lst
<1>1. UNCHANGED <<synd, alloc, commitment>>
  BY DEF BindList, market
<1>2. req[r] \in RequestState /\ req \in [Request -> RequestState]
  BY DEF SerialInv, IInv, TypeOK
<1>3. CASE TotalShare(alloc[l]) = FullAllocation
  <2>1. PICK f \in FinalAllocations(l, alloc[l]) :
          req' = [req EXCEPT ![r] = [req[r] EXCEPT !.pc = "bind.find", !.final = f]]
    BY <1>3 DEF BindList, Become
  <2>2. /\ req'[r].pc = "bind.find" /\ req'[r].lst = req[r].lst /\ req'[r].final = f
        /\ \A s \in Request : s # r => req'[s] = req[s]
    BY <1>2, <2>1 DEF RequestState
  <2>3. TotalShare(alloc[l])' = TotalShare(alloc'[req'[r].lst])
    BY <1>1, <2>2
  <2> QED  BY <1>1, <1>3, <2>1, <2>2 DEF KnowsMarket
<1>4. CASE TotalShare(alloc[l]) # FullAllocation
  <2>1. req' = [req EXCEPT ![r] = Idle]
    BY <1>4 DEF BindList, Finish, Become
  <2>2. req'[r].pc = "idle" /\ \A s \in Request : s # r => req'[s] = req[s]
    BY <1>2, <2>1 DEF Idle
  <2> QED  BY <1>1, <2>2, WaitsForNothing
<1> QED  BY <1>3, <1>4

LEMMA BindFindSerial ==
  ASSUME SerialInv, NEW r \in Request, BindFind(r)
  PROVE  /\ UNCHANGED <<synd, alloc, commitment>>
         /\ \A s \in Request : s # r => req'[s] = req[s]
         /\ KnowsMarket(req[r])'
<1>1. UNCHANGED <<synd, alloc, commitment>> /\ req[r].pc = "bind.find"
  BY DEF BindFind, market, At
<1>2. req[r] \in RequestState /\ req \in [Request -> RequestState] /\ KnowsMarket(req[r])
  BY DEF SerialInv, IInv, TypeOK
<1>3. PICK ids : req' = [req EXCEPT ![r] = [req[r] EXCEPT !.pc = "bind.commit", !.found = ids]]
  BY DEF BindFind, Become
<1>4. /\ req'[r].pc = "bind.commit" /\ req'[r].lst = req[r].lst /\ req'[r].final = req[r].final
      /\ \A s \in Request : s # r => req'[s] = req[s]
  BY <1>2, <1>3 DEF RequestState
<1> QED  BY <1>1, <1>2, <1>4 DEF KnowsMarket

(* The steps after the last one that relies on a read. *)
LEMMA DoneSerial ==
  ASSUME SerialInv, NEW r \in Request,
         \/ BindMatch(r) \/ InterestUpsert(r) \/ WithdrawList(r) \/ WithdrawFind(r)
         \/ Record(r, "open.audit", "open") \/ Record(r, "propose.audit", "propose")
         \/ Record(r, "withdraw.audit", "withdraw") \/ Record(r, "bind.audit", "bind")
  PROVE  /\ UNCHANGED <<synd, alloc, commitment>>
         /\ \A s \in Request : s # r => req'[s] = req[s]
         /\ KnowsMarket(req[r])'
<1>1. UNCHANGED <<synd, alloc, commitment>>
  BY DEF BindMatch, InterestUpsert, WithdrawList, WithdrawFind, Record, market
<1>2. req[r] \in RequestState /\ req \in [Request -> RequestState]
  BY DEF SerialInv, IInv, TypeOK
<1> DEFINE After == {"idle", "bind.audit", "withdraw.recheck", "withdraw.audit", "withdraw.delete"}
<1>3. ASSUME BindMatch(r) \/ InterestUpsert(r) \/ \E pc, action : Record(r, pc, action)
      PROVE  /\ req'[r].pc \in After
             /\ \A s \in Request : s # r => req'[s] = req[s]
  <2>1. PICK q : req' = [req EXCEPT ![r] = q] /\ q.pc \in {"idle", "bind.audit"}
    <3>1. CASE BindMatch(r)
      <4>1. [req[r] EXCEPT !.pc = "bind.audit"].pc = "bind.audit"
        BY <1>2 DEF RequestState
      <4> QED  BY <3>1, <4>1 DEF BindMatch, Goto, Become
    <3>2. CASE ~ BindMatch(r)
      <4>1. Finish(r)
        BY <1>3, <3>2 DEF InterestUpsert, Record
      <4>2. req' = [req EXCEPT ![r] = Idle] /\ Idle.pc = "idle"
        BY <4>1 DEF Finish, Become, Idle
      <4> QED  BY <4>2
    <3> QED  BY <3>1, <3>2
  <2> QED  BY <1>2, <2>1
<1>5. TypeOK
  BY DEF SerialInv, IInv
<1>4. /\ req'[r].pc \in After
      /\ \A s \in Request : s # r => req'[s] = req[s]
  BY <1>3, <1>5, WithdrawListStep, WithdrawFindStep DEF Idle
<1> QED  BY <1>1, <1>4, WaitsForNothing

LEMMA OpenCreateSerial ==
  ASSUME SerialInv, NEW r \in Request, OpenCreate(r)
  PROVE  /\ Serial'
         /\ \A s \in Request : s # r => req'[s] = req[s]
         /\ KnowsMarket(req[r])'
<1>1. UNCHANGED alloc /\ \A l \in Listing : synd'[l] = "BOUND" => synd[l] = "BOUND"
  BY DEF OpenCreate, SerialInv, IInv, TypeOK
<1>2. Serial'
  BY <1>1 DEF SerialInv, Serial, FinitelyMany, ChecksHold, ProposedWithinFull, BoundRowsExact,
     BoundAmountFollowsShare, HeldBy
<1>3. /\ \A s \in Request : s # r => req'[s] = req[s]
      /\ req'[r].pc \in {"idle", "open.audit"}
  BY RequireStep DEF OpenCreate, SerialInv, IInv, Idle
<1> QED  BY <1>2, <1>3, WaitsForNothing

(* The shares of a listing and the amounts of a provider are naturals. *)
LEMMA RowsAreNat ==
  ASSUME TypeOK
  PROVE  /\ \A l \in Listing : \A p \in Holders(alloc[l]) :
              SharesOf(alloc[l])[p] \in Nat /\ SharesOf(alloc[l])[p] = alloc[l][p].share
         /\ \A p \in Provider : \A l \in HeldBy(p) :
              AmountsOf(p)[l] \in Nat /\ AmountsOf(p)[l] = alloc[l][p].amount
<1>1. \A l \in Listing, p \in Provider : alloc[l][p] # None =>
        alloc[l][p].share \in Nat /\ alloc[l][p].amount \in Nat
  BY ConstantsAssumption DEF TypeOK, Row
<1> QED  BY <1>1 DEF SharesOf, Holders, AmountsOf, HeldBy

(* The row of a proposal, and only it. *)
LEMMA RowWritten ==
  ASSUME TypeOK, NEW l \in Listing, NEW p \in Provider, NEW row,
         alloc' = [alloc EXCEPT ![l][p] = row]
  PROVE  /\ alloc'[l][p] = row
         /\ \A k \in Listing, q \in Provider : k # l \/ q # p => alloc'[k][q] = alloc[k][q]
         /\ \A k \in Listing : k # l => alloc'[k] = alloc[k]
BY DEF TypeOK

LEMMA ProposeInsertSerial ==
  ASSUME SerialInv, NEW r \in Request, ProposeInsert(r)
  PROVE  /\ Serial'
         /\ \A s \in Request : s # r => req'[s] = req[s]
         /\ KnowsMarket(req[r])'
         /\ \A p \in Provider :
              (\E l \in Listing : alloc[l][p] = None /\ alloc'[l][p] # None)
                => Committed(p)' <= Committed(p) \/ Committed(p)' <= commitment[p]
<1>1. TypeOK /\ RequestOK(req[r]) /\ Knows(req[r]) /\ KnowsMarket(req[r]) /\ req[r].pc = "propose.insert"
  BY DEF SerialInv, IInv, TypeOK, HandlersKnow, ProposeInsert, At
<1>0. PICK p \in Provider, l \in Listing, t \in Shares :
        p = req[r].org /\ l = req[r].lst /\ t = req[r].share
  BY <1>1 DEF RequestOK, ProviderSteps, ProposalSteps
<1> DEFINE a == Indicative(l, t)
<1>2. /\ p \in Provider /\ l \in Listing /\ t \in Shares /\ t \in Nat
      /\ commitment[p] \in Nat
  <2>1. commitment[p] # None
    BY <1>0, <1>1 DEF Knows
  <2>2. commitment[p] \in Nat \cup {None}
    BY <1>1 DEF TypeOK
  <2>3. t \in Nat
    BY ConstantsAssumption
  <2> QED  BY <2>1, <2>2, <2>3
<1>3. /\ synd[l] = "OPEN" /\ alloc[l][p] = None
      /\ TotalShare(alloc[l]) + t <= FullAllocation
      /\ a <= Available(p, commitment[p])
  BY <1>0, <1>1 DEF KnowsMarket, FitsSyndication
<1>4. PICK i \in Unused :
        /\ alloc' = [alloc EXCEPT ![l][p] = [id |-> i, share |-> t, amount |-> a]]
        /\ Become(r, [req[r] EXCEPT !.pc = "propose.audit", !.row = i])
  BY <1>0, <1>3 DEF ProposeInsert
<1>5. UNCHANGED synd
  BY <1>0, <1>3 DEF ProposeInsert
<1>6. /\ \A s \in Request : s # r => req'[s] = req[s]
      /\ req'[r].pc = "propose.audit"
  BY <1>1, <1>4 DEF Become, RequestOK, RequestState, TypeOK
<1>7. KnowsMarket(req[r])'
  BY <1>6, WaitsForNothing
<1>8. a \in Nat
  <2>1. t \in 0 .. FullAllocation
    BY <1>2, ConstantsAssumption
  <2> QED  BY <1>2, <2>1, IndicativeNat
<1> DEFINE row == [id |-> i, share |-> t, amount |-> a]
<1>9. row # None /\ row.share = t /\ row.amount = a
  <2> HIDE DEF a
  <2>1. row \in Row
    BY <1>2, <1>8, ConstantsAssumption DEF Row, Unused
  <2> QED  BY <2>1, NoneAssumption
<1> HIDE DEF a, row
<1>10. /\ alloc'[l][p] = row
       /\ \A k \in Listing, q \in Provider : k # l \/ q # p => alloc'[k][q] = alloc[k][q]
       /\ \A k \in Listing : k # l => alloc'[k] = alloc[k]
  <2>1. alloc' = [alloc EXCEPT ![l][p] = row]
    BY <1>4 DEF a, row
  <2> QED  BY <1>1, <1>2, <2>1, RowWritten
<1> DEFINE H == Holders(alloc[l])
           H2 == Holders(alloc'[l])
           sh == SharesOf(alloc[l])
           sh2 == SharesOf(alloc'[l])
<1>11. p \notin H /\ H2 = H \cup {p}
  BY <1>2, <1>3, <1>9, <1>10 DEF Holders
<1>12. /\ \A q \in H : sh[q] \in Int /\ sh2[q] = sh[q]
       /\ sh2[p] = t
  <2>1. \A q \in H : sh[q] \in Nat /\ sh[q] = alloc[l][q].share
    BY <1>1, <1>2, RowsAreNat
  <2>2. \A q \in H : q \in Provider /\ q # p
    BY <1>11 DEF Holders
  <2>3. \A q \in H2 : sh2[q] = alloc'[l][q].share
    BY DEF SharesOf
  <2> HIDE DEF sh, sh2
  <2>4. \A q \in H : sh2[q] = sh[q]
    BY <1>2, <1>10, <1>11, <2>1, <2>2, <2>3
  <2>5. sh2[p] = t
    BY <1>9, <1>10, <1>11, <2>3
  <2> QED  BY <2>1, <2>4, <2>5
<1>13. IsFiniteSet(H)
  BY <1>2 DEF SerialInv, Serial, FinitelyMany
<1>14. IsFiniteSet(H2) /\ TotalShare(alloc'[l]) = TotalShare(alloc[l]) + t
  <2>1. /\ TotalShare(alloc'[l]) = SumOver(sh2, H2)
        /\ TotalShare(alloc[l]) = SumOver(sh, H)
    BY TotalShareValue
  <2>2. IsFiniteSet(H \cup {p}) /\ SumOver(sh2, H \cup {p}) = SumOver(sh, H) + sh2[p]
    <3> HIDE DEF H, H2, sh, sh2
    <3>1. sh2[p] \in Int
      BY <1>2, <1>12
    <3> QED  BY <1>11, <1>12, <1>13, <3>1, SumInsert
  <2> HIDE DEF H, H2, sh, sh2
  <2> QED  BY <1>11, <1>12, <2>1, <2>2
<1> HIDE DEF H, H2, sh, sh2
<1> DEFINE L == HeldBy(p)
           L2 == HeldBy(p)'
           am == AmountsOf(p)
           am2 == AmountsOf(p)'
<1>15. l \notin L /\ L2 = L \cup {l}
  BY <1>2, <1>3, <1>9, <1>10 DEF HeldBy
<1>16. /\ \A k \in L : am[k] \in Nat /\ am2[k] = am[k]
       /\ am2[l] = a
  <2>1. \A k \in L : am[k] \in Nat /\ am[k] = alloc[k][p].amount
    BY <1>1, <1>2, RowsAreNat
  <2>2. \A k \in L : k \in Listing /\ k # l
    BY <1>15 DEF HeldBy
  <2>3. \A k \in L2 : am2[k] = alloc'[k][p].amount
    BY DEF AmountsOf
  <2> HIDE DEF am, am2, L, L2
  <2>4. \A k \in L : am2[k] = am[k]
    BY <1>2, <1>10, <1>15, <2>1, <2>2, <2>3
  <2>5. am2[l] = a
    BY <1>9, <1>10, <1>15, <2>3
  <2> QED  BY <2>1, <2>4, <2>5
<1>17. IsFiniteSet(L)
  BY <1>2 DEF SerialInv, Serial, FinitelyMany
<1>18. IsFiniteSet(L2) /\ Committed(p)' = Committed(p) + a /\ Committed(p) \in Nat
  <2>1. Committed(p)' = SumOver(am2, L2) /\ Committed(p) = SumOver(am, L)
    BY CommittedValue
  <2> HIDE DEF L, L2, am, am2
  <2>2. IsFiniteSet(L \cup {l}) /\ SumOver(am2, L \cup {l}) = SumOver(am, L) + am2[l]
    <3>1. am2[l] \in Int /\ \A k \in L : am[k] \in Int /\ am2[k] = am[k]
      BY <1>8, <1>16
    <3> QED  BY <1>15, <1>17, <3>1, SumInsert
  <2>3. SumOver(am, L) \in Nat
    BY <1>16, <1>17, SumNat
  <2> QED  BY <1>15, <1>16, <2>1, <2>2, <2>3
<1>19. Committed(p)' <= Committed(p) \/ Committed(p)' <= commitment[p]
  <2> DEFINE used == Committed(p)
             used2 == Committed(p)'
             ceiling == commitment[p]
  <2>1. used \in Nat /\ used2 = used + a /\ ceiling \in Nat /\ a \in Nat
    BY <1>2, <1>8, <1>18
  <2>2. a <= IF used >= ceiling THEN 0 ELSE ceiling - used
    BY <1>3 DEF Available
  <2> HIDE DEF used, used2, ceiling
  <2>3. used2 <= used \/ used2 <= ceiling
    BY <2>1, <2>2
  <2> QED  BY <2>3 DEF used, used2, ceiling
<1>20. ASSUME NEW q \in Provider, NEW k \in Listing, alloc[k][q] = None, alloc'[k][q] # None
       PROVE  q = p
  BY <1>10, <1>20
<1>21. FinitelyMany'
  <2>1. \A k \in Listing : IsFiniteSet(Holders(alloc'[k]))
    <3>1. \A k \in Listing : k # l => Holders(alloc'[k]) = Holders(alloc[k])
      BY <1>10
    <3> QED  BY <1>2, <1>14, <3>1 DEF H2, SerialInv, Serial, FinitelyMany
  <2>2. \A q \in Provider : IsFiniteSet(HeldBy(q)')
    <3>1. \A q \in Provider : q # p => HeldBy(q)' = HeldBy(q)
      BY <1>2, <1>10 DEF HeldBy
    <3> QED  BY <1>2, <1>18, <3>1 DEF L2, SerialInv, Serial, FinitelyMany
  <2> QED  BY <2>1, <2>2 DEF FinitelyMany
<1>22. ChecksHold'
  <2>1. \A k \in Listing : k # l => alloc'[k] = alloc[k] /\ synd'[k] = synd[k]
    BY <1>5, <1>10
  <2>2. synd'[l] # "BOUND"
    BY <1>3, <1>5
  <2>3. ProposedWithinFull'
    <3>1. \A k \in Listing : TotalShare(alloc'[k]) <= FullAllocation
      BY <1>3, <1>14, <2>1 DEF SerialInv, Serial, ChecksHold, ProposedWithinFull
    <3> QED  BY <3>1 DEF ProposedWithinFull
  <2>4. BoundRowsExact'
    BY <2>1, <2>2 DEF SerialInv, Serial, ChecksHold, BoundRowsExact
  <2>5. BoundAmountFollowsShare'
    BY <2>1, <2>2 DEF SerialInv, Serial, ChecksHold, BoundAmountFollowsShare
  <2> QED  BY <2>3, <2>4, <2>5 DEF ChecksHold
<1> QED  BY <1>6, <1>7, <1>19, <1>20, <1>21, <1>22 DEF Serial

(* A listing that loses a row, and is not bound, keeps within its shares.  *)
LEMMA WithdrawDeleteSerial ==
  ASSUME SerialInv, NEW r \in Request, WithdrawDelete(r)
  PROVE  /\ Serial'
         /\ \A s \in Request : s # r => req'[s] = req[s]
         /\ KnowsMarket(req[r])'
         /\ \A p \in Provider, l \in Listing : alloc'[l][p] # None => alloc[l][p] # None
<1>1. TypeOK /\ RequestOK(req[r]) /\ req[r].pc = "withdraw.delete"
  BY DEF SerialInv, IInv, TypeOK, WithdrawDelete, At
<1>0. PICK p \in Provider, l \in Listing : p = req[r].org /\ l = req[r].lst
  BY <1>1 DEF RequestOK, ProviderSteps
<1> DEFINE ok == Deletable(l, p, req[r].row)
<1>2. Require(r, ok, "withdraw.audit") /\ UNCHANGED synd
  BY <1>0 DEF WithdrawDelete
<1>3. /\ \A s \in Request : s # r => req'[s] = req[s]
      /\ req'[r].pc \in {"idle", "withdraw.audit"}
  <2> HIDE DEF ok
  <2> QED  BY <1>1, <1>2, RequireStep DEF Idle
<1>4. KnowsMarket(req[r])'
  BY <1>3, WaitsForNothing
<1>5. CASE ~ ok
  <2>1. UNCHANGED alloc
    BY <1>0, <1>5 DEF WithdrawDelete
  <2> QED  BY <1>2, <1>3, <1>4, <2>1, SerialUnchanged DEF SerialInv
<1>6. CASE ok
  <2>1. alloc' = [alloc EXCEPT ![l][p] = None] /\ synd[l] # "BOUND"
    BY <1>0, <1>6 DEF WithdrawDelete, Deletable
  <2>2. /\ alloc'[l][p] = None
        /\ \A k \in Listing, q \in Provider : k # l \/ q # p => alloc'[k][q] = alloc[k][q]
        /\ \A k \in Listing : k # l => alloc'[k] = alloc[k]
    BY <1>1, <2>1, RowWritten
  <2> DEFINE H == Holders(alloc[l])
             H2 == Holders(alloc'[l])
             sh == SharesOf(alloc[l])
             sh2 == SharesOf(alloc'[l])
  <2>3. H2 \in SUBSET H
    BY <2>2 DEF Holders
  <2>4. \A q \in H : sh[q] \in Nat /\ sh[q] = alloc[l][q].share
    BY <1>1, RowsAreNat
  <2>5. \A q \in H2 : sh2[q] \in Nat /\ sh2[q] <= sh[q]
    <3>1. \A q \in H2 : sh2[q] = alloc'[l][q].share /\ q \in Provider /\ q # p
      BY <2>2 DEF SharesOf, Holders
    <3>2. \A q \in H2 : sh2[q] = sh[q] /\ sh[q] \in Nat
      BY <2>2, <2>3, <2>4, <3>1
    <3> HIDE DEF H2, sh, sh2
    <3> QED  BY <3>2
  <2>6. IsFiniteSet(H)
    BY DEF SerialInv, Serial, FinitelyMany
  <2>7. IsFiniteSet(H2) /\ TotalShare(alloc'[l]) <= TotalShare(alloc[l])
    <3>1. /\ TotalShare(alloc'[l]) = SumOver(sh2, H2)
          /\ TotalShare(alloc[l]) = SumOver(sh, H)
      BY TotalShareValue
    <3> HIDE DEF H, H2, sh, sh2
    <3>2. SumOver(sh2, H2) <= SumOver(sh, H)
      BY <2>3, <2>4, <2>5, <2>6, SumMonotone
    <3> QED  BY <2>3, <2>6, <3>1, <3>2, FS_Subset
  <2>8. TotalShare(alloc[l]) \in Nat /\ TotalShare(alloc'[l]) \in Nat
    <3>1. /\ TotalShare(alloc'[l]) = SumOver(sh2, H2)
          /\ TotalShare(alloc[l]) = SumOver(sh, H)
      BY TotalShareValue
    <3> HIDE DEF H, H2, sh, sh2
    <3>2. SumOver(sh, H) \in Nat
      BY <2>4, <2>6, SumNat
    <3>3. SumOver(sh2, H2) \in Nat
      BY <2>5, <2>7, SumNat
    <3> QED  BY <3>1, <3>2, <3>3
  <2> HIDE DEF H, sh, sh2
  <2>9. FinitelyMany'
    <3>1. \A k \in Listing : IsFiniteSet(Holders(alloc'[k]))
      <4>1. \A k \in Listing : k # l => Holders(alloc'[k]) = Holders(alloc[k])
        BY <2>2
      <4> QED  BY <2>7, <4>1 DEF SerialInv, Serial, FinitelyMany
    <3>2. \A q \in Provider : HeldBy(q)' \in SUBSET HeldBy(q)
      BY <2>2 DEF HeldBy
    <3>3. \A q \in Provider : IsFiniteSet(HeldBy(q)')
      BY <3>2, FS_Subset DEF SerialInv, Serial, FinitelyMany
    <3> QED  BY <3>1, <3>3 DEF FinitelyMany
  <2>10. ChecksHold'
    <3>1. \A k \in Listing : k # l => alloc'[k] = alloc[k] /\ synd'[k] = synd[k]
      BY <1>2, <2>2
    <3>2. synd'[l] # "BOUND"
      BY <1>2, <2>1
    <3>3. ProposedWithinFull'
      <4>1. \A k \in Listing : TotalShare(alloc[k]) <= FullAllocation
        BY DEF SerialInv, Serial, ChecksHold, ProposedWithinFull
      <4>2. TotalShare(alloc'[l]) <= FullAllocation
        BY <2>7, <2>8, <4>1, ConstantsAssumption
      <4>3. \A k \in Listing : TotalShare(alloc'[k]) <= FullAllocation
        BY <3>1, <4>1, <4>2
      <4> QED  BY <4>3 DEF ProposedWithinFull
    <3>4. BoundRowsExact'
      BY <3>1, <3>2 DEF SerialInv, Serial, ChecksHold, BoundRowsExact
    <3>5. BoundAmountFollowsShare'
      BY <3>1, <3>2 DEF SerialInv, Serial, ChecksHold, BoundAmountFollowsShare
    <3> QED  BY <3>3, <3>4, <3>5 DEF ChecksHold
  <2>11. \A q \in Provider, k \in Listing : alloc'[k][q] # None => alloc[k][q] # None
    BY <2>2
  <2> QED  BY <1>3, <1>4, <2>9, <2>10, <2>11 DEF Serial
<1> QED  BY <1>5, <1>6

(* What bindAllocations returns for rows that hold everything: the same    *)
(* providers at the same shares, each amount its share's, but for a unit.  *)
LEMMA FinalFollowsShares ==
  ASSUME NEW l \in Listing, NEW rows \in [Provider -> Row \cup {None}],
         IsFiniteSet(Holders(rows)), TotalShare(rows) = FullAllocation,
         NEW final \in FinalAllocations(l, rows)
  PROVE  \A p \in Holders(rows) :
           LET exact == Capacity[l] * rows[p].share
               stored == FullAllocation * final[p].amount
           IN  stored - exact < FullAllocation /\ exact - stored < FullAllocation
<1> DEFINE W == Holders(rows)
           weights == SharesOf(rows)
           total == Capacity[l]
<1>1. PICK parts \in AllocateMoney(total, weights) :
        final = [p \in Provider |-> IF p \in W
                   THEN [share |-> rows[p].share, amount |-> parts[p]] ELSE None]
  BY DEF FinalAllocations, SharesOf
<1>2. weights \in [W -> Nat] /\ \A p \in W : weights[p] = rows[p].share
  <2>1. \A p \in W : rows[p].share \in Nat
    BY ConstantsAssumption DEF Holders, Row
  <2> QED  BY <2>1 DEF SharesOf
<1>3. SumOver(weights, W) = FullAllocation /\ total \in Nat /\ FullAllocation > 0
  BY TotalShareValue, ConstantsAssumption
<1>4. \A p \in W : final[p].amount = parts[p]
  BY <1>1 DEF Holders
<1> HIDE DEF W, weights, total
<1>5. \A p \in W :
        /\ FullAllocation * parts[p] - total * weights[p] < FullAllocation
        /\ total * weights[p] - FullAllocation * parts[p] < FullAllocation
  <2>1. IsFiniteSet(W)
    BY DEF W
  <2>2. /\ SumOver(weights, W) > 0
        /\ \A p \in W :
             /\ SumOver(weights, W) * parts[p] - total * weights[p] < SumOver(weights, W)
             /\ total * weights[p] - SumOver(weights, W) * parts[p] < SumOver(weights, W)
    BY <1>1, <1>2, <1>3, <2>1, SplitWithinUnit
  <2> QED  BY <1>3, <2>2
<1> QED  BY <1>2, <1>4, <1>5 DEF W, total

LEMMA BindCommitSerial ==
  ASSUME SerialInv, NEW r \in Request, BindCommit(r)
  PROVE  /\ Serial'
         /\ \A s \in Request : s # r => req'[s] = req[s]
         /\ KnowsMarket(req[r])'
         /\ \A p \in Provider, l \in Listing : alloc'[l][p] # None => alloc[l][p] # None
<1>1. TypeOK /\ RequestOK(req[r]) /\ Knows(req[r]) /\ KnowsMarket(req[r]) /\ req[r].pc = "bind.commit"
  BY DEF SerialInv, IInv, TypeOK, HandlersKnow, BindCommit, At
<1>0. PICK l \in Listing, final \in [Provider -> Terms \cup {None}] :
        l = req[r].lst /\ final = req[r].final
  BY <1>1 DEF RequestOK, RequestState
<1> DEFINE ok == Updatable(l, final, req[r].found)
           H == Holders(alloc[l])
<1>2. Require(r, ok, "bind.match")
  BY <1>0 DEF BindCommit
<1>3. /\ \A s \in Request : s # r => req'[s] = req[s]
      /\ req'[r].pc \in {"idle", "bind.match"}
  <2> HIDE DEF ok
  <2> QED  BY <1>1, <1>2, RequireStep DEF Idle
<1>4. KnowsMarket(req[r])'
  BY <1>3, WaitsForNothing
<1>5. CASE ~ ok
  <2>1. UNCHANGED <<alloc, synd>>
    BY <1>0, <1>5 DEF BindCommit
  <2> QED  BY <1>3, <1>4, <2>1, SerialUnchanged DEF SerialInv
<1>6. CASE ok
  <2>1. /\ TotalShare(alloc[l]) = FullAllocation
        /\ final \in FinalAllocations(l, alloc[l])
        /\ alloc[l] \in [Provider -> Row \cup {None}]
        /\ IsFiniteSet(H)
    BY <1>0, <1>1 DEF KnowsMarket, TypeOK, SerialInv, Serial, FinitelyMany
  <2>2. TotalAmount(final) = Capacity[l] /\ Holders(final) = H
    BY <2>1, FinalAllocationsExact
  <2>3. /\ \A p \in H : /\ p \in Provider /\ final[p] # None /\ final[p] \in Terms
                        /\ alloc[l][p] # None /\ alloc[l][p] \in Row
        /\ \A p \in Provider \ H : final[p] = None /\ alloc[l][p] = None
    BY <2>1, <2>2 DEF Holders
  <2> DEFINE rows == [p \in Provider |-> IF final[p] = None THEN alloc[l][p]
                        ELSE [alloc[l][p] EXCEPT !.amount = final[p].amount]]
  <2>4. alloc' = [alloc EXCEPT ![l] = rows] /\ synd' = [synd EXCEPT ![l] = "BOUND"]
    BY <1>0, <1>1, <1>6 DEF BindCommit, TypeOK
  <2>5. /\ \A p \in H : rows[p] # None /\ rows[p].share = alloc[l][p].share
                        /\ rows[p].amount = final[p].amount
        /\ \A p \in Provider \ H : rows[p] = None
    <3>1. ASSUME NEW p \in H
          PROVE  rows[p] # None /\ rows[p].share = alloc[l][p].share
                 /\ rows[p].amount = final[p].amount
      <4>1. rows[p] = [alloc[l][p] EXCEPT !.amount = final[p].amount]
        BY <2>3, <3>1
      <4>2. final[p].amount \in Nat
        BY <2>3, <3>1 DEF Terms
      <4>3. /\ [alloc[l][p] EXCEPT !.amount = final[p].amount] \in Row
            /\ [alloc[l][p] EXCEPT !.amount = final[p].amount].share = alloc[l][p].share
            /\ [alloc[l][p] EXCEPT !.amount = final[p].amount].amount = final[p].amount
        BY <2>3, <3>1, <4>2 DEF Row
      <4> HIDE DEF rows
      <4> QED  BY <4>1, <4>3, NoneAssumption
    <3>2. \A p \in Provider \ H : rows[p] = None
      BY <2>3
    <3> QED  BY <3>1, <3>2
  <2> HIDE DEF rows, H
  <2>6. /\ alloc'[l] = rows /\ \A k \in Listing : k # l => alloc'[k] = alloc[k]
        /\ synd'[l] = "BOUND" /\ \A k \in Listing : k # l => synd'[k] = synd[k]
    BY <1>1, <2>4 DEF TypeOK
  <2>7. Holders(rows) = H
    <3>1. \A p \in Provider : rows[p] # None <=> p \in H
      BY <2>5
    <3>2. H \subseteq Provider
      BY <2>3
    <3> QED  BY <3>1, <3>2 DEF Holders
  <2>8. TotalShare(rows) = FullAllocation
    <3>1. \A p \in H : SharesOf(rows)[p] = SharesOf(alloc[l])[p]
      BY <2>5, <2>7 DEF SharesOf, H
    <3>2. SumOver(SharesOf(rows), H) = SumOver(SharesOf(alloc[l]), H)
      BY <2>1, <3>1, SumCong
    <3> QED  BY <2>1, <2>7, <3>2, TotalShareValue DEF H
  <2>9. TotalAmount(rows) = Capacity[l]
    <3>1. \A p \in H : Amounts(rows)[p] = Amounts(final)[p]
      BY <2>2, <2>5, <2>7 DEF Amounts
    <3>2. SumOver(Amounts(rows), H) = SumOver(Amounts(final), H)
      BY <2>1, <3>1, SumCong
    <3> QED  BY <2>2, <2>7, <3>2 DEF TotalAmount
  <2>10. \A p \in H :
           LET exact == Capacity[l] * alloc[l][p].share
               stored == FullAllocation * final[p].amount
           IN  stored - exact < FullAllocation /\ exact - stored < FullAllocation
    BY <2>1, FinalFollowsShares DEF H
  <2>11. FinitelyMany'
    <3>1. \A k \in Listing : Holders(alloc'[k]) = Holders(alloc[k])
      BY <2>6, <2>7 DEF H
    <3>2. \A k \in Listing, q \in Provider : alloc'[k][q] # None <=> alloc[k][q] # None
      BY <3>1 DEF Holders
    <3>3. \A q \in Provider : HeldBy(q)' = HeldBy(q)
      BY <3>2 DEF HeldBy
    <3> QED  BY <3>1, <3>3 DEF SerialInv, Serial, FinitelyMany
  <2>12. ProposedWithinFull'
    <3>1. \A k \in Listing : TotalShare(alloc'[k]) <= FullAllocation
      BY <2>6, <2>8, ConstantsAssumption DEF SerialInv, Serial, ChecksHold, ProposedWithinFull
    <3> QED  BY <3>1 DEF ProposedWithinFull
  <2>13. BoundRowsExact'
    <3>1. \A k \in Listing : synd'[k] = "BOUND" =>
            TotalShare(alloc'[k]) = FullAllocation /\ TotalAmount(alloc'[k]) = Capacity[k]
      BY <2>6, <2>8, <2>9 DEF SerialInv, Serial, ChecksHold, BoundRowsExact
    <3> QED  BY <3>1 DEF BoundRowsExact
  <2>14. BoundAmountFollowsShare'
    <3> DEFINE Near(k, held) ==
          \A p \in Holders(held) :
            LET exact == Capacity[k] * held[p].share
                stored == FullAllocation * held[p].amount
            IN  stored - exact < FullAllocation /\ exact - stored < FullAllocation
    <3>1. Near(l, rows)
      BY <2>5, <2>7, <2>10
    <3>2. \A k \in Listing : synd[k] = "BOUND" => Near(k, alloc[k])
      BY DEF SerialInv, Serial, ChecksHold, BoundAmountFollowsShare
    <3>3. \A k \in Listing : synd'[k] = "BOUND" => Near(k, alloc'[k])
      <4> HIDE DEF Near
      <4> QED  BY <2>6, <3>1, <3>2
    <3> QED  BY <3>3 DEF BoundAmountFollowsShare
  <2>15. \A q \in Provider, k \in Listing : alloc'[k][q] # None => alloc[k][q] # None
    <3>1. \A q \in Provider : alloc'[l][q] # None => alloc[l][q] # None
      BY <2>3, <2>5, <2>6
    <3> QED  BY <2>6, <3>1
  <2> QED  BY <1>3, <1>4, <2>11, <2>12, <2>13, <2>14, <2>15 DEF Serial, ChecksHold
<1> QED  BY <1>5, <1>6

-----------------------------------------------------------------------------
LEMMA StepSerial ==
  ASSUME SerialInv, NEW r \in Request, Arrive(r) \/ Step(r),
         \A s \in Request \ {r} : req[s].pc = "idle"
  PROVE  /\ Serial' /\ \A s \in Request : KnowsMarket(req[s])'
         /\ \A p \in Provider :
              (\E l \in Listing : alloc[l][p] = None /\ alloc'[l][p] # None)
                => Committed(p)' <= Committed(p) \/ Committed(p)' <= commitment[p]
<1> DEFINE Own == \A s \in Request : s # r => req'[s] = req[s]
           Kept == /\ UNCHANGED <<synd, alloc, commitment>> /\ Own
                   /\ KnowsMarket(req[r])'
           Held == /\ Serial' /\ Own /\ KnowsMarket(req[r])'
                   /\ \A p \in Provider :
                        (\E l \in Listing : alloc[l][p] = None /\ alloc'[l][p] # None)
                          => Committed(p)' <= Committed(p) \/ Committed(p)' <= commitment[p]
<1>1. Kept => Held
  BY SerialUnchanged DEF SerialInv
<1>2. OpenCreate(r) => Held
  BY OpenCreateSerial DEF OpenCreate
<1>3. WithdrawDelete(r) => Held
  BY WithdrawDeleteSerial
<1>4. BindCommit(r) => Held
  BY BindCommitSerial
<1>5. ProposeInsert(r) => Held
  BY ProposeInsertSerial
<1>6. Arrive(r) => Kept
  BY ArriveSerial
<1>7. ProposeCommitment(r) \/ BindList(r) \/ BindFind(r) => Kept
  BY ProposeCommitmentSerial, BindListSerial, BindFindSerial
<1>8. OpenFind(r) \/ ProposeInterest(r) \/ ProposeList(r) \/ ProposeAppetite(r)
      \/ ProposePosition(r) \/ ProposeRecheck(r) \/ WithdrawRecheck(r) => Kept
  BY CheckSerial
<1>9. BindMatch(r) \/ InterestUpsert(r) \/ WithdrawList(r) \/ WithdrawFind(r)
      \/ Record(r, "open.audit", "open") \/ Record(r, "propose.audit", "propose")
      \/ Record(r, "withdraw.audit", "withdraw") \/ Record(r, "bind.audit", "bind") => Kept
  BY DoneSerial
<1>10. Held
  <2> HIDE DEF Held, Kept
  <2> QED  BY <1>1, <1>2, <1>3, <1>4, <1>5, <1>6, <1>7, <1>8, <1>9 DEF Step
<1>11. TypeOK
  BY DEF SerialInv, IInv
<1> QED  BY <1>10, <1>11, OthersWait

LEMMA InitSerial == Init => SerialInv
<1> SUFFICES ASSUME Init PROVE SerialInv
  OBVIOUS
<1>1. \A l \in Listing : Holders(alloc[l]) = {} /\ synd[l] = "NONE"
  BY DEF Init, NoRows, Holders
<1>2. \A p \in Provider : HeldBy(p) = {}
  BY DEF Init, NoRows, HeldBy
<1>3. FinitelyMany
  BY <1>1, <1>2, FS_EmptySet DEF FinitelyMany
<1>4. \A l \in Listing : TotalShare(alloc[l]) = 0
  BY <1>1, TotalShareValue, SumEmpty
<1>5. ChecksHold
  BY <1>1, <1>4, ConstantsAssumption DEF ChecksHold, ProposedWithinFull, BoundRowsExact,
     BoundAmountFollowsShare
<1>6. \A r \in Request : KnowsMarket(req[r])
  BY DEF Init, Idle, KnowsMarket
<1> QED  BY <1>3, <1>5, <1>6, InitInv DEF SerialInv, Serial

(* What the property about the ceiling says of a step. *)
WithinCeiling ==
  \A p \in Provider :
    (\E l \in Listing : alloc[l][p] = None /\ alloc'[l][p] # None)
      => Committed(p)' <= Committed(p) \/ Committed(p)' <= commitment[p]

LEMMA NextSerial ==
  ASSUME SerialInv, [MemNext]_memVars
  PROVE  SerialInv' /\ WithinCeiling
<1>1. IInv'
  BY SerialKeepsIInv DEF SerialInv
<1>2. CASE UNCHANGED memVars
  <2>1. UNCHANGED <<synd, alloc, commitment, req>>
    BY <1>2 DEF memVars, vars
  <2>2. \A r \in Request : KnowsMarket(req[r])'
    <3>1. \A p, c : Available(p, c)' = Available(p, c)
      BY <2>1 DEF Available, Committed
    <3> QED  BY <2>1, <3>1 DEF SerialInv, KnowsMarket
  <2> QED  BY <1>1, <2>1, <2>2, SerialUnchanged DEF SerialInv, WithinCeiling
<1>3. CASE Write /\ \A r \in Request : req[r].pc = "idle"
  <2>1. UNCHANGED alloc
    BY <1>3 DEF Write, WithdrawListing, WithdrawInterest, SetAppetite, SetCommitment
  <2> QED  BY <1>1, <1>3, <2>1, WriteSerial DEF SerialInv, WithinCeiling
<1>4. CASE \E r \in Request : /\ Arrive(r) \/ Step(r)
                              /\ \A s \in Request \ {r} : req[s].pc = "idle"
  BY <1>1, <1>4, StepSerial DEF SerialInv, WithinCeiling
<1> QED  BY <1>2, <1>3, <1>4, SerialNext

LEMMA SerialInvariance == MemSpec => []SerialInv
BY InitSerial, NextSerial, PTL DEF MemSpec

(* Without concurrent requests the checks of propose and bind do what they *)
(* are for, for every number of listings and providers: shares stay within *)
(* 100%, and a bound syndication is fully allocated, to the whole capacity *)
(* and to each provider its own share of it but for a minor unit.          *)
THEOREM SerialChecksHold == MemSpec => []ChecksHold
<1>1. SerialInv => ChecksHold
  BY DEF SerialInv, Serial
<1> QED  BY SerialInvariance, <1>1, PTL

(* Without concurrent requests no allocation takes a provider above the    *)
(* capital it has committed, across all its syndications.                  *)
THEOREM SerialCeilingHeld == MemSpec => CeilingHeld
<1>1. SerialInv /\ [MemNext]_memVars => [WithinCeiling]_vars
  BY NextSerial
<1> QED  BY SerialInvariance, <1>1, PTL DEF MemSpec, CeilingHeld, WithinCeiling

-----------------------------------------------------------------------------
(* What Among returns. *)

(* One place more of s. *)
Add(s, S, t, k) == IF s[k] \in S THEN Append(t, s[k]) ELSE t

(* f is what Among builds, on the first n places of s. *)
IsAmong(s, S, f, n) == f = [k \in 0 .. n |-> IF k = 0 THEN <<>> ELSE Add(s, S, f[k - 1], k)]

LEMMA AmongUpTo ==
  ASSUME NEW s, NEW S
  PROVE  \A n \in Nat : \E f : IsAmong(s, S, f, n)
<1> DEFINE N == {n \in Nat : \E f : IsAmong(s, S, f, n)}
<1>1. 0 \in N
  <2> DEFINE f == [k \in 0 .. 0 |-> <<>>]
  <2>1. f = [k \in 0 .. 0 |-> IF k = 0 THEN <<>> ELSE Add(s, S, f[k - 1], k)]
    OBVIOUS
  <2> HIDE DEF f
  <2>2. IsAmong(s, S, f, 0)
    BY <2>1 DEF IsAmong
  <2> QED  BY <2>2
<1>2. ASSUME NEW n \in Nat, n \in N PROVE n + 1 \in N
  <2>1. PICK f : IsAmong(s, S, f, n)
    BY <1>2
  <2> DEFINE h == [k \in 0 .. n + 1 |-> IF k = n + 1 THEN Add(s, S, f[n], n + 1) ELSE f[k]]
  <2>2. \A k \in 0 .. n : f[k] = IF k = 0 THEN <<>> ELSE Add(s, S, f[k - 1], k)
    BY <2>1, Zenon DEF IsAmong
  <2>3. \A k \in 0 .. n : h[k] = f[k]
    OBVIOUS
  <2>4. h[n + 1] = Add(s, S, h[n], n + 1)
    OBVIOUS
  <2>5. ASSUME NEW k \in 0 .. n + 1
        PROVE  h[k] = IF k = 0 THEN <<>> ELSE Add(s, S, h[k - 1], k)
    <3>1. CASE k = n + 1
      <4>1. k - 1 = n /\ k # 0
        BY <3>1
      <4> HIDE DEF h
      <4> QED  BY <2>4, <3>1, <4>1
    <3>2. CASE k # n + 1
      <4>1. k \in 0 .. n
        BY <3>2
      <4>2. k # 0 => k - 1 \in 0 .. n
        BY <4>1
      <4> HIDE DEF h
      <4>3. h[k] = f[k]
        BY <2>3, <4>1
      <4>4. k # 0 => h[k - 1] = f[k - 1]
        BY <2>3, <4>2
      <4> QED  BY <2>2, <4>1, <4>3, <4>4
    <3> QED  BY <3>1, <3>2
  <2>6. IsAmong(s, S, h, n + 1)
    <3>1. h = [k \in 0 .. n + 1 |-> h[k]]
      OBVIOUS
    <3> HIDE DEF h
    <3> QED  BY <2>5, <3>1, Zenon DEF IsAmong
  <2> QED  BY <2>6
<1>3. Nat \subseteq N
  <2> HIDE DEF N
  <2> QED  BY <1>1, <1>2, NatsByInduction
<1> QED  BY <1>3

(* The places of s that t takes, in the first k: h leads from t to them.   *)
Takes(s, S, t, h, k) ==
  \E m \in Nat :
    /\ h \in [1 .. m -> 1 .. k]
    /\ t = [i \in 1 .. m |-> s[h[i]]]
    /\ \A i, j \in 1 .. m : h[i] = h[j] => i = j
    /\ \A j \in 1 .. k : s[j] \in S <=> \E i \in 1 .. m : h[i] = j

LEMMA AddTakes ==
  ASSUME NEW s, NEW S, NEW k \in Nat, NEW t, NEW h, Takes(s, S, t, h, k)
  PROVE  \E g : Takes(s, S, Add(s, S, t, k + 1), g, k + 1)
<1>1. PICK m \in Nat : /\ h \in [1 .. m -> 1 .. k]
                       /\ t = [i \in 1 .. m |-> s[h[i]]]
                       /\ \A i, j \in 1 .. m : h[i] = h[j] => i = j
                       /\ \A j \in 1 .. k : s[j] \in S <=> \E i \in 1 .. m : h[i] = j
  BY DEF Takes
<1>2. \A j \in 1 .. k + 1 : j \in 1 .. k \/ j = k + 1
  OBVIOUS
<1>3. \A i \in 1 .. m : h[i] \in 1 .. k /\ h[i] \in 1 .. k + 1 /\ h[i] # k + 1
  BY <1>1
<1>4. CASE s[k + 1] \notin S
  <2>1. Add(s, S, t, k + 1) = t
    BY <1>4 DEF Add
  <2>2. h \in [1 .. m -> 1 .. k + 1]
    BY <1>1, <1>3
  <2>3. \A j \in 1 .. k + 1 : s[j] \in S <=> \E i \in 1 .. m : h[i] = j
    BY <1>1, <1>2, <1>3, <1>4
  <2> QED  BY <1>1, <2>1, <2>2, <2>3 DEF Takes
<1>5. CASE s[k + 1] \in S
  <2> DEFINE g == [i \in 1 .. m + 1 |-> IF i = m + 1 THEN k + 1 ELSE h[i]]
             u == [i \in 1 .. m + 1 |-> s[g[i]]]
  <2>1. g[m + 1] = k + 1 /\ \A i \in 1 .. m : g[i] = h[i]
    OBVIOUS
  <2>2. \A i \in 1 .. m + 1 : i \in 1 .. m \/ i = m + 1
    OBVIOUS
  <2>3. g \in [1 .. m + 1 -> 1 .. k + 1]
    BY <1>3
  <2>4. u[m + 1] = s[k + 1] /\ \A i \in 1 .. m : u[i] = s[h[i]]
    BY <2>1
  <2>5. Add(s, S, t, k + 1) = u
    <3>1. t \in Seq({s[j] : j \in 1 .. k}) /\ Len(t) = m
      BY <1>1, <1>3
    <3>2. /\ Add(s, S, t, k + 1) = Append(t, s[k + 1])
          /\ Append(t, s[k + 1]) = [i \in 1 .. m + 1 |-> IF i = m + 1 THEN s[k + 1] ELSE t[i]]
      BY <1>5, <3>1 DEF Add
    <3>3. \A i \in 1 .. m + 1 : u[i] = IF i = m + 1 THEN s[k + 1] ELSE t[i]
      BY <1>1, <2>2, <2>4
    <3> QED  BY <3>2, <3>3
  <2>6. \A i, j \in 1 .. m + 1 : g[i] = g[j] => i = j
    <3> HIDE DEF g
    <3> QED  BY <1>1, <1>3, <2>1, <2>2
  <2>7. ASSUME NEW j \in 1 .. k + 1
        PROVE  s[j] \in S <=> \E i \in 1 .. m + 1 : g[i] = j
    <3> HIDE DEF g
    <3>1. m + 1 \in 1 .. m + 1 /\ \A i \in 1 .. m : i \in 1 .. m + 1
      OBVIOUS
    <3>2. CASE j = k + 1
      BY <1>5, <2>1, <3>1, <3>2
    <3>3. CASE j \in 1 .. k
      <4>1. j # k + 1
        BY <3>3
      <4> QED  BY <1>1, <2>1, <2>2, <3>1, <3>3, <4>1
    <3> QED  BY <1>2, <3>2, <3>3
  <2>8. m + 1 \in Nat
    OBVIOUS
  <2> HIDE DEF g
  <2>9. Takes(s, S, u, g, k + 1)
    BY <2>3, <2>6, <2>7, <2>8 DEF Takes
  <2> QED  BY <2>5, <2>9
<1> QED  BY <1>4, <1>5

(* Array.filter takes the elements of s in S, each at one place of its own, *)
(* and all of s when all are in S.                                         *)
LEMMA AmongLaw ==
  ASSUME NEW T, NEW s \in Seq(T), NEW S
  PROVE  /\ Among(s, S) \in Seq(T)
         /\ ToSet(Among(s, S)) = ToSet(s) \cap S
         /\ ToSet(s) \subseteq S => Among(s, S) = s
         /\ \E h \in [DOMAIN Among(s, S) -> DOMAIN s] :
              /\ \A i \in DOMAIN Among(s, S) : Among(s, S)[i] = s[h[i]]
              /\ \A i, j \in DOMAIN Among(s, S) : h[i] = h[j] => i = j
<1> DEFINE n == Len(s)
           A == Among(s, S)
<1>0. n \in Nat /\ DOMAIN s = 1 .. n /\ \A i \in 1 .. n : s[i] \in T
  OBVIOUS
<1>1. A = (CHOOSE f : IsAmong(s, S, f, n))[n]
  BY Zenon DEF Among, IsAmong, Add
<1>2. PICK f : IsAmong(s, S, f, n) /\ A = f[n]
  <2> HIDE DEF A, n
  <2> QED  BY <1>0, <1>1, AmongUpTo
<1> HIDE DEF A, n
<1>3. \A k \in 0 .. n : f[k] = IF k = 0 THEN <<>> ELSE Add(s, S, f[k - 1], k)
  BY <1>2, Zenon DEF IsAmong
<1>4. f[0] = <<>> /\ \A k \in Nat : k + 1 <= n => f[k + 1] = Add(s, S, f[k], k + 1)
  <2>1. 0 \in 0 .. n /\ \A k \in Nat : k + 1 <= n => k + 1 \in 0 .. n /\ (k + 1) - 1 = k /\ k + 1 # 0
    BY <1>0
  <2> QED  BY <1>3, <2>1
<1>5. \E h : Takes(s, S, A, h, n)
  <2> DEFINE N == {k \in Nat : k <= n => \E h : Takes(s, S, f[k], h, k)}
  <2>1. 0 \in N
    <3>1. <<>> = [i \in 1 .. 0 |-> s[<<>>[i]]] /\ <<>> \in [1 .. 0 -> 1 .. 0]
      OBVIOUS
    <3>2. Takes(s, S, <<>>, <<>>, 0)
      BY <3>1 DEF Takes
    <3> QED  BY <1>4, <3>2
  <2>2. ASSUME NEW k \in Nat, k \in N PROVE k + 1 \in N
    <3>1. SUFFICES ASSUME k + 1 <= n PROVE \E g : Takes(s, S, f[k + 1], g, k + 1)
      OBVIOUS
    <3>2. PICK h : Takes(s, S, f[k], h, k)
      BY <1>0, <2>2, <3>1
    <3> QED  BY <1>4, <3>1, <3>2, AddTakes
  <2>3. Nat \subseteq N
    <3> HIDE DEF N
    <3> QED  BY <2>1, <2>2, NatsByInduction
  <2>4. n \in N
    BY <1>0, <2>3
  <2> QED  BY <1>0, <1>2, <2>4
<1>a. PICK h : Takes(s, S, A, h, n)
  BY <1>5
<1>6. PICK m \in Nat : /\ h \in [1 .. m -> 1 .. n]
                       /\ A = [i \in 1 .. m |-> s[h[i]]]
                       /\ \A i, j \in 1 .. m : h[i] = h[j] => i = j
                       /\ \A j \in 1 .. n : s[j] \in S <=> \E i \in 1 .. m : h[i] = j
  BY <1>a DEF Takes
<1>7. A \in Seq(T) /\ Len(A) = m /\ DOMAIN A = 1 .. m
  BY <1>0, <1>6
<1>8. \A i \in 1 .. m : h[i] \in 1 .. n /\ A[i] = s[h[i]] /\ A[i] \in S
  BY <1>6
<1>9. ToSet(A) = ToSet(s) \cap S
  <2>1. ToSet(A) = {A[i] : i \in 1 .. m} /\ ToSet(s) = {s[i] : i \in 1 .. n}
    BY <1>0, <1>7 DEF ToSet
  <2>2. \A j \in 1 .. n : s[j] \in S => \E i \in 1 .. m : A[i] = s[j]
    BY <1>6, <1>8
  <2> QED  BY <1>8, <2>1, <2>2
<1>10. ASSUME ToSet(s) \subseteq S PROVE A = s
  <2>1. \A i \in 1 .. n : s[i] \in S
    BY <1>0, <1>10 DEF ToSet
  <2> DEFINE N == {k \in Nat : k <= n => f[k] = [i \in 1 .. k |-> s[i]]}
  <2>2. 0 \in N
    BY <1>4
  <2>3. ASSUME NEW k \in Nat, k \in N PROVE k + 1 \in N
    <3>1. SUFFICES ASSUME k + 1 <= n PROVE f[k + 1] = [i \in 1 .. k + 1 |-> s[i]]
      OBVIOUS
    <3>2. f[k] = [i \in 1 .. k |-> s[i]] /\ k + 1 \in 1 .. n
      BY <1>0, <2>3, <3>1
    <3>3. f[k] \in Seq(T) /\ Len(f[k]) = k
      BY <1>0, <3>1, <3>2
    <3>4. f[k + 1] = Append(f[k], s[k + 1])
      BY <1>4, <2>1, <3>1, <3>2 DEF Add
    <3> QED  BY <3>2, <3>3, <3>4
  <2>4. Nat \subseteq N
    <3> HIDE DEF N
    <3> QED  BY <2>2, <2>3, NatsByInduction
  <2>5. n \in N
    BY <1>0, <2>4
  <2> QED  BY <1>0, <1>2, <2>5
<1>11. h \in [DOMAIN A -> DOMAIN s]
  BY <1>0, <1>6, <1>7
<1>12. \E g \in [DOMAIN A -> DOMAIN s] :
          /\ \A i \in DOMAIN A : A[i] = s[g[i]]
          /\ \A i, j \in DOMAIN A : g[i] = g[j] => i = j
  BY <1>6, <1>7, <1>8, <1>11
<1> QED  BY <1>7, <1>9, <1>10, <1>12 DEF A

-----------------------------------------------------------------------------
(* The memory beside the database. *)

AllocationRow == [id : RowId, org : Provider, share : 1 .. FullAllocation, amount : Nat]
InterestRow == [org : Provider, withdrawn : BOOLEAN]
EventRecord == [action : {"PROPOSED", "REMOVED", "BOUND"}, org : Provider,
                share : 1 .. FullAllocation, amount : Nat]

MemState ==
  [listing : [Listing -> ListingStatus],
   interests : [Listing -> Seq(InterestRow)],
   appetites : [Provider -> Nat \cup {None}],
   commitments : [Provider -> Nat \cup {None}],
   synd : [Listing -> SyndicationStatus],
   rows : [Listing -> Seq(AllocationRow)],
   events : [Listing -> SUBSET EventRecord]]

OnePerOrg(s) == \A i, j \in DOMAIN s : s[i].org = s[j].org => i = j

(* What the memory holds of a listing. *)
HoldsListing(l) ==
  /\ ToSet(mem.rows[l]) = Stored(l)
  /\ OnePerOrg(mem.rows[l])
  /\ mem.events[l] = Told(l)
  /\ LiveInterest(l) = interest[l]

MemHolds ==
  /\ mem \in MemState
  /\ mem.listing = listing /\ mem.synd = synd
  /\ mem.appetites = exposure /\ mem.commitments = commitment
  /\ \A l \in Listing : HoldsListing(l)

(* Nothing is proposed before the syndication is opened, and until it is   *)
(* bound the rows are as they were proposed.                               *)
AsProposed ==
  /\ \A i \in RowId : proposed[i] # None => synd[proposed[i].lst] # "NONE"
  /\ \A l \in Listing, p \in Provider :
       alloc[l][p] # None /\ synd[l] # "BOUND" => proposed[alloc[l][p].id].amount = alloc[l][p].amount

(* What a withdrawal or a bind has read is there when it writes. *)
KnowsRows(q) ==
  /\ q.pc \in {"withdraw.find", "withdraw.delete", "bind.list", "bind.find", "bind.commit"}
       => synd[q.lst] = "OPEN"
  /\ q.pc = "withdraw.delete"
       => alloc[q.lst][q.org] # None /\ alloc[q.lst][q.org].id = q.row
  /\ q.pc = "bind.commit"
       => \A p \in Provider :
            q.found[p] = IF alloc[q.lst][p] = None THEN None ELSE alloc[q.lst][p].id

MemInv ==
  /\ SerialInv
  /\ MemHolds /\ AsProposed
  /\ \A r \in Request : KnowsRows(req[r])

-----------------------------------------------------------------------------
(* The sets that the memory is compared with. *)

LiveOf(s) == {e.org : e \in {i \in ToSet(s) : ~ i.withdrawn}}

LEMMA LiveValue ==
  /\ \A l : LiveInterest(l) = LiveOf(mem.interests[l])
  /\ \A l : LiveInterest(l)' = LiveOf(mem'.interests[l])
<1>1. \A l : LiveInterest(l) = LiveOf(mem.interests[l])
  <2> TAKE l
  <2> DEFINE s == mem.interests[l]
  <2>1. LiveInterest(l) = {s[n].org : n \in {m \in DOMAIN s : ~ s[m].withdrawn}}
    BY DEF LiveInterest
  <2>2. ToSet(s) = {s[n] : n \in DOMAIN s}
    BY DEF ToSet
  <2> HIDE DEF s
  <2> QED  BY <2>1, <2>2 DEF LiveOf, s
<1>2. \A l : LiveInterest(l)' = LiveOf(mem'.interests[l])
  <2> TAKE l
  <2> DEFINE s == mem'.interests[l]
  <2>1. LiveInterest(l)' = {s[n].org : n \in {m \in DOMAIN s : ~ s[m].withdrawn}}
    BY DEF LiveInterest
  <2>2. ToSet(s) = {s[n] : n \in DOMAIN s}
    BY DEF ToSet
  <2> HIDE DEF s
  <2> QED  BY <2>1, <2>2 DEF LiveOf, s
<1> QED  BY <1>1, <1>2

RowOf(p, row) == [id |-> row.id, org |-> p, share |-> row.share, amount |-> row.amount]
StoredOf(rows) == {RowOf(p, rows[p]) : p \in Holders(rows)}

LEMMA StoredValue ==
  \A l : Stored(l) = StoredOf(alloc[l]) /\ Stored(l)' = StoredOf(alloc'[l])
BY DEF Stored, StoredOf, RowOf

ToldProposed(l, prop) ==
  {Event("PROPOSED", prop[i].org, prop[i].share, prop[i].amount) :
     i \in {j \in RowId : prop[j] # None /\ prop[j].lst = l}}
ToldRemoved(l, prop, rem) ==
  {Event("REMOVED", prop[i].org, prop[i].share, prop[i].amount) :
     i \in {j \in rem : prop[j].lst = l}}
ToldBound(terms) ==
  {Event("BOUND", p, terms[p].share, terms[p].amount) : p \in Holders(terms)}

LEMMA ToldValue ==
  \A l : /\ Told(l) = ToldProposed(l, proposed) \cup ToldRemoved(l, proposed, removed)
                      \cup ToldBound(bound[l])
         /\ Told(l)' = ToldProposed(l, proposed') \cup ToldRemoved(l, proposed', removed')
                       \cup ToldBound(bound'[l])
BY DEF Told, ToldProposed, ToldRemoved, ToldBound

(* A list with one row for each provider is as long as its set is large. *)
LEMMA AsManyRows ==
  ASSUME NEW T, NEW s \in Seq(T), OnePerOrg(s)
  PROVE  Len(s) = Cardinality(ToSet(s))
<1> DEFINE n == Len(s)
           f == [i \in 1 .. n |-> s[i]]
<1>1. n \in Nat /\ DOMAIN s = 1 .. n
  OBVIOUS
<1>2. ToSet(s) = {s[i] : i \in 1 .. n}
  BY <1>1 DEF ToSet
<1> HIDE DEF n
<1>3. f \in Bijection(1 .. n, ToSet(s))
  BY <1>1, <1>2 DEF Bijection, Injection, Surjection, IsInjective, OnePerOrg
<1>4. IsFiniteSet(1 .. n) /\ Cardinality(1 .. n) = n
  BY <1>1, FS_Interval
<1>5. Cardinality(ToSet(s)) = Cardinality(1 .. n)
  <2> HIDE DEF f
  <2> QED  BY <1>3, <1>4, FS_Bijection DEF ExistsBijection
<1> QED  BY <1>4, <1>5 DEF n

(* What the two hold makes them agree. *)
LEMMA HoldsAgrees ==
  ASSUME TypeOK, MemHolds
  PROVE  MemoryAgrees
<1>1. ASSUME NEW l \in Listing
      PROVE  /\ mem.rows[l] \in Seq(AllocationRow)
             /\ ToSet(mem.rows[l]) = Stored(l) /\ OnePerOrg(mem.rows[l])
  BY <1>1 DEF MemHolds, MemState, HoldsListing
<1>2. ASSUME NEW p \in Provider
      PROVE  AllocationsOf(p) =
               {<<l, synd[l], alloc[l][p].amount>> : l \in {k \in Listing : alloc[k][p] # None}}
  <2> DEFINE Of(l) == {<<l, mem.synd[l], mem.rows[l][n].amount>> :
                         n \in {m \in DOMAIN mem.rows[l] : mem.rows[l][m].org = p}}
  <2>1. AllocationsOf(p) = UNION {Of(l) : l \in Listing}
    BY DEF AllocationsOf
  <2>2. ASSUME NEW l \in Listing
        PROVE  Of(l) = IF alloc[l][p] = None THEN {} ELSE {<<l, synd[l], alloc[l][p].amount>>}
    <3> DEFINE s == mem.rows[l]
    <3>1. {s[n] : n \in DOMAIN s} = {RowOf(q, alloc[l][q]) : q \in Holders(alloc[l])}
      BY <1>1, StoredValue DEF ToSet, StoredOf
    <3>2. \A n \in DOMAIN s : \E q \in Holders(alloc[l]) : s[n] = RowOf(q, alloc[l][q])
      BY <3>1
    <3>3. \A q \in Holders(alloc[l]) : \E n \in DOMAIN s : s[n] = RowOf(q, alloc[l][q])
      BY <3>1
    <3>a. \A q, row : RowOf(q, row).org = q /\ RowOf(q, row).amount = row.amount
      BY DEF RowOf
    <3>b. \A q \in Holders(alloc[l]) : q \in Provider /\ alloc[l][q] # None
      BY DEF Holders
    <3>c. alloc[l][p] # None => p \in Holders(alloc[l])
      BY DEF Holders
    <3>6. mem.synd[l] = synd[l]
      BY DEF MemHolds
    <3> HIDE DEF s
    <3>4. \A n \in DOMAIN s : s[n].org = p => /\ alloc[l][p] # None
                                              /\ s[n].amount = alloc[l][p].amount
      <4> SUFFICES ASSUME NEW n \in DOMAIN s, s[n].org = p
                   PROVE  alloc[l][p] # None /\ s[n].amount = alloc[l][p].amount
        OBVIOUS
      <4>1. PICK q \in Holders(alloc[l]) : s[n] = RowOf(q, alloc[l][q])
        BY <3>2
      <4>2. s[n].org = q /\ s[n].amount = alloc[l][q].amount
        BY <3>a, <4>1
      <4> QED  BY <3>b, <4>2
    <3>5. alloc[l][p] # None => \E n \in DOMAIN s : s[n].org = p
      BY <3>3, <3>a, <3>c, Zenon
    <3>7. Of(l) = {<<l, synd[l], s[n].amount>> : n \in {m \in DOMAIN s : s[m].org = p}}
      BY <3>6 DEF s
    <3>8. CASE alloc[l][p] = None
      BY <3>4, <3>7, <3>8
    <3>9. CASE alloc[l][p] # None
      BY <3>4, <3>5, <3>7, <3>9
    <3> QED  BY <3>8, <3>9
  <2> HIDE DEF Of
  <2> QED  BY <2>1, <2>2
<1>3. \A l \in Listing : Len(mem.rows[l]) = Cardinality(Stored(l))
  BY <1>1, AsManyRows
<1> QED  BY <1>1, <1>2, <1>3 DEF MemoryAgrees, MemHolds, HoldsListing

LEMMA MemInitHolds == Init /\ MemInit => MemHolds /\ AsProposed
<1> SUFFICES ASSUME Init, MemInit PROVE MemHolds /\ AsProposed
  OBVIOUS
<1>1. mem \in MemState
  <2>1. <<>> \in Seq(InterestRow) /\ <<>> \in Seq(AllocationRow)
    OBVIOUS
  <2> QED  BY <2>1 DEF MemInit, MemState, ListingStatus, SyndicationStatus
<1>2. ASSUME NEW l \in Listing PROVE HoldsListing(l)
  <2>1. /\ mem.rows[l] = <<>> /\ mem.interests[l] = <<>> /\ mem.events[l] = {}
    BY DEF MemInit
  <2>2. DOMAIN <<>> = {} /\ ToSet(<<>>) = {}
    BY DEF ToSet
  <2>3. Holders(alloc[l]) = {} /\ Holders(bound[l]) = {} /\ interest[l] = {}
        /\ removed = {} /\ \A j \in RowId : proposed[j] = None
    BY DEF Init, NoRows, Holders
  <2>4. Stored(l) = {} /\ Told(l) = {}
    BY <2>3 DEF Stored, Told
  <2>5. LiveInterest(l) = {}
    BY <2>1, <2>2, LiveValue DEF LiveOf
  <2> QED  BY <2>1, <2>2, <2>3, <2>4, <2>5 DEF HoldsListing, OnePerOrg
<1>3. AsProposed
  BY DEF AsProposed, Init, NoRows
<1> QED  BY <1>1, <1>2, <1>3 DEF MemHolds, MemInit, Init

-----------------------------------------------------------------------------
(* Steps that write nothing but their request. *)

LEMMA HoldsOn ==
  ASSUME MemHolds, AsProposed, UNCHANGED <<mem, market, synd, alloc, history>>
  PROVE  MemHolds' /\ AsProposed'
<1>1. \A l \in Listing : Stored(l)' = Stored(l) /\ Told(l)' = Told(l)
                         /\ LiveInterest(l)' = LiveInterest(l)
  <2>1. UNCHANGED <<alloc, proposed, removed, bound, mem>>
    BY DEF history
  <2> QED  BY <2>1, StoredValue, ToldValue, LiveValue
<1>2. UNCHANGED <<listing, interest, commitment, exposure, proposed, synd, alloc, mem>>
  BY DEF market, history
<1>3. MemHolds'
  BY <1>1, <1>2 DEF MemHolds, HoldsListing, MemState
<1>4. AsProposed'
  BY <1>2 DEF AsProposed
<1> QED  BY <1>3, <1>4

(* What a request knows that is at none of the steps that know something.  *)
LEMMA KnowsNoRows ==
  ASSUME NEW r, ~ req'[r].pc \in {"withdraw.find", "withdraw.delete", "bind.list",
                                  "bind.find", "bind.commit"}
  PROVE  KnowsRows(req[r])'
BY DEF KnowsRows

LEMMA OthersKnowRows ==
  ASSUME NEW r \in Request, \A s \in Request \ {r} : req[s].pc = "idle",
         \A s \in Request : s # r => req'[s] = req[s],
         KnowsRows(req[r])'
  PROVE  \A s \in Request : KnowsRows(req[s])'
<1> SUFFICES ASSUME NEW s \in Request, s # r PROVE KnowsRows(req[s])'
  OBVIOUS
<1>1. req'[s].pc = "idle"
  OBVIOUS
<1> QED  BY <1>1, KnowsNoRows

LEMMA ReadsRows ==
  ASSUME MemInv, NEW r \in Request, Arrive(r) \/ Step(r),
         ~ req[r].pc \in {"propose.insert", "withdraw.delete", "bind.commit", "bind.match",
                          "interest.upsert"},
         At(r, "open.create") => synd[req[r].lst] # "NONE"
  PROVE  /\ UNCHANGED <<market, synd, alloc, history>>
         /\ \A s \in Request : s # r => req'[s] = req[s]
         /\ KnowsRows(req[r])'
<1> DEFINE Goal == /\ UNCHANGED <<market, synd, alloc, history>>
                   /\ \A s \in Request : s # r => req'[s] = req[s]
                   /\ KnowsRows(req[r])'
<1>0. TypeOK /\ RequestOK(req[r]) /\ KnowsRows(req[r])
  BY DEF MemInv, SerialInv, IInv, TypeOK
<1>a. req \in [Request -> RequestState] /\ req[r] \in RequestState
  BY <1>0 DEF TypeOK
<1>1. CASE Arrive(r)
  <2>0. PICK l \in Listing, p \in Provider \cup {Owner} : \E s, pc :
          /\ Begin(r, pc, p, l, s)
          /\ pc \in {"open.find", "bind.list", "propose.interest", "withdraw.list", "interest.upsert"}
          /\ pc = "bind.list" => synd[l] = "OPEN"
          /\ UNCHANGED <<market, synd, alloc, history>>
    BY <1>1 DEF Arrive, OpenStart, BindStart, ProposeStart, WithdrawStart, InterestStart
  <2>1. PICK s, pc :
          /\ Begin(r, pc, p, l, s)
          /\ pc \in {"open.find", "bind.list", "propose.interest", "withdraw.list", "interest.upsert"}
          /\ pc = "bind.list" => synd[l] = "OPEN"
          /\ UNCHANGED <<market, synd, alloc, history>>
    BY <2>0
  <2>2. req' = [req EXCEPT ![r] = [Idle EXCEPT !.pc = pc, !.org = p, !.lst = l, !.share = s]]
    BY <2>1 DEF Begin, Become
  <2>3. req'[r].pc = pc /\ req'[r].lst = l /\ \A k \in Request : k # r => req'[k] = req[k]
    BY <1>a, <2>2 DEF Idle
  <2> QED  BY <2>1, <2>3 DEF KnowsRows
<1>3. CASE OpenFind(r)
  <2>1. Require(r, synd[req[r].lst] = "NONE", "open.create") /\ UNCHANGED <<market, synd, alloc, history>>
    BY <1>3 DEF OpenFind
  <2>2. /\ \A s \in Request : s # r => req'[s] = req[s]
        /\ req'[r].pc \in {"idle", "open.create"}
    BY <1>0, <2>1, RequireStep DEF Idle
  <2> QED  BY <2>1, <2>2, KnowsNoRows
<1>4. CASE OpenCreate(r)
  <2>1. Require(r, synd[req[r].lst] = "NONE", "open.audit") /\ UNCHANGED <<market, synd, alloc, history>>
    BY <1>4 DEF OpenCreate, At
  <2>2. /\ \A s \in Request : s # r => req'[s] = req[s]
        /\ req'[r].pc \in {"idle", "open.audit"}
    BY <1>0, <2>1, RequireStep DEF Idle
  <2> QED  BY <2>1, <2>2, KnowsNoRows
<1>5a. CASE ProposeInterest(r)
  <2>1. Require(r, req[r].org \in interest[req[r].lst], "propose.list") /\ UNCHANGED <<market, synd, alloc, history>>
    BY <1>5a DEF ProposeInterest
  <2>2. /\ \A s \in Request : s # r => req'[s] = req[s]
        /\ req'[r].pc \in {"idle", "propose.list"}
    BY <1>0, <2>1, RequireStep DEF Idle
  <2> QED  BY <2>1, <2>2, KnowsNoRows
<1>5b. CASE ProposeList(r)
  <2>1. Require(r, FitsSyndication(alloc[req[r].lst], req[r].org, req[r].share), "propose.appetite") /\ UNCHANGED <<market, synd, alloc, history>>
    BY <1>5b DEF ProposeList
  <2>2. /\ \A s \in Request : s # r => req'[s] = req[s]
        /\ req'[r].pc \in {"idle", "propose.appetite"}
    BY <1>0, <2>1, RequireStep DEF Idle
  <2> QED  BY <2>1, <2>2, KnowsNoRows
<1>5c. CASE ProposeAppetite(r)
  <2>1. Require(r, exposure[req[r].org] = None \/ Indicative(req[r].lst, req[r].share) <= exposure[req[r].org], "propose.commitment") /\ UNCHANGED <<market, synd, alloc, history>>
    BY <1>5c DEF ProposeAppetite
  <2>2. /\ \A s \in Request : s # r => req'[s] = req[s]
        /\ req'[r].pc \in {"idle", "propose.commitment"}
    BY <1>0, <2>1, RequireStep DEF Idle
  <2> QED  BY <2>1, <2>2, KnowsNoRows
<1>5d. CASE ProposePosition(r)
  <2>1. Require(r, Indicative(req[r].lst, req[r].share) <= Available(req[r].org, req[r].ceiling), "propose.recheck") /\ UNCHANGED <<market, synd, alloc, history>>
    BY <1>5d DEF ProposePosition
  <2>2. /\ \A s \in Request : s # r => req'[s] = req[s]
        /\ req'[r].pc \in {"idle", "propose.recheck"}
    BY <1>0, <2>1, RequireStep DEF Idle
  <2> QED  BY <2>1, <2>2, KnowsNoRows
<1>5e. CASE ProposeRecheck(r)
  <2>1. Require(r, synd[req[r].lst] = "OPEN", "propose.insert") /\ UNCHANGED <<market, synd, alloc, history>>
    BY <1>5e DEF ProposeRecheck
  <2>2. /\ \A s \in Request : s # r => req'[s] = req[s]
        /\ req'[r].pc \in {"idle", "propose.insert"}
    BY <1>0, <2>1, RequireStep DEF Idle
  <2> QED  BY <2>1, <2>2, KnowsNoRows
<1>5f. CASE WithdrawList(r)
  <2>1. UNCHANGED <<market, synd, alloc, history>>
    BY <1>5f DEF WithdrawList
  <2>2. /\ \A s \in Request : s # r => req'[s] = req[s]
        /\ req'[r].pc \in {"idle", "withdraw.recheck"}
    BY <1>0, <1>5f, WithdrawListStep DEF Idle
  <2> QED  BY <2>1, <2>2, KnowsNoRows
<1>6. CASE WithdrawRecheck(r)
  <2>1. Require(r, synd[req[r].lst] = "OPEN", "withdraw.find") /\ UNCHANGED <<market, synd, alloc, history>>
    BY <1>6 DEF WithdrawRecheck
  <2>2. CASE synd[req[r].lst] = "OPEN"
    <3>1. /\ \A s \in Request : s # r => req'[s] = req[s]
          /\ req'[r].pc = "withdraw.find" /\ req'[r].lst = req[r].lst
      BY <1>0, <2>1, <2>2, RequireStep
    <3> QED  BY <2>1, <2>2, <3>1 DEF KnowsRows
  <2>3. CASE synd[req[r].lst] # "OPEN"
    <3> DEFINE c == synd[req[r].lst] = "OPEN"
    <3>1. ~ c /\ Require(r, c, "withdraw.find")
      BY <2>1, <2>3
    <3> HIDE DEF c
    <3>2. (\A s \in Request : s # r => req'[s] = req[s]) /\ req'[r] = Idle
      BY <1>0, <3>1, RequireStep
    <3>3. req'[r].pc = "idle"
      BY <3>2 DEF Idle
    <3> QED  BY <2>1, <3>2, <3>3, KnowsNoRows
  <2> QED  BY <2>2, <2>3
<1>7. CASE ProposeCommitment(r)
  <2>1. /\ UNCHANGED <<market, synd, alloc, history>>
        /\ req' = [req EXCEPT ![r] = Idle]
           \/ req' = [req EXCEPT ![r] = [req[r] EXCEPT !.pc = "propose.position",
                                                       !.ceiling = commitment[req[r].org]]]
    BY <1>7 DEF ProposeCommitment, Finish, Become
  <2>2. \A s \in Request : s # r => req'[s] = req[s]
    BY <1>a, <2>1
  <2>3. req'[r].pc \in {"idle", "propose.position"}
    <3>1. [req[r] EXCEPT !.pc = "propose.position", !.ceiling = commitment[req[r].org]].pc
            = "propose.position" /\ Idle.pc = "idle"
      BY <1>a DEF Idle, RequestState
    <3> QED  BY <1>a, <2>1, <3>1
  <2> QED  BY <2>1, <2>2, <2>3, KnowsNoRows
<1>8. CASE WithdrawFind(r)
  <2> DEFINE p == req[r].org
             l == req[r].lst
  <2>0. req[r].pc = "withdraw.find" /\ UNCHANGED <<market, synd, alloc, history>>
    BY <1>8 DEF WithdrawFind, At
  <2>1. synd[l] = "OPEN" /\ p \in Provider /\ l \in Listing
    BY <1>0, <2>0 DEF KnowsRows, RequestOK, ProviderSteps
  <2>2. \A s \in Request : s # r => req'[s] = req[s]
    BY <1>0, <1>8, WithdrawFindStep
  <2>3. CASE req'[r].pc = "withdraw.audit"
    BY <2>0, <2>2, <2>3, KnowsNoRows
  <2>4. CASE req'[r].pc # "withdraw.audit"
    <3>1. /\ req'[r].pc = "withdraw.delete" /\ req'[r].lst = l /\ req'[r].org = p
          /\ alloc[l][p] # None /\ req'[r].row = alloc[l][p].id
      BY <1>0, <1>8, <2>4, WithdrawFindStep
    <3> QED  BY <2>0, <2>1, <2>2, <3>1 DEF KnowsRows
  <2> QED  BY <2>3, <2>4
<1>9. CASE BindList(r)
  <2> DEFINE l == req[r].lst
  <2>0. req[r].pc = "bind.list" /\ UNCHANGED <<market, synd, alloc, history>>
    BY <1>9 DEF BindList, At
  <2>1. synd[l] = "OPEN"
    BY <1>0, <2>0 DEF KnowsRows
  <2>2. CASE TotalShare(alloc[l]) = FullAllocation
    <3>1. PICK f \in FinalAllocations(l, alloc[l]) :
            req' = [req EXCEPT ![r] = [req[r] EXCEPT !.pc = "bind.find", !.final = f]]
      BY <1>9, <2>2 DEF BindList, Become
    <3>2. /\ req'[r].pc = "bind.find" /\ req'[r].lst = l
          /\ \A s \in Request : s # r => req'[s] = req[s]
      BY <1>a, <3>1 DEF RequestState
    <3> QED  BY <2>0, <2>1, <3>2 DEF KnowsRows
  <2>3. CASE TotalShare(alloc[l]) # FullAllocation
    <3>1. req' = [req EXCEPT ![r] = Idle]
      BY <1>9, <2>3 DEF BindList, Finish, Become
    <3>2. req'[r].pc = "idle" /\ \A s \in Request : s # r => req'[s] = req[s]
      BY <1>a, <3>1 DEF Idle
    <3> QED  BY <2>0, <3>2, KnowsNoRows
  <2> QED  BY <2>2, <2>3
<1>10. CASE BindFind(r)
  <2> DEFINE l == req[r].lst
             rows == alloc[l]
             ids == [p \in Provider |-> IF rows[p] = None THEN None ELSE rows[p].id]
  <2>0. req[r].pc = "bind.find" /\ UNCHANGED <<market, synd, alloc, history>>
    BY <1>10 DEF BindFind, At
  <2>1. synd[l] = "OPEN"
    BY <1>0, <2>0 DEF KnowsRows
  <2>2. req' = [req EXCEPT ![r] = [req[r] EXCEPT !.pc = "bind.commit", !.found = ids]]
    BY <1>10 DEF BindFind, Become
  <2>3. /\ req'[r].pc = "bind.commit" /\ req'[r].lst = l /\ req'[r].found = ids
        /\ \A s \in Request : s # r => req'[s] = req[s]
    <3> HIDE DEF ids
    <3> QED  BY <1>a, <2>2 DEF RequestState
  <2> QED  BY <2>0, <2>1, <2>3 DEF KnowsRows
<1>11. CASE \E pc, action : Record(r, pc, action)
  <2>1. req' = [req EXCEPT ![r] = Idle] /\ UNCHANGED <<market, synd, alloc, history>>
    BY <1>11 DEF Record, Finish, Become
  <2>2. req'[r].pc = "idle" /\ \A s \in Request : s # r => req'[s] = req[s]
    BY <1>a, <2>1 DEF Idle
  <2> QED  BY <2>1, <2>2, KnowsNoRows
<1> HIDE DEF Goal
<1>12. CASE Step(r)
  <2>1. ~ ProposeInsert(r) /\ ~ WithdrawDelete(r) /\ ~ BindCommit(r) /\ ~ BindMatch(r)
        /\ ~ InterestUpsert(r)
    BY DEF ProposeInsert, WithdrawDelete, BindCommit, BindMatch, InterestUpsert, At
  <2> QED  BY <1>3, <1>4, <1>5a, <1>5b, <1>5c, <1>5d, <1>5e, <1>5f,
          <1>6, <1>7, <1>8, <1>9, <1>10, <1>11, <1>12, <2>1 DEF Step
<1> QED  BY <1>1, <1>12 DEF Goal

-----------------------------------------------------------------------------
(* The writes that are made to both. *)

LEMMA WritesMove ==
  ASSUME MemInv, NEW r \in Request,
         \/ OpenCreate(r) \/ ProposeInsert(r) \/ WithdrawDelete(r) \/ BindCommit(r)
         \/ BindMatch(r) \/ InterestUpsert(r)
  PROVE  /\ \A s \in Request : s # r => req'[s] = req[s]
         /\ KnowsRows(req[r])'
<1>0. SerialInv /\ TypeOK
  BY DEF MemInv, SerialInv, IInv
<1>1. \A s \in Request : s # r => req'[s] = req[s]
  BY <1>0, OpenCreateSerial, ProposeInsertSerial, WithdrawDeleteSerial, BindCommitSerial, DoneSerial
<1>2. ASSUME NEW c, NEW pc \in {"open.audit", "withdraw.audit", "bind.match"}, Require(r, c, pc)
      PROVE  req'[r].pc \in {"idle", "open.audit", "withdraw.audit", "bind.match"}
  BY <1>0, <1>2, RequireStep DEF Idle
<1>3. ASSUME NEW pc \in {"propose.audit", "bind.audit"}, Goto(r, pc) \/ Finish(r)
      PROVE  req'[r].pc \in {"idle", "propose.audit", "bind.audit"}
  BY <1>0, <1>3 DEF Goto, Finish, Become, Idle, TypeOK, RequestState
<1>4. OpenCreate(r) => req'[r].pc \in {"idle", "open.audit"}
  <2> SUFFICES ASSUME OpenCreate(r) PROVE req'[r].pc \in {"idle", "open.audit"}
    OBVIOUS
  <2> DEFINE c == synd[req[r].lst] = "NONE"
  <2>1. Require(r, c, "open.audit")
    BY DEF OpenCreate
  <2> HIDE DEF c
  <2> QED  BY <1>0, <2>1, RequireStep DEF Idle
<1>5. WithdrawDelete(r) => req'[r].pc \in {"idle", "withdraw.audit"}
  <2> SUFFICES ASSUME WithdrawDelete(r) PROVE req'[r].pc \in {"idle", "withdraw.audit"}
    OBVIOUS
  <2> DEFINE c == Deletable(req[r].lst, req[r].org, req[r].row)
  <2>1. Require(r, c, "withdraw.audit")
    BY DEF WithdrawDelete
  <2> HIDE DEF c
  <2> QED  BY <1>0, <2>1, RequireStep DEF Idle
<1>6. BindCommit(r) => req'[r].pc \in {"idle", "bind.match"}
  <2> SUFFICES ASSUME BindCommit(r) PROVE req'[r].pc \in {"idle", "bind.match"}
    OBVIOUS
  <2> DEFINE c == Updatable(req[r].lst, req[r].final, req[r].found)
  <2>1. Require(r, c, "bind.match")
    BY DEF BindCommit
  <2> HIDE DEF c
  <2> QED  BY <1>0, <2>1, RequireStep DEF Idle
<1>7. ProposeInsert(r) \/ BindMatch(r) \/ InterestUpsert(r)
        => req'[r].pc \in {"idle", "propose.audit", "bind.audit"}
  <2>1. InterestUpsert(r) => Finish(r)
    BY DEF InterestUpsert
  <2>2. BindMatch(r) => Goto(r, "bind.audit")
    BY DEF BindMatch
  <2>3. ProposeInsert(r) => req'[r].pc \in {"idle", "propose.audit"}
    <3>2. Finish(r) => req'[r].pc \in {"idle", "propose.audit"}
      BY <1>0 DEF Finish, Become, Idle, TypeOK
    <3> SUFFICES ASSUME ProposeInsert(r), ~ Finish(r) PROVE req'[r].pc = "propose.audit"
      BY <3>2
    <3>1. PICK i : Become(r, [req[r] EXCEPT !.pc = "propose.audit", !.row = i])
      BY DEF ProposeInsert
    <3> QED  BY <1>0, <3>1 DEF Become, TypeOK, RequestState
  <2> QED  BY <1>3, <2>1, <2>2, <2>3
<1> QED  BY <1>1, <1>4, <1>5, <1>6, <1>7, KnowsNoRows

(* A listing whose part of both is as it was. *)
LEMMA ListingKept ==
  ASSUME MemHolds, NEW k \in Listing,
         mem'.rows[k] = mem.rows[k], mem'.events[k] = mem.events[k],
         mem'.interests[k] = mem.interests[k], interest'[k] = interest[k],
         alloc'[k] = alloc[k], Told(k)' = Told(k)
  PROVE  HoldsListing(k)'
<1>1. Stored(k)' = Stored(k) /\ LiveInterest(k)' = LiveInterest(k)
  BY StoredValue, LiveValue
<1> QED  BY <1>1 DEF MemHolds, HoldsListing

LEMMA MemOpen ==
  ASSUME MemInv, NEW l \in Listing, synd[l] = "NONE", MemCreate(l),
         synd' = [synd EXCEPT ![l] = "OPEN"], UNCHANGED <<market, alloc, history>>
  PROVE  MemHolds' /\ AsProposed'
<1>0. TypeOK /\ HistoryExplainsRows /\ BoundIsExact /\ ProposalBacked /\ MemHolds /\ AsProposed
  BY DEF MemInv, SerialInv, IInv, StoredInv
<1>1. UNCHANGED <<listing, interest, commitment, exposure, alloc, proposed, removed, bound>>
  BY DEF market, history
<1>2. mem' = [mem EXCEPT !.synd[l] = "OPEN", !.rows[l] = <<>>, !.events[l] = {}]
  BY DEF MemCreate
<1>3. mem \in MemState /\ mem.synd = synd
  BY <1>0 DEF MemHolds
<1>4. /\ mem'.listing = mem.listing /\ mem'.appetites = mem.appetites
      /\ mem'.commitments = mem.commitments /\ mem'.interests = mem.interests
      /\ mem'.synd = [mem.synd EXCEPT ![l] = "OPEN"]
      /\ mem'.rows = [mem.rows EXCEPT ![l] = <<>>]
      /\ mem'.events = [mem.events EXCEPT ![l] = {}]
  BY <1>2, <1>3 DEF MemState
<1>5. mem' \in MemState
  <2>1. "OPEN" \in SyndicationStatus /\ <<>> \in Seq(AllocationRow)
    BY DEF SyndicationStatus
  <2> HIDE DEF AllocationRow
  <2> QED  BY <1>2, <1>3, <2>1 DEF MemState
<1>6. \A k : Told(k)' = Told(k)
  BY <1>1, ToldValue
<1>7. ASSUME NEW k \in Listing, k # l PROVE HoldsListing(k)'
  <2>1. mem'.rows[k] = mem.rows[k] /\ mem'.events[k] = mem.events[k]
    BY <1>3, <1>4, <1>7 DEF MemState
  <2> QED  BY <1>0, <1>1, <1>4, <1>6, <1>7, <2>1, ListingKept
<1>8. \A p \in Provider : alloc[l][p] = None /\ bound[l][p] = None
  BY <1>0 DEF ProposalBacked, BoundIsExact, NoRows
<1>9. \A j \in RowId : proposed[j] # None => proposed[j].lst # l
  BY <1>0 DEF AsProposed
<1>10. Stored(l) = {} /\ Told(l) = {}
  <2>1. Holders(alloc[l]) = {} /\ Holders(bound[l]) = {}
    BY <1>8 DEF Holders
  <2>2. {j \in RowId : proposed[j] # None /\ proposed[j].lst = l} = {}
    BY <1>9
  <2>3. {j \in removed : proposed[j].lst = l} = {}
    BY <1>0, <1>9 DEF HistoryExplainsRows, TypeOK
  <2> QED  BY <2>1, <2>2, <2>3 DEF Stored, Told
<1>11. HoldsListing(l)'
  <2>1. mem'.rows[l] = <<>> /\ mem'.events[l] = {}
    BY <1>3, <1>4 DEF MemState
  <2>2. ToSet(<<>>) = {} /\ OnePerOrg(<<>>)
    BY DEF ToSet, OnePerOrg
  <2>3. Stored(l)' = {} /\ Told(l)' = {} /\ LiveInterest(l)' = LiveInterest(l)
    BY <1>1, <1>4, <1>6, <1>10, StoredValue, LiveValue
  <2> QED  BY <1>0, <1>1, <2>1, <2>2, <2>3 DEF HoldsListing, MemHolds
<1>12. MemHolds'
  BY <1>0, <1>1, <1>4, <1>5, <1>7, <1>11 DEF MemHolds
<1>13. AsProposed'
  <2>1. synd'[l] = "OPEN" /\ \A k \in Listing : k # l => synd'[k] = synd[k]
    BY <1>0 DEF TypeOK
  <2>2. \A j \in RowId : proposed[j] # None => proposed[j].lst \in Listing
    BY <1>0 DEF TypeOK, Proposal
  <2> QED  BY <1>0, <1>1, <1>8, <2>1, <2>2 DEF AsProposed
<1> QED  BY <1>12, <1>13

LEMMA MemPropose ==
  ASSUME MemInv, NEW l \in Listing, NEW p \in Provider, NEW s \in 1 .. FullAllocation,
         NEW i \in Unused, NEW a \in Nat,
         synd[l] = "OPEN", alloc[l][p] = None,
         alloc' = [alloc EXCEPT ![l][p] = [id |-> i, share |-> s, amount |-> a]],
         proposed' = [proposed EXCEPT ![i] = [lst |-> l, org |-> p, share |-> s, amount |-> a]],
         UNCHANGED <<market, synd, removed, bound>>,
         MemAddAllocation(l, [id |-> i, org |-> p, share |-> s, amount |-> a])
  PROVE  MemHolds' /\ AsProposed'
<1>0. TypeOK /\ HistoryExplainsRows /\ MemHolds /\ AsProposed
  BY DEF MemInv, SerialInv, IInv, StoredInv
<1> DEFINE row == [id |-> i, org |-> p, share |-> s, amount |-> a]
           old == mem.rows[l]
           new == Append(old, row)
           event == Event("PROPOSED", p, s, a)
<1>1. UNCHANGED <<listing, interest, commitment, exposure>>
  BY DEF market
<1>2. i \in RowId /\ proposed[i] = None /\ i \notin removed
  BY <1>0 DEF Unused, HistoryExplainsRows
<1>3. mem \in MemState /\ mem.synd = synd
  BY <1>0 DEF MemHolds
<1>a. row \in AllocationRow /\ event \in EventRecord
  BY <1>2 DEF AllocationRow, EventRecord, Event
<1>b. row.org = p /\ row.share = s /\ row.amount = a
  OBVIOUS
<1>4. mem' = [mem EXCEPT !.rows[l] = Append(@, row), !.events[l] = @ \cup {event}]
  <2>1. mem.synd[l] = "OPEN"
    BY <1>3
  <2> QED  BY <2>1 DEF MemAddAllocation
<1> HIDE DEF row, event
<1>5. /\ mem'.listing = mem.listing /\ mem'.appetites = mem.appetites
      /\ mem'.commitments = mem.commitments /\ mem'.interests = mem.interests
      /\ mem'.synd = mem.synd
      /\ mem'.rows = [mem.rows EXCEPT ![l] = new]
      /\ mem'.events = [mem.events EXCEPT ![l] = @ \cup {event}]
  BY <1>3, <1>4 DEF MemState
<1>6. old \in Seq(AllocationRow) /\ mem.events[l] \in SUBSET EventRecord
  BY <1>3 DEF MemState
<1>7. mem' \in MemState
  <2>1. new \in Seq(AllocationRow) /\ mem.events[l] \cup {event} \in SUBSET EventRecord
    BY <1>6, <1>a
  <2> HIDE DEF new, old
  <2>2. mem' = [mem EXCEPT !.rows[l] = new, !.events[l] = mem.events[l] \cup {event}]
    BY <1>3, <1>4 DEF MemState, new, old
  <2> QED  BY <1>3, <2>1, <2>2 DEF MemState
<1>8. /\ proposed'[i] = [lst |-> l, org |-> p, share |-> s, amount |-> a]
      /\ \A j \in RowId : j # i => proposed'[j] = proposed[j]
  BY <1>0, <1>2 DEF TypeOK
<1>9. /\ alloc'[l][p] = [id |-> i, share |-> s, amount |-> a]
      /\ \A k \in Listing, q \in Provider : k # l \/ q # p => alloc'[k][q] = alloc[k][q]
      /\ \A k \in Listing : k # l => alloc'[k] = alloc[k]
  BY <1>0, RowWritten
<1>10. [id |-> i, share |-> s, amount |-> a] # None
       /\ [lst |-> l, org |-> p, share |-> s, amount |-> a] # None
  BY <1>2, NoneAssumption DEF Row, Proposal
<1>11. ASSUME NEW k \in Listing
       PROVE  Told(k)' = IF k = l THEN Told(k) \cup {event} ELSE Told(k)
  <2>1. ToldRemoved(k, proposed', removed) = ToldRemoved(k, proposed, removed)
    <3>1. \A j \in removed : proposed'[j] = proposed[j]
      BY <1>0, <1>2, <1>8 DEF TypeOK
    <3> QED  BY <3>1 DEF ToldRemoved
  <2>2. CASE k = l
    <3> DEFINE P == {j \in RowId : proposed[j] # None /\ proposed[j].lst = k}
    <3>1. {j \in RowId : proposed'[j] # None /\ proposed'[j].lst = k} = P \cup {i}
      BY <1>2, <1>8, <1>10, <2>2
    <3>2. \A j \in P : proposed'[j] = proposed[j]
      BY <1>2, <1>8
    <3>3. Event("PROPOSED", proposed'[i].org, proposed'[i].share, proposed'[i].amount) = event
      BY <1>8 DEF event
    <3>4. ToldProposed(k, proposed') = ToldProposed(k, proposed) \cup {event}
      <4> DEFINE Then(j) == Event("PROPOSED", proposed'[j].org, proposed'[j].share, proposed'[j].amount)
                 Before(j) == Event("PROPOSED", proposed[j].org, proposed[j].share, proposed[j].amount)
      <4>1. ToldProposed(k, proposed') = {Then(j) : j \in P \cup {i}}
        BY <3>1 DEF ToldProposed
      <4>2. ToldProposed(k, proposed) = {Before(j) : j \in P}
        BY DEF ToldProposed
      <4>3. \A j \in P : Then(j) = Before(j)
        BY <3>2
      <4>4. Then(i) = event
        BY <3>3
      <4> HIDE DEF P, Then, Before
      <4> QED  BY <4>1, <4>2, <4>3, <4>4
    <3> HIDE DEF P
    <3> QED  BY <2>1, <2>2, <3>4, ToldValue
  <2>3. CASE k # l
    <3>1. ToldProposed(k, proposed') = ToldProposed(k, proposed)
      <4>1. {j \in RowId : proposed'[j] # None /\ proposed'[j].lst = k}
              = {j \in RowId : proposed[j] # None /\ proposed[j].lst = k}
        BY <1>2, <1>8, <2>3
      <4>2. \A j \in RowId : proposed[j] # None => proposed'[j] = proposed[j]
        BY <1>2, <1>8
      <4> QED  BY <4>1, <4>2 DEF ToldProposed
    <3> QED  BY <2>1, <2>3, <3>1, ToldValue
  <2> QED  BY <2>2, <2>3
<1>12. ASSUME NEW k \in Listing, k # l PROVE HoldsListing(k)'
  <2>1. mem'.rows[k] = mem.rows[k] /\ mem'.events[k] = mem.events[k]
    BY <1>3, <1>5, <1>12 DEF MemState
  <2>2. Told(k)' = Told(k)
    BY <1>11, <1>12
  <2> QED  BY <1>0, <1>1, <1>5, <1>9, <1>12, <2>1, <2>2, ListingKept
<1>13. HoldsListing(l)'
  <2>0. ToSet(old) = StoredOf(alloc[l]) /\ OnePerOrg(old) /\ mem.events[l] = Told(l)
        /\ LiveInterest(l) = interest[l]
    BY <1>0, StoredValue DEF MemHolds, HoldsListing
  <2>1. mem'.rows[l] = new /\ mem'.events[l] = Told(l) \cup {event}
    BY <1>3, <1>5, <2>0 DEF MemState
  <2>2. /\ new \in Seq(AllocationRow) /\ Len(new) = Len(old) + 1 /\ new[Len(old) + 1] = row
        /\ \A n \in 1 .. Len(old) : new[n] = old[n]
    BY <1>6, <1>a
  <2>3. /\ DOMAIN old = 1 .. Len(old) /\ DOMAIN new = 1 .. Len(old) + 1
        /\ Len(old) \in Nat
    BY <1>6, <2>2
  <2>4. ToSet(new) = ToSet(old) \cup {row}
    <3>1. \A n \in 1 .. Len(old) + 1 : n \in 1 .. Len(old) \/ n = Len(old) + 1
      BY <2>3
    <3>2. Len(old) + 1 \in 1 .. Len(old) + 1 /\ \A n \in 1 .. Len(old) : n \in 1 .. Len(old) + 1
      BY <2>3
    <3> HIDE DEF new, old
    <3> QED  BY <2>2, <2>3, <3>1, <3>2 DEF ToSet
  <2>5. \A n \in DOMAIN old : old[n].org # p
    <3>1. \A n \in DOMAIN old : \E q \in Holders(alloc[l]) : old[n] = RowOf(q, alloc[l][q])
      BY <2>0 DEF ToSet, StoredOf
    <3>2. \A q, x : RowOf(q, x).org = q
      BY DEF RowOf
    <3>3. \A q \in Holders(alloc[l]) : q # p
      BY DEF Holders
    <3> HIDE DEF old
    <3> QED  BY <3>1, <3>2, <3>3
  <2>6. OnePerOrg(new)
    <3> SUFFICES ASSUME NEW n \in 1 .. Len(old) + 1, NEW m \in 1 .. Len(old) + 1,
                        new[n].org = new[m].org
                 PROVE  n = m
      BY <2>3 DEF OnePerOrg
    <3> HIDE DEF new, old
    <3>1. n \in 1 .. Len(old) \/ n = Len(old) + 1
      BY <2>3
    <3>2. m \in 1 .. Len(old) \/ m = Len(old) + 1
      BY <2>3
    <3>3. \A x \in 1 .. Len(old) : new[x].org # p
      BY <2>2, <2>3, <2>5
    <3>4. new[Len(old) + 1].org = p
      BY <1>b, <2>2
    <3> QED  BY <2>0, <2>2, <2>3, <3>1, <3>2, <3>3, <3>4 DEF OnePerOrg
  <2>7. StoredOf(alloc'[l]) = StoredOf(alloc[l]) \cup {row}
    <3>1. Holders(alloc'[l]) = Holders(alloc[l]) \cup {p} /\ p \notin Holders(alloc[l])
      BY <1>9, <1>10 DEF Holders
    <3>2. \A q \in Holders(alloc[l]) : alloc'[l][q] = alloc[l][q]
      BY <1>9, <3>1 DEF Holders
    <3>3. RowOf(p, alloc'[l][p]) = row
      BY <1>9 DEF RowOf, row
    <3> QED  BY <3>1, <3>2, <3>3 DEF StoredOf
  <2>8. Stored(l)' = ToSet(new)
    BY <2>0, <2>4, <2>7, StoredValue
  <2>9. LiveInterest(l)' = interest'[l]
    BY <1>1, <1>5, <2>0, LiveValue
  <2> HIDE DEF new, old
  <2> QED  BY <1>11, <2>1, <2>6, <2>8, <2>9 DEF HoldsListing
<1>14. MemHolds'
  BY <1>0, <1>1, <1>5, <1>7, <1>12, <1>13 DEF MemHolds
<1>15. AsProposed'
  <2>1. \A j \in RowId : proposed'[j] # None => synd[proposed'[j].lst] # "NONE"
    BY <1>0, <1>8 DEF AsProposed
  <2>2. ASSUME NEW k \in Listing, NEW q \in Provider, alloc'[k][q] # None, synd[k] # "BOUND"
        PROVE  proposed'[alloc'[k][q].id].amount = alloc'[k][q].amount
    <3>1. CASE k = l /\ q = p
      BY <1>8, <1>9, <3>1
    <3>2. CASE k # l \/ q # p
      <4>1. alloc'[k][q] = alloc[k][q]
        BY <1>9, <3>2
      <4>2. alloc[k][q].id \in RowId /\ proposed[alloc[k][q].id] # None
        BY <1>0, <2>2, <4>1 DEF HistoryExplainsRows, TypeOK, Row
      <4>3. proposed'[alloc[k][q].id] = proposed[alloc[k][q].id]
        BY <1>2, <1>8, <4>2
      <4> QED  BY <1>0, <2>2, <4>1, <4>3 DEF AsProposed
    <3> QED  BY <3>1, <3>2
  <2> QED  BY <2>1, <2>2 DEF AsProposed
<1> QED  BY <1>14, <1>15

LEMMA MemWithdraw ==
  ASSUME MemInv, NEW l \in Listing, NEW p \in Provider, NEW i,
         synd[l] = "OPEN", alloc[l][p] # None, i = alloc[l][p].id,
         alloc' = [alloc EXCEPT ![l][p] = None], removed' = removed \cup {i},
         UNCHANGED <<market, synd, proposed, bound>>,
         MemRemoveAllocation(l, p)
  PROVE  MemHolds' /\ AsProposed'
<1>0. TypeOK /\ HistoryExplainsRows /\ MemHolds /\ AsProposed
  BY DEF MemInv, SerialInv, IInv, StoredInv
<1> DEFINE old == mem.rows[l]
           row == RowOf(p, alloc[l][p])
           own == Among(old, {e \in ToSet(old) : e.org = p})
           new == Among(old, {e \in ToSet(old) : e.org # p})
           event == Event("REMOVED", p, alloc[l][p].share, alloc[l][p].amount)
<1>1. UNCHANGED <<listing, interest, commitment, exposure>>
  BY DEF market
<1>2. /\ alloc[l][p] \in Row /\ i \in RowId /\ i \notin removed
      /\ proposed[i].lst = l /\ proposed[i].org = p /\ proposed[i] # None
      /\ proposed[i].share = alloc[l][p].share
      /\ proposed[i].amount = alloc[l][p].amount
  <2>1. alloc[l][p] \in Row
    BY <1>0 DEF TypeOK
  <2>2. i \in RowId
    BY <2>1 DEF Row
  <2>3. /\ i \notin removed /\ proposed[i].lst = l /\ proposed[i].org = p /\ proposed[i] # None
        /\ proposed[i].share = alloc[l][p].share
    BY <1>0 DEF HistoryExplainsRows
  <2>4. proposed[i].amount = alloc[l][p].amount
    BY <1>0 DEF AsProposed
  <2> QED  BY <2>1, <2>2, <2>3, <2>4
<1>3. mem \in MemState /\ mem.synd = synd
  BY <1>0 DEF MemHolds
<1>4. old \in Seq(AllocationRow) /\ ToSet(old) = StoredOf(alloc[l]) /\ OnePerOrg(old)
      /\ mem.events[l] = Told(l) /\ LiveInterest(l) = interest[l]
  BY <1>0, <1>3, StoredValue DEF MemState, MemHolds, HoldsListing
<1>5. \A q, x : RowOf(q, x).org = q /\ RowOf(q, x).share = x.share /\ RowOf(q, x).amount = x.amount
  BY DEF RowOf
<1>6. /\ own \in Seq(AllocationRow) /\ new \in Seq(AllocationRow)
      /\ ToSet(own) = {e \in ToSet(old) : e.org = p}
      /\ ToSet(new) = {e \in ToSet(old) : e.org # p}
      /\ OnePerOrg(new)
  <2> DEFINE S1 == {e \in ToSet(old) : e.org = p}
             S2 == {e \in ToSet(old) : e.org # p}
  <2>1. S1 \subseteq ToSet(old) /\ S2 \subseteq ToSet(old)
    OBVIOUS
  <2> HIDE DEF old, S1, S2
  <2>2. Among(old, S1) \in Seq(AllocationRow) /\ ToSet(Among(old, S1)) = ToSet(old) \cap S1
    BY <1>4, AmongLaw
  <2>3. Among(old, S2) \in Seq(AllocationRow) /\ ToSet(Among(old, S2)) = ToSet(old) \cap S2
    BY <1>4, AmongLaw
  <2>a. \E h \in [DOMAIN Among(old, S2) -> DOMAIN old] :
           /\ \A n \in DOMAIN Among(old, S2) : Among(old, S2)[n] = old[h[n]]
           /\ \A n, m \in DOMAIN Among(old, S2) : h[n] = h[m] => n = m
    BY <1>4, AmongLaw
  <2>4. OnePerOrg(Among(old, S2))
    <3> DEFINE A == Among(old, S2)
    <3>1. PICK h \in [DOMAIN A -> DOMAIN old] :
              /\ \A n \in DOMAIN A : A[n] = old[h[n]]
              /\ \A n, m \in DOMAIN A : h[n] = h[m] => n = m
      BY <2>a
    <3> HIDE DEF A
    <3>2. \A n \in DOMAIN A : h[n] \in DOMAIN old
      BY <3>1
    <3>3. OnePerOrg(A)
      BY <1>4, <3>1, <3>2 DEF OnePerOrg
    <3> QED  BY <3>3 DEF A
  <2> QED  BY <2>1, <2>2, <2>3, <2>4 DEF S1, S2, old
<1>7. own # <<>> /\ own[1].share = alloc[l][p].share /\ own[1].amount = alloc[l][p].amount
  <2>1. p \in Holders(alloc[l])
    BY DEF Holders
  <2>2. row \in ToSet(old) /\ row.org = p
    BY <1>4, <1>5, <2>1 DEF StoredOf
  <2>3. row \in ToSet(own)
    BY <1>6, <2>2
  <2>4. ToSet(own) = {own[n] : n \in DOMAIN own} /\ own \in Seq(AllocationRow)
    BY <1>6 DEF ToSet
  <2> HIDE DEF own, row, old
  <2>5. own # <<>> /\ 1 \in DOMAIN own
    BY <2>3, <2>4
  <2>6. own[1] \in StoredOf(alloc[l]) /\ own[1].org = p
    BY <1>4, <1>6, <2>4, <2>5
  <2>7. PICK q \in Holders(alloc[l]) : own[1] = RowOf(q, alloc[l][q])
    BY <2>6 DEF StoredOf
  <2>8. q = p
    BY <1>5, <2>6, <2>7
  <2> QED  BY <1>5, <2>5, <2>7, <2>8
<1> HIDE DEF row, event
<1>8. mem' = [mem EXCEPT !.rows[l] = new, !.events[l] = mem.events[l] \cup {event}]
  <2>1. mem.synd[l] = "OPEN"
    BY <1>3
  <2> HIDE DEF own, new
  <2>2. mem' = [mem EXCEPT !.rows[l] = new,
                  !.events[l] = IF own = <<>> THEN @
                                ELSE @ \cup {Event("REMOVED", p, own[1].share, own[1].amount)}]
    BY <2>1 DEF MemRemoveAllocation, own, new
  <2>3. Event("REMOVED", p, own[1].share, own[1].amount) = event
    BY <1>7 DEF event
  <2> QED  BY <1>3, <1>7, <2>2, <2>3 DEF MemState
<1> HIDE DEF own, new
<1>9. event \in EventRecord
  BY <1>2 DEF EventRecord, Event, event, Row
<1>10. /\ mem'.listing = mem.listing /\ mem'.appetites = mem.appetites
       /\ mem'.commitments = mem.commitments /\ mem'.interests = mem.interests
       /\ mem'.synd = mem.synd
       /\ mem'.rows = [mem.rows EXCEPT ![l] = new]
       /\ mem'.events = [mem.events EXCEPT ![l] = mem.events[l] \cup {event}]
  BY <1>3, <1>8 DEF MemState
<1>11. mem' \in MemState
  <2>1. mem.events[l] \cup {event} \in SUBSET EventRecord
    BY <1>3, <1>9 DEF MemState
  <2> QED  BY <1>3, <1>6, <1>8, <2>1 DEF MemState
<1>12. /\ alloc'[l][p] = None
       /\ \A k \in Listing, q \in Provider : k # l \/ q # p => alloc'[k][q] = alloc[k][q]
       /\ \A k \in Listing : k # l => alloc'[k] = alloc[k]
  BY <1>0, RowWritten
<1>13. ASSUME NEW k \in Listing
       PROVE  Told(k)' = IF k = l THEN Told(k) \cup {event} ELSE Told(k)
  <2> DEFINE R == {j \in removed : proposed[j].lst = k}
             Ev(j) == Event("REMOVED", proposed[j].org, proposed[j].share, proposed[j].amount)
  <2>1. ToldRemoved(k, proposed, removed) = {Ev(j) : j \in R}
    BY DEF ToldRemoved
  <2>2. ToldRemoved(k, proposed, removed') = {Ev(j) : j \in {m \in removed' : proposed[m].lst = k}}
    BY DEF ToldRemoved
  <2>3. {m \in removed' : proposed[m].lst = k} = IF k = l THEN R \cup {i} ELSE R
    BY <1>2
  <2>4. Ev(i) = event
    BY <1>2 DEF event
  <2> HIDE DEF R, Ev
  <2>5. ToldRemoved(k, proposed, removed')
          = IF k = l THEN ToldRemoved(k, proposed, removed) \cup {event}
            ELSE ToldRemoved(k, proposed, removed)
    <3>1. CASE k = l
      <4>1. {m \in removed' : proposed[m].lst = k} = R \cup {i}
        BY <2>3, <3>1
      <4>2. ToldRemoved(k, proposed, removed') = {Ev(j) : j \in R \cup {i}}
        BY <2>2, <4>1, Zenon
      <4> QED  BY <2>1, <2>4, <3>1, <4>2
    <3>2. CASE k # l
      BY <2>1, <2>2, <2>3, <3>2
    <3> QED  BY <3>1, <3>2
  <2>6. proposed' = proposed /\ bound' = bound
    OBVIOUS
  <2> QED  BY <2>5, <2>6, ToldValue
<1>14. ASSUME NEW k \in Listing, k # l PROVE HoldsListing(k)'
  <2>1. mem'.rows[k] = mem.rows[k] /\ mem'.events[k] = mem.events[k]
    BY <1>3, <1>10, <1>14 DEF MemState
  <2>2. Told(k)' = Told(k)
    BY <1>13, <1>14
  <2> QED  BY <1>0, <1>1, <1>10, <1>12, <1>14, <2>1, <2>2, ListingKept
<1>15. HoldsListing(l)'
  <2>1. mem'.rows[l] = new /\ mem'.events[l] = Told(l) \cup {event}
    BY <1>3, <1>4, <1>10 DEF MemState
  <2>2. StoredOf(alloc'[l]) = {e \in StoredOf(alloc[l]) : e.org # p}
    <3>1. Holders(alloc'[l]) = Holders(alloc[l]) \ {p}
      BY <1>12 DEF Holders
    <3>2. \A q \in Holders(alloc[l]) \ {p} : alloc'[l][q] = alloc[l][q]
      BY <1>12 DEF Holders
    <3>3. StoredOf(alloc'[l]) = {RowOf(q, alloc[l][q]) : q \in Holders(alloc[l]) \ {p}}
      BY <3>1, <3>2 DEF StoredOf
    <3>4. StoredOf(alloc[l]) = {RowOf(q, alloc[l][q]) : q \in Holders(alloc[l])}
      BY DEF StoredOf
    <3> DEFINE At1(q) == RowOf(q, alloc[l][q])
    <3>5. \A q : At1(q).org = q
      BY <1>5
    <3> HIDE DEF At1
    <3>6. /\ StoredOf(alloc'[l]) = {At1(q) : q \in Holders(alloc[l]) \ {p}}
          /\ StoredOf(alloc[l]) = {At1(q) : q \in Holders(alloc[l])}
      BY <3>3, <3>4 DEF At1
    <3> QED  BY <3>5, <3>6
  <2>3. Stored(l)' = ToSet(new)
    BY <1>4, <1>6, <2>2, StoredValue
  <2>4. LiveInterest(l)' = interest'[l]
    BY <1>1, <1>4, <1>10, LiveValue
  <2>5. Told(l)' = Told(l) \cup {event}
    BY <1>13
  <2> HIDE DEF old
  <2> QED  BY <1>6, <2>1, <2>3, <2>4, <2>5 DEF HoldsListing
<1>16. MemHolds'
  BY <1>0, <1>1, <1>10, <1>11, <1>14, <1>15 DEF MemHolds
<1>17. AsProposed'
  <2>1. \A k \in Listing, q \in Provider : alloc'[k][q] # None => alloc'[k][q] = alloc[k][q]
    BY <1>12
  <2> QED  BY <1>0, <2>1 DEF AsProposed
<1> QED  BY <1>16, <1>17

LEMMA MemBound ==
  ASSUME MemInv, NEW l \in Listing, NEW final \in FinalAllocations(l, alloc[l]),
         synd[l] = "OPEN",
         alloc' = [alloc EXCEPT ![l] = [p \in Provider |->
                           IF final[p] = None THEN @[p]
                           ELSE [@[p] EXCEPT !.amount = final[p].amount]]],
         synd' = [synd EXCEPT ![l] = "BOUND"], bound' = [bound EXCEPT ![l] = final],
         UNCHANGED <<market, proposed, removed>>,
         MemBind(l, final)
  PROVE  MemHolds' /\ AsProposed'
<1>0. TypeOK /\ HistoryExplainsRows /\ BoundIsExact /\ MemHolds /\ AsProposed
  BY DEF MemInv, SerialInv, IInv, StoredInv
<1> DEFINE old == mem.rows[l]
           Terms1(e) == [id |-> e.id, org |-> e.org, share |-> final[e.org].share,
                         amount |-> final[e.org].amount]
           new == [n \in DOMAIN old |-> Terms1(old[n])]
           H == Holders(alloc[l])
<1>1. UNCHANGED <<listing, interest, commitment, exposure, proposed, removed>>
  BY DEF market
<1>2. mem \in MemState /\ mem.synd = synd
  BY <1>0 DEF MemHolds
<1>3. old \in Seq(AllocationRow) /\ ToSet(old) = StoredOf(alloc[l]) /\ OnePerOrg(old)
      /\ mem.events[l] = Told(l) /\ LiveInterest(l) = interest[l]
  BY <1>0, <1>2, StoredValue DEF MemState, MemHolds, HoldsListing
<1>4. /\ final \in [Provider -> Terms \cup {None}]
      /\ Holders(final) = H
      /\ \A p \in Provider : final[p] # None =>
           alloc[l][p] # None /\ final[p].share = alloc[l][p].share
  <2>1. alloc[l] \in [Provider -> Row \cup {None}]
    BY <1>0 DEF TypeOK
  <2> QED  BY <2>1, FinalAllocationsExact
<1>5. \A q \in H : /\ q \in Provider /\ final[q] # None /\ final[q] \in Terms
                   /\ alloc[l][q] \in Row /\ final[q].share = alloc[l][q].share
  BY <1>0, <1>4 DEF Holders, TypeOK
<1>6. \A n \in DOMAIN old : \E q \in H : old[n] = RowOf(q, alloc[l][q])
  BY <1>3 DEF ToSet, StoredOf
<1>7. \A q \in H : \E n \in DOMAIN old : old[n] = RowOf(q, alloc[l][q])
  BY <1>3 DEF ToSet, StoredOf
<1>8. \A q, x : RowOf(q, x).org = q
  BY DEF RowOf
<1>9. \A n \in DOMAIN old : old[n] \in AllocationRow /\ old[n].org \in H
  <2> HIDE DEF old, H
  <2> QED  BY <1>3, <1>6, <1>8
<1>10. Among(old, {e \in ToSet(old) : final[e.org] # None}) = old
  <2> DEFINE S == {e \in ToSet(old) : final[e.org] # None}
  <2>1. ToSet(old) \subseteq S
    BY <1>5, <1>9 DEF ToSet
  <2> HIDE DEF S, old
  <2>2. Among(old, S) = old
    BY <1>3, <2>1, AmongLaw
  <2> QED  BY <2>2 DEF S
<1> DEFINE events == {Event("BOUND", new[n].org, new[n].share, new[n].amount) : n \in DOMAIN new}
<1>11. mem' = [mem EXCEPT !.rows[l] = new, !.synd[l] = "BOUND",
                          !.events[l] = mem.events[l] \cup events]
  <2>1. mem' = [mem EXCEPT !.rows[l] = new, !.synd[l] = "BOUND", !.events[l] = @ \cup events]
    BY <1>10 DEF MemBind
  <2> HIDE DEF new, events
  <2> QED  BY <1>2, <2>1 DEF MemState
<1>12. /\ DOMAIN new = DOMAIN old /\ new \in Seq(AllocationRow)
       /\ \A n \in DOMAIN old : new[n] = Terms1(old[n])
  <2>1. \A n \in DOMAIN old : Terms1(old[n]) \in AllocationRow
    BY <1>5, <1>9 DEF AllocationRow, Terms
  <2>2. DOMAIN old = 1 .. Len(old) /\ Len(old) \in Nat
    BY <1>3
  <2> HIDE DEF old, Terms1
  <2> QED  BY <2>1, <2>2
<1>13. \A q \in H : alloc'[l][q] = [id |-> alloc[l][q].id, share |-> alloc[l][q].share,
                                     amount |-> final[q].amount]
  <2>1. \A q \in H : alloc'[l][q] = [alloc[l][q] EXCEPT !.amount = final[q].amount]
    BY <1>0, <1>5 DEF TypeOK
  <2> SUFFICES ASSUME NEW q \in H
               PROVE  alloc'[l][q] = [id |-> alloc[l][q].id, share |-> alloc[l][q].share,
                                      amount |-> final[q].amount]
    OBVIOUS
  <2>2. alloc[l][q] \in Row /\ alloc'[l][q] = [alloc[l][q] EXCEPT !.amount = final[q].amount]
    BY <1>5, <2>1
  <2> QED  BY <2>2 DEF Row
<1>14. /\ \A k \in Listing : k # l => alloc'[k] = alloc[k]
       /\ \A q \in Provider : final[q] = None => alloc'[l][q] = None /\ alloc[l][q] = None
  BY <1>0, <1>4 DEF TypeOK, Holders
<1>15. \A q \in H : alloc'[l][q] # None
  <2>1. \A q \in H : alloc'[l][q] \in Row
    BY <1>5, <1>13 DEF Row, Terms
  <2> QED  BY <2>1, NoneAssumption
<1>16. Holders(alloc'[l]) = H
  BY <1>4, <1>14, <1>15 DEF Holders
<1>17. \A q \in H : Terms1(RowOf(q, alloc[l][q])) = RowOf(q, alloc'[l][q])
  <2> SUFFICES ASSUME NEW q \in H PROVE Terms1(RowOf(q, alloc[l][q])) = RowOf(q, alloc'[l][q])
    OBVIOUS
  <2>1. /\ alloc'[l][q].id = alloc[l][q].id /\ alloc'[l][q].share = final[q].share
        /\ alloc'[l][q].amount = final[q].amount
    <3>1. alloc'[l][q] = [id |-> alloc[l][q].id, share |-> alloc[l][q].share,
                          amount |-> final[q].amount]
      BY <1>13
    <3>2. final[q].share = alloc[l][q].share
      BY <1>5
    <3> QED  BY <3>1, <3>2
  <2>2. RowOf(q, alloc[l][q]).id = alloc[l][q].id /\ RowOf(q, alloc[l][q]).org = q
    BY DEF RowOf
  <2> QED  BY <2>1, <2>2 DEF RowOf
<1> HIDE DEF H
<1>18. ToSet(new) = StoredOf(alloc'[l])
  <2>1. ToSet(new) = {new[n] : n \in DOMAIN old}
    BY <1>12 DEF ToSet
  <2>2. StoredOf(alloc'[l]) = {RowOf(q, alloc'[l][q]) : q \in H}
    BY <1>16 DEF StoredOf
  <2>3. \A n \in DOMAIN old : \E q \in H : new[n] = RowOf(q, alloc'[l][q])
    <3> HIDE DEF old, new, Terms1
    <3> QED  BY <1>6, <1>12, <1>17
  <2>4. \A q \in H : \E n \in DOMAIN old : new[n] = RowOf(q, alloc'[l][q])
    <3> HIDE DEF old, new, Terms1
    <3> QED  BY <1>7, <1>12, <1>17
  <2> DEFINE Now(q) == RowOf(q, alloc'[l][q])
  <2> HIDE DEF old, new, Now
  <2>5. \A n \in DOMAIN old : \E q \in H : new[n] = Now(q)
    BY <2>3 DEF Now
  <2>6. \A q \in H : \E n \in DOMAIN old : new[n] = Now(q)
    BY <2>4 DEF Now
  <2>7. StoredOf(alloc'[l]) = {Now(q) : q \in H}
    BY <2>2 DEF Now
  <2> QED  BY <2>1, <2>5, <2>6, <2>7
<1>19. OnePerOrg(new)
  <2>1. \A n \in DOMAIN old : new[n].org = old[n].org
    BY <1>12
  <2> HIDE DEF old, new
  <2> QED  BY <1>3, <1>12, <2>1 DEF OnePerOrg
<1>20. events = ToldBound(final)
  <2>1. \A n \in DOMAIN old : /\ new[n].org = old[n].org
                              /\ new[n].share = final[old[n].org].share
                              /\ new[n].amount = final[old[n].org].amount
    BY <1>12
  <2> DEFINE Ev(q) == Event("BOUND", q, final[q].share, final[q].amount)
  <2>2. events = {Ev(old[n].org) : n \in DOMAIN old}
    <3>1. \A n \in DOMAIN old : Event("BOUND", new[n].org, new[n].share, new[n].amount) = Ev(old[n].org)
      <4> HIDE DEF old, new
      <4> QED  BY <2>1
    <3>2. events = {Event("BOUND", new[n].org, new[n].share, new[n].amount) : n \in DOMAIN old}
      <4> HIDE DEF old, new
      <4> QED  BY <1>12
    <3> HIDE DEF old, new, events, Ev
    <3> QED  BY <3>1, <3>2
  <2>3. ToldBound(final) = {Ev(q) : q \in H}
    BY <1>4 DEF ToldBound
  <2> HIDE DEF old, new, events, Ev
  <2>4. \A q \in H : \E n \in DOMAIN old : old[n].org = q
    <3> SUFFICES ASSUME NEW q \in H PROVE \E n \in DOMAIN old : old[n].org = q
      OBVIOUS
    <3>1. PICK n \in DOMAIN old : old[n] = RowOf(q, alloc[l][q])
      BY <1>7
    <3>2. old[n].org = q
      BY <1>8, <3>1
    <3> QED  BY <3>2
  <2> QED  BY <1>9, <2>2, <2>3, <2>4
<1>21. events \subseteq EventRecord
  <2>1. ASSUME NEW q \in H
        PROVE  Event("BOUND", q, final[q].share, final[q].amount) \in EventRecord
    <3>1. q \in Provider /\ final[q] \in Terms
      BY <1>5 DEF H
    <3> QED  BY <3>1 DEF Event, EventRecord, Terms
  <2>2. Holders(final) = H
    BY <1>4 DEF H
  <2> HIDE DEF events
  <2> QED  BY <1>20, <2>1, <2>2 DEF ToldBound
<1> HIDE DEF old, new, events, Terms1
<1>22. /\ mem'.listing = mem.listing /\ mem'.appetites = mem.appetites
       /\ mem'.commitments = mem.commitments /\ mem'.interests = mem.interests
       /\ mem'.synd = [mem.synd EXCEPT ![l] = "BOUND"]
       /\ mem'.rows = [mem.rows EXCEPT ![l] = new]
       /\ mem'.events = [mem.events EXCEPT ![l] = mem.events[l] \cup events]
  BY <1>2, <1>11 DEF MemState
<1>23. mem' \in MemState
  <2>1. mem.events[l] \cup events \in SUBSET EventRecord /\ "BOUND" \in SyndicationStatus
    BY <1>2, <1>21 DEF MemState, SyndicationStatus
  <2> QED  BY <1>2, <1>11, <1>12, <2>1 DEF MemState
<1>24. bound'[l] = final /\ \A k \in Listing : k # l => bound'[k] = bound[k]
  BY <1>0 DEF TypeOK
<1>25. ToldBound(bound[l]) = {}
  <2>1. Holders(bound[l]) = {}
    BY <1>0 DEF BoundIsExact, NoRows, Holders
  <2> QED  BY <2>1 DEF ToldBound
<1>26. Told(l)' = Told(l) \cup events
  BY <1>1, <1>20, <1>24, <1>25, ToldValue
<1>27. ASSUME NEW k \in Listing, k # l PROVE HoldsListing(k)'
  <2>1. mem'.rows[k] = mem.rows[k] /\ mem'.events[k] = mem.events[k]
    BY <1>2, <1>22, <1>27 DEF MemState
  <2>2. Told(k)' = Told(k)
    BY <1>1, <1>24, <1>27, ToldValue
  <2> QED  BY <1>0, <1>1, <1>14, <1>22, <1>27, <2>1, <2>2, ListingKept
<1>28. HoldsListing(l)'
  <2>1. mem'.rows[l] = new /\ mem'.events[l] = Told(l) \cup events
    BY <1>2, <1>3, <1>22 DEF MemState
  <2>2. LiveInterest(l)' = interest'[l]
    BY <1>1, <1>3, <1>22, LiveValue
  <2>3. Stored(l)' = ToSet(new)
    BY <1>18, StoredValue
  <2> QED  BY <1>19, <1>26, <2>1, <2>2, <2>3 DEF HoldsListing
<1>29. MemHolds'
  BY <1>0, <1>1, <1>22, <1>23, <1>27, <1>28 DEF MemHolds
<1>30. AsProposed'
  <2>1. synd'[l] = "BOUND" /\ \A k \in Listing : k # l => synd'[k] = synd[k]
    BY <1>0 DEF TypeOK
  <2>2. \A j \in RowId : proposed[j] # None => proposed[j].lst \in Listing
    BY <1>0 DEF TypeOK, Proposal
  <2> QED  BY <1>0, <1>1, <1>14, <2>1, <2>2 DEF AsProposed
<1> QED  BY <1>29, <1>30

(* A write of the market, to both. *)
LEMMA MarketHolds ==
  ASSUME MemHolds, AsProposed, UNCHANGED <<synd, alloc, history>>,
         mem' \in MemState,
         mem'.listing = listing', mem'.appetites = exposure', mem'.commitments = commitment',
         mem'.synd = mem.synd, mem'.rows = mem.rows, mem'.events = mem.events,
         \A l \in Listing : LiveOf(mem'.interests[l]) = interest'[l]
  PROVE  MemHolds' /\ AsProposed'
<1>1. UNCHANGED <<synd, alloc, proposed, removed, bound>>
  BY DEF history
<1>2. \A l \in Listing : Stored(l)' = Stored(l) /\ Told(l)' = Told(l)
  BY <1>1, StoredValue, ToldValue
<1>3. \A l \in Listing : LiveInterest(l)' = interest'[l]
  BY LiveValue
<1>4. \A l \in Listing : HoldsListing(l)'
  BY <1>2, <1>3 DEF MemHolds, HoldsListing
<1>5. MemHolds'
  BY <1>1, <1>4 DEF MemHolds
<1>6. AsProposed'
  BY <1>1 DEF AsProposed
<1> QED  BY <1>5, <1>6

(* The providers with a live interest, when one renews or withdraws its own. *)
LEMMA LiveRenewed ==
  ASSUME NEW s \in Seq(InterestRow), NEW p \in Provider
  PROVE  LET t == Append(Among(s, {i \in ToSet(s) : i.org # p}), [org |-> p, withdrawn |-> FALSE])
         IN  t \in Seq(InterestRow) /\ LiveOf(t) = LiveOf(s) \cup {p}
<1> DEFINE S == {i \in ToSet(s) : i.org # p}
           u == Among(s, S)
           e == [org |-> p, withdrawn |-> FALSE]
           t == Append(u, e)
<1>1. u \in Seq(InterestRow) /\ ToSet(u) = S
  <2>1. S \subseteq ToSet(s)
    OBVIOUS
  <2> HIDE DEF S
  <2>2. u \in Seq(InterestRow) /\ ToSet(u) = ToSet(s) \cap S
    BY AmongLaw
  <2> QED  BY <2>1, <2>2
<1>2. e \in InterestRow /\ e.org = p /\ ~ e.withdrawn
  BY DEF InterestRow
<1> HIDE DEF u, e
<1>3. /\ t \in Seq(InterestRow) /\ Len(t) = Len(u) + 1 /\ t[Len(u) + 1] = e
      /\ \A n \in 1 .. Len(u) : t[n] = u[n]
      /\ DOMAIN u = 1 .. Len(u) /\ DOMAIN t = 1 .. Len(u) + 1 /\ Len(u) \in Nat
  BY <1>1, <1>2
<1> HIDE DEF t
<1>4. ToSet(t) = ToSet(u) \cup {e}
  <2>1. \A n \in 1 .. Len(u) + 1 : n \in 1 .. Len(u) \/ n = Len(u) + 1
    BY <1>3
  <2>2. Len(u) + 1 \in 1 .. Len(u) + 1 /\ \A n \in 1 .. Len(u) : n \in 1 .. Len(u) + 1
    BY <1>3
  <2> QED  BY <1>3, <2>1, <2>2 DEF ToSet
<1>5. LiveOf(t) = LiveOf(s) \cup {p}
  BY <1>1, <1>2, <1>4 DEF LiveOf
<1> QED  BY <1>3, <1>5 DEF t, u, e

LEMMA LiveWithdrawn ==
  ASSUME NEW s \in Seq(InterestRow), NEW p \in Provider
  PROVE  LET t == [n \in DOMAIN s |-> IF s[n].org = p THEN [s[n] EXCEPT !.withdrawn = TRUE] ELSE s[n]]
         IN  t \in Seq(InterestRow) /\ LiveOf(t) = LiveOf(s) \ {p}
<1> DEFINE t == [n \in DOMAIN s |-> IF s[n].org = p THEN [s[n] EXCEPT !.withdrawn = TRUE] ELSE s[n]]
<1>1. DOMAIN s = 1 .. Len(s) /\ Len(s) \in Nat /\ \A n \in DOMAIN s : s[n] \in InterestRow
  OBVIOUS
<1>2. \A n \in DOMAIN s :
        /\ t[n] \in InterestRow /\ t[n].org = s[n].org
        /\ t[n].withdrawn = (s[n].withdrawn \/ s[n].org = p)
  BY <1>1 DEF InterestRow
<1>3. DOMAIN t = DOMAIN s
  OBVIOUS
<1>4. t = [n \in 1 .. Len(s) |-> t[n]]
  BY <1>1
<1> HIDE DEF t
<1>5. t \in Seq(InterestRow)
  BY <1>1, <1>2, <1>4
<1>6. LiveOf(t) = LiveOf(s) \ {p}
  <2>1. ToSet(t) = {t[n] : n \in DOMAIN s} /\ ToSet(s) = {s[n] : n \in DOMAIN s}
    BY <1>3 DEF ToSet
  <2>2. ASSUME NEW q \in LiveOf(t) PROVE q \in LiveOf(s) \ {p}
    <3>1. PICK n \in DOMAIN s : ~ t[n].withdrawn /\ q = t[n].org
      BY <2>1, <2>2 DEF LiveOf
    <3>2. ~ s[n].withdrawn /\ s[n].org # p /\ q = s[n].org
      BY <1>2, <3>1
    <3> QED  BY <2>1, <3>2 DEF LiveOf
  <2>3. ASSUME NEW q \in LiveOf(s) \ {p} PROVE q \in LiveOf(t)
    <3>1. PICK n \in DOMAIN s : ~ s[n].withdrawn /\ q = s[n].org
      BY <2>1, <2>3 DEF LiveOf
    <3>2. ~ t[n].withdrawn /\ q = t[n].org
      BY <1>2, <2>3, <3>1
    <3> QED  BY <2>1, <3>2 DEF LiveOf
  <2> QED  BY <2>2, <2>3
<1> QED  BY <1>5, <1>6 DEF t

LEMMA MemExpress ==
  ASSUME MemInv, NEW l \in Listing, NEW p \in Provider, MemExpressInterest(l, p),
         interest' = [interest EXCEPT ![l] = @ \cup {p}],
         UNCHANGED <<listing, commitment, exposure, synd, alloc, history>>
  PROVE  MemHolds' /\ AsProposed'
<1>0. TypeOK /\ MemHolds /\ AsProposed
  BY DEF MemInv, SerialInv, IInv
<1> DEFINE s == mem.interests[l]
           t == Append(Among(s, {i \in ToSet(s) : i.org # p}), [org |-> p, withdrawn |-> FALSE])
<1>1. mem \in MemState /\ s \in Seq(InterestRow)
  BY <1>0 DEF MemHolds, MemState
<1>2. t \in Seq(InterestRow) /\ LiveOf(t) = LiveOf(s) \cup {p}
  <2> HIDE DEF s
  <2> QED  BY <1>1, LiveRenewed
<1>3. mem' = [mem EXCEPT !.interests[l] = t]
  <2>1. mem' = [mem EXCEPT !.interests[l] =
                  Append(Among(@, {i \in ToSet(s) : i.org # p}), [org |-> p, withdrawn |-> FALSE])]
    BY DEF MemExpressInterest
  <2> QED  BY <1>1, <2>1 DEF MemState
<1> HIDE DEF t
<1>4. /\ mem' \in MemState
      /\ mem'.listing = mem.listing /\ mem'.appetites = mem.appetites
      /\ mem'.commitments = mem.commitments /\ mem'.synd = mem.synd
      /\ mem'.rows = mem.rows /\ mem'.events = mem.events
      /\ mem'.interests[l] = t
      /\ \A k \in Listing : k # l => mem'.interests[k] = mem.interests[k]
  BY <1>1, <1>2, <1>3 DEF MemState
<1>5. \A k \in Listing : LiveOf(mem.interests[k]) = interest[k]
  BY <1>0, LiveValue DEF MemHolds, HoldsListing
<1>6. \A k \in Listing : LiveOf(mem'.interests[k]) = interest'[k]
  BY <1>0, <1>2, <1>4, <1>5 DEF TypeOK
<1> QED  BY <1>0, <1>4, <1>6, MarketHolds DEF MemHolds

LEMMA MemWithdrawn ==
  ASSUME MemInv, NEW l \in Listing, NEW p \in Provider, MemWithdrawInterest(l, p),
         WithdrawInterest(p, l)
  PROVE  MemHolds' /\ AsProposed'
<1>0. TypeOK /\ MemHolds /\ AsProposed
  BY DEF MemInv, SerialInv, IInv
<1>w. /\ interest' = [interest EXCEPT ![l] = @ \ {p}]
      /\ UNCHANGED <<listing, commitment, exposure, synd, alloc, history>>
  BY DEF WithdrawInterest
<1> DEFINE s == mem.interests[l]
           t == [n \in DOMAIN s |-> IF s[n].org = p THEN [s[n] EXCEPT !.withdrawn = TRUE] ELSE s[n]]
<1>1. mem \in MemState /\ s \in Seq(InterestRow)
  BY <1>0 DEF MemHolds, MemState
<1>2. t \in Seq(InterestRow) /\ LiveOf(t) = LiveOf(s) \ {p}
  <2> HIDE DEF s
  <2> QED  BY <1>1, LiveWithdrawn
<1>3. mem' = [mem EXCEPT !.interests[l] = t]
  <2>1. mem' = [mem EXCEPT !.interests[l] =
            [n \in DOMAIN @ |-> IF @[n].org = p THEN [@[n] EXCEPT !.withdrawn = TRUE] ELSE @[n]]]
    BY DEF MemWithdrawInterest
  <2> QED  BY <1>1, <2>1 DEF MemState
<1> HIDE DEF t
<1>4. /\ mem' \in MemState
      /\ mem'.listing = mem.listing /\ mem'.appetites = mem.appetites
      /\ mem'.commitments = mem.commitments /\ mem'.synd = mem.synd
      /\ mem'.rows = mem.rows /\ mem'.events = mem.events
      /\ mem'.interests[l] = t
      /\ \A k \in Listing : k # l => mem'.interests[k] = mem.interests[k]
  BY <1>1, <1>2, <1>3 DEF MemState
<1>5. \A k \in Listing : LiveOf(mem.interests[k]) = interest[k]
  BY <1>0, LiveValue DEF MemHolds, HoldsListing
<1>6. \A k \in Listing : LiveOf(mem'.interests[k]) = interest'[k]
  BY <1>0, <1>2, <1>4, <1>5, <1>w DEF TypeOK
<1> QED  BY <1>0, <1>4, <1>6, <1>w, MarketHolds DEF MemHolds

LEMMA MemListing ==
  ASSUME MemInv, NEW l \in Listing, NEW status \in ListingStatus, MemSetListingStatus(l, status),
         listing' = [listing EXCEPT ![l] = status],
         UNCHANGED <<interest, commitment, exposure, synd, alloc, history>>
  PROVE  MemHolds' /\ AsProposed'
<1>0. TypeOK /\ MemHolds /\ AsProposed
  BY DEF MemInv, SerialInv, IInv
<1>1. mem \in MemState
  BY <1>0 DEF MemHolds
<1>2. mem' = [mem EXCEPT !.listing[l] = status]
  BY DEF MemSetListingStatus
<1>3. /\ mem' \in MemState
      /\ mem'.listing = [mem.listing EXCEPT ![l] = status] /\ mem'.appetites = mem.appetites
      /\ mem'.commitments = mem.commitments /\ mem'.synd = mem.synd
      /\ mem'.rows = mem.rows /\ mem'.events = mem.events /\ mem'.interests = mem.interests
  BY <1>1, <1>2 DEF MemState
<1>4. \A k \in Listing : LiveOf(mem'.interests[k]) = interest'[k]
  BY <1>0, <1>3, LiveValue DEF MemHolds, HoldsListing
<1>5. mem.listing = listing
  BY <1>0 DEF MemHolds
<1> QED  BY <1>0, <1>3, <1>4, <1>5, MarketHolds DEF MemHolds

LEMMA MemProfile ==
  ASSUME MemInv, NEW p \in Provider, NEW n \in Nat,
         \/ MemUpsertAppetite(p, n) /\ SetAppetite(p, n)
         \/ MemUpsertCommitment(p, n) /\ SetCommitment(p, n)
  PROVE  MemHolds' /\ AsProposed'
<1>0. TypeOK /\ MemHolds /\ AsProposed
  BY DEF MemInv, SerialInv, IInv
<1>1. mem \in MemState /\ mem.appetites = exposure /\ mem.commitments = commitment
      /\ mem.listing = listing
  BY <1>0 DEF MemHolds
<1>2. UNCHANGED <<listing, interest, synd, alloc, history>>
  BY DEF SetAppetite, SetCommitment
<1>3. \/ /\ mem' = [mem EXCEPT !.appetites[p] = n]
         /\ exposure' = [exposure EXCEPT ![p] = n] /\ commitment' = commitment
      \/ /\ mem' = [mem EXCEPT !.commitments[p] = n]
         /\ commitment' = [commitment EXCEPT ![p] = n] /\ exposure' = exposure
  BY DEF SetAppetite, SetCommitment, MemUpsertAppetite, MemUpsertCommitment
<1>4. /\ mem' \in MemState
      /\ mem'.listing = mem.listing /\ mem'.synd = mem.synd
      /\ mem'.rows = mem.rows /\ mem'.events = mem.events /\ mem'.interests = mem.interests
      /\ mem'.appetites = exposure' /\ mem'.commitments = commitment'
  <2>1. CASE /\ mem' = [mem EXCEPT !.appetites[p] = n]
             /\ exposure' = [exposure EXCEPT ![p] = n] /\ commitment' = commitment
    BY <1>1, <2>1 DEF MemState
  <2>2. CASE /\ mem' = [mem EXCEPT !.commitments[p] = n]
             /\ commitment' = [commitment EXCEPT ![p] = n] /\ exposure' = exposure
    BY <1>1, <2>2 DEF MemState
  <2> QED  BY <1>3, <2>1, <2>2
<1>5. \A k \in Listing : LiveOf(mem'.interests[k]) = interest'[k]
  BY <1>0, <1>2, <1>4, LiveValue DEF MemHolds, HoldsListing
<1> QED  BY <1>0, <1>1, <1>2, <1>4, <1>5, MarketHolds DEF MemHolds

-----------------------------------------------------------------------------
(* Every step. *)

LEMMA WriteBothHolds ==
  ASSUME MemInv, NEW r \in Request, WriteBoth(r)
  PROVE  MemHolds' /\ AsProposed'
<1>0. TypeOK /\ RequestOK(req[r]) /\ KnowsMarket(req[r]) /\ KnowsRows(req[r])
  BY DEF MemInv, SerialInv, IInv, TypeOK
<1> DEFINE l == req[r].lst
           p == req[r].org
<1>1. CASE OpenCreate(r) /\ synd[l] = "NONE" /\ MemCreate(l)
  <2>1. l \in Listing
    BY <1>0, <1>1 DEF OpenCreate, At, RequestOK
  <2>2. synd' = [synd EXCEPT ![l] = "OPEN"] /\ UNCHANGED <<market, alloc, history>>
    BY <1>1 DEF OpenCreate
  <2> HIDE DEF l
  <2> QED  BY <1>1, <2>1, <2>2, MemOpen
<1>2. CASE /\ ProposeInsert(r)
           /\ MemAddAllocation(l, [id |-> IF alloc'[l][p] = None THEN None ELSE alloc'[l][p].id,
                             org |-> p, share |-> req[r].share,
                             amount |-> Indicative(l, req[r].share)])
  <2> DEFINE s == req[r].share
             a == Indicative(l, s)
  <2>1. /\ l \in Listing /\ p \in Provider /\ s \in Shares /\ req[r].pc = "propose.insert"
    BY <1>0, <1>2 DEF ProposeInsert, At, RequestOK, ProviderSteps, ProposalSteps
  <2>2. s \in 1 .. FullAllocation /\ a \in Nat
    <3>1. s \in 1 .. FullAllocation /\ s \in 0 .. FullAllocation
      <4> HIDE DEF l, p, s
      <4>1. s \in 1 .. FullAllocation /\ FullAllocation \in Nat
        BY <2>1, ConstantsAssumption
      <4> QED  BY <4>1
    <3> HIDE DEF l, s
    <3> QED  BY <2>1, <3>1, IndicativeNat
  <2>3. synd[l] = "OPEN" /\ alloc[l][p] = None
    BY <1>0, <2>1 DEF KnowsMarket, FitsSyndication
  <2>4. PICK i \in Unused :
          /\ alloc' = [alloc EXCEPT ![l][p] = [id |-> i, share |-> s, amount |-> a]]
          /\ proposed' = [proposed EXCEPT ![i] = [lst |-> l, org |-> p, share |-> s, amount |-> a]]
    BY <1>2, <2>3 DEF ProposeInsert
  <2>5. UNCHANGED <<market, synd, removed, bound>>
    BY <1>2 DEF ProposeInsert
  <2> HIDE DEF l, p, s, a
  <2>6. alloc'[l][p] = [id |-> i, share |-> s, amount |-> a]
    <3> DEFINE row == [id |-> i, share |-> s, amount |-> a]
    <3>1. alloc' = [alloc EXCEPT ![l][p] = row]
      BY <2>4
    <3> HIDE DEF row
    <3>2. alloc'[l][p] = row
      <4>1. alloc \in [Listing -> [Provider -> Row \cup {None}]]
        BY <1>0 DEF TypeOK
      <4> QED  BY <2>1, <3>1, <4>1
    <3> QED  BY <3>2 DEF row
  <2>7. [id |-> i, share |-> s, amount |-> a] # None
    <3>1. [id |-> i, share |-> s, amount |-> a] \in Row
      BY <2>2 DEF Row, Unused
    <3> QED  BY <3>1, NoneAssumption
  <2>8. MemAddAllocation(l, [id |-> i, org |-> p, share |-> s, amount |-> a])
    <3>1. (IF alloc'[l][p] = None THEN None ELSE alloc'[l][p].id) = i
      BY <2>6, <2>7
    <3> QED  BY <1>2, <3>1 DEF l, p, s, a
  <2> QED  BY <2>1, <2>2, <2>3, <2>4, <2>5, <2>8, MemPropose
<1>3. CASE WithdrawDelete(r) /\ MemRemoveAllocation(l, p)
  <2>1. l \in Listing /\ p \in Provider /\ req[r].pc = "withdraw.delete"
    BY <1>0, <1>3 DEF WithdrawDelete, At, RequestOK, ProviderSteps
  <2>2. synd[l] = "OPEN" /\ alloc[l][p] # None /\ alloc[l][p].id = req[r].row
    BY <1>0, <2>1 DEF KnowsRows
  <2>3. Deletable(l, p, req[r].row)
    BY <2>2 DEF Deletable
  <2>4. /\ alloc' = [alloc EXCEPT ![l][p] = None] /\ removed' = removed \cup {req[r].row}
        /\ UNCHANGED <<market, synd, proposed, bound>>
    BY <1>3, <2>3 DEF WithdrawDelete
  <2> HIDE DEF l, p
  <2> QED  BY <1>3, <2>1, <2>2, <2>4, MemWithdraw
<1>4. CASE BindCommit(r) /\ MemBind(l, req[r].final)
  <2> DEFINE final == req[r].final
  <2>1. l \in Listing /\ req[r].pc = "bind.commit"
    BY <1>0, <1>4 DEF BindCommit, At, RequestOK
  <2>2. /\ synd[l] = "OPEN" /\ final \in FinalAllocations(l, alloc[l])
        /\ \A q \in Provider :
             req[r].found[q] = IF alloc[l][q] = None THEN None ELSE alloc[l][q].id
    BY <1>0, <2>1 DEF KnowsRows, KnowsMarket
  <2>3. Updatable(l, final, req[r].found)
    <3>1. Holders(final) = Holders(alloc[l]) /\ alloc[l] \in [Provider -> Row \cup {None}]
      <4>1. alloc[l] \in [Provider -> Row \cup {None}]
        BY <1>0, <2>1 DEF TypeOK
      <4> HIDE DEF l, final
      <4> QED  BY <2>1, <2>2, <4>1, FinalAllocationsExact
    <3>2. ASSUME NEW q \in Holders(final)
          PROVE  /\ q \in Provider /\ alloc[l][q] # None /\ alloc[l][q].id \in RowId
                 /\ req[r].found[q] = alloc[l][q].id
      <4>1. q \in Provider /\ alloc[l][q] # None
        BY <3>1, <3>2 DEF Holders
      <4>2. alloc[l][q] \in Row
        BY <3>1, <4>1
      <4> QED  BY <2>2, <4>1, <4>2 DEF Row
    <3>3. \A i \in RowId : i # None
      BY ConstantsAssumption
    <3> HIDE DEF l, final
    <3> QED  BY <2>2, <3>2, <3>3 DEF Updatable
  <2>4. /\ alloc' = [alloc EXCEPT ![l] = [q \in Provider |->
                           IF final[q] = None THEN @[q]
                           ELSE [@[q] EXCEPT !.amount = final[q].amount]]]
        /\ synd' = [synd EXCEPT ![l] = "BOUND"] /\ bound' = [bound EXCEPT ![l] = final]
        /\ UNCHANGED <<market, proposed, removed>>
    BY <1>4, <2>3 DEF BindCommit
  <2> HIDE DEF l, final
  <2>5. MemBind(l, final)
    BY <1>4 DEF l, final
  <2> QED  BY <2>1, <2>2, <2>4, <2>5, MemBound
<1>5. CASE BindMatch(r) /\ MemSetListingStatus(l, "MATCHED")
  <2>1. l \in Listing
    BY <1>0, <1>5 DEF BindMatch, At, RequestOK
  <2>2. /\ listing' = [listing EXCEPT ![l] = "MATCHED"]
        /\ UNCHANGED <<interest, commitment, exposure, synd, alloc, history>>
    BY <1>5 DEF BindMatch
  <2> HIDE DEF l
  <2> QED  BY <1>5, <2>1, <2>2, MemListing, "MATCHED" \in ListingStatus DEF ListingStatus
<1>6. CASE InterestUpsert(r) /\ MemExpressInterest(l, p)
  <2>1. l \in Listing /\ p \in Provider
    BY <1>0, <1>6 DEF InterestUpsert, At, RequestOK, ProviderSteps
  <2>2. /\ interest' = [interest EXCEPT ![l] = @ \cup {p}]
        /\ UNCHANGED <<listing, commitment, exposure, synd, alloc, history>>
    BY <1>6 DEF InterestUpsert
  <2> HIDE DEF l, p
  <2> QED  BY <1>6, <2>1, <2>2, MemExpress
<1> QED  BY <1>1, <1>2, <1>3, <1>4, <1>5, <1>6 DEF WriteBoth

LEMMA WriteDirectlyHolds ==
  ASSUME MemInv, WriteDirectly
  PROVE  MemHolds' /\ AsProposed'
<1>1. ASSUME NEW l \in Listing, WithdrawListing(l), MemSetListingStatus(l, "WITHDRAWN")
      PROVE  MemHolds' /\ AsProposed'
  <2>1. /\ listing' = [listing EXCEPT ![l] = "WITHDRAWN"] /\ "WITHDRAWN" \in ListingStatus
        /\ UNCHANGED <<interest, commitment, exposure, synd, alloc, history>>
    BY <1>1 DEF WithdrawListing, ListingStatus
  <2> QED  BY <1>1, <2>1, MemListing
<1>2. ASSUME NEW p \in Provider, NEW n \in Exposures \cup Ceilings,
             \/ MemUpsertAppetite(p, n) /\ SetAppetite(p, n)
             \/ MemUpsertCommitment(p, n) /\ SetCommitment(p, n)
      PROVE  MemHolds' /\ AsProposed'
  <2>1. n \in Nat
    BY ConstantsAssumption
  <2> QED  BY <1>2, <2>1, MemProfile
<1> QED  BY <1>1, <1>2, MemWithdrawn DEF WriteDirectly

LEMMA MemInitInv == Init /\ MemInit => MemInv
<1>1. Init => \A r \in Request : KnowsRows(req[r])
  BY DEF Init, Idle, KnowsRows
<1> QED  BY <1>1, InitSerial, MemInitHolds DEF MemInv

LEMMA MemStep == MemInv /\ [MemNext]_memVars => MemInv'
<1> SUFFICES ASSUME MemInv, [MemNext]_memVars PROVE MemInv'
  OBVIOUS
<1>1. SerialInv'
  BY NextSerial DEF MemInv
<1>2. CASE UNCHANGED memVars
  <2>1. UNCHANGED <<mem, market, synd, alloc, history, req>>
    BY <1>2 DEF memVars, vars, market, history
  <2>2. MemHolds' /\ AsProposed'
    BY <2>1, HoldsOn DEF MemInv
  <2>3. \A r \in Request : KnowsRows(req[r])'
    BY <2>1 DEF MemInv, KnowsRows
  <2> QED  BY <1>1, <2>2, <2>3 DEF MemInv
<1>3. CASE Quiet /\ WriteDirectly
  <2>1. MemHolds' /\ AsProposed'
    BY <1>3, WriteDirectlyHolds
  <2>2. UNCHANGED req
    BY <1>3 DEF WriteDirectly, WithdrawListing, WithdrawInterest, SetAppetite, SetCommitment
  <2>3. \A r \in Request : KnowsRows(req[r])'
    BY <1>3, <2>2, KnowsNoRows DEF Quiet, At
  <2> QED  BY <1>1, <2>1, <2>3 DEF MemInv
<1>4. ASSUME NEW r \in Request, \A s \in Request \ {r} : At(s, "idle"), WriteBoth(r)
      PROVE  MemInv'
  <2>1. MemHolds' /\ AsProposed'
    BY <1>4, WriteBothHolds
  <2>2. /\ \A s \in Request : s # r => req'[s] = req[s]
        /\ KnowsRows(req[r])'
    BY <1>4, WritesMove DEF WriteBoth
  <2>3. \A s \in Request : KnowsRows(req[s])'
    BY <1>4, <2>2, OthersKnowRows DEF At
  <2> QED  BY <1>1, <2>1, <2>3 DEF MemInv
<1>5. ASSUME NEW r \in Request, \A s \in Request \ {r} : At(s, "idle"), ReadOnly(r)
      PROVE  MemInv'
  <2>1. /\ Arrive(r) \/ Step(r)
        /\ ~ req[r].pc \in {"propose.insert", "withdraw.delete", "bind.commit", "bind.match",
                            "interest.upsert"}
        /\ At(r, "open.create") => synd[req[r].lst] # "NONE"
        /\ UNCHANGED mem
    BY <1>5 DEF ReadOnly
  <2>2. /\ UNCHANGED <<market, synd, alloc, history>>
        /\ \A s \in Request : s # r => req'[s] = req[s]
        /\ KnowsRows(req[r])'
    BY <2>1, ReadsRows
  <2>3. MemHolds' /\ AsProposed'
    BY <2>1, <2>2, HoldsOn DEF MemInv
  <2>4. \A s \in Request : KnowsRows(req[s])'
    BY <1>5, <2>2, OthersKnowRows DEF At
  <2> QED  BY <1>1, <2>3, <2>4 DEF MemInv
<1> QED  BY <1>2, <1>3, <1>4, <1>5 DEF MemNext

(* What the tests see is what production does, for every number of         *)
(* listings, providers and proposals: as long as requests come one at a    *)
(* time, the in-memory repositories hold the rows, the events, the         *)
(* interests and the statuses of the database.                             *)
THEOREM SyndicationMemory == MemSpec => []MemoryAgrees
<1>1. MemInv => MemoryAgrees
  BY HoldsAgrees DEF MemInv, SerialInv, IInv
<1> QED  BY MemInitInv, MemStep, <1>1, PTL DEF MemSpec
=============================================================================

------------------------------ MODULE MCClaims ------------------------------
(* Values of the constants of Claims for TLC. *)
EXTENDS Claims, TLC

CONSTANTS
  Holder, Late,  \* two providers
  MCStatus       \* how far the claims have got at the start

MCProvider == {Holder, Late}
MCCapacity == [l \in Listing |-> 3]

(* One provider with the full share, or two that split it. *)
MCTerms(l) ==
  {[Nobody EXCEPT ![Holder] = [share |-> FullAllocation, amount |-> Capacity[l]]],
   [p \in Provider |-> [share |-> 1, amount |-> IF p = Holder THEN 2 ELSE 1]]}
MCShares(terms) == [p \in Provider |-> IF terms[p] = None THEN None ELSE terms[p].share]

(* A syndication that is fully proposed, OPEN or BOUND, and claims that    *)
(* have been verified: states that Spec reaches.                           *)
MCVerified ==
  {[status |-> status, lst |-> l, loss |-> None, review |-> None, decision |-> None,
    evidence |-> TRUE] : status \in MCStatus, l \in Listing}

MCInitWith(rows) ==
  /\ \E terms \in [Listing -> UNION {MCTerms(l) : l \in Listing}] :
       /\ synd \in [Listing -> {"OPEN", "BOUND"}]
       /\ holding = [l \in Listing |-> MCShares(terms[l])]
       /\ bound = [l \in Listing |-> IF synd[l] = "OPEN" THEN Nobody ELSE terms[l]]
  /\ claim \in [Claim -> rows]
  /\ payouts = [c \in Claim |-> Nobody]
  /\ audit = {}
  /\ req = [r \in Request |-> Idle]

MCInit == MCInitWith(MCVerified)

(* Without Crash, which frees a slot and changes nothing else: what a      *)
(* handler that dies leaves behind, one that is not scheduled again leaves *)
(* behind too.                                                             *)
MCSpec == Init /\ [][(\E r \in Request : Arrive(r) \/ Step(r)) \/ SyndicationNext]_vars

MCSymmetry == Permutations(Request) \cup Permutations(Claim)
=============================================================================

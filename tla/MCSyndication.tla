--------------------------- MODULE MCSyndication ---------------------------
(* Values of the constants of Syndication for TLC. *)
EXTENDS Syndication, TLC

(* Six minor units in four parts: 1/4 and 3/4 of it are not whole. *)
MCCapacity == [l \in Listing |-> 6]

(* A market that is set up, a state Spec reaches: every listing has an open *)
(* syndication, every provider has declared interest and a commitment.     *)
MCInit ==
  /\ listing = [l \in Listing |-> "OPEN"]
  /\ interest = [l \in Listing |-> Provider]
  /\ commitment \in [Provider -> Ceilings]
  /\ exposure = [p \in Provider |-> None]
  /\ synd = [l \in Listing |-> "OPEN"]
  /\ alloc = [l \in Listing |-> NoRows]
  /\ proposed = [i \in RowId |-> None]
  /\ removed = {}
  /\ bound = [l \in Listing |-> NoRows]
  /\ audit = {Entry([Idle EXCEPT !.lst = l], "open") : l \in Listing}
  /\ req = [r \in Request |-> Idle]

MCSpec == MCInit /\ [][Next]_vars

(* Row ids that are numbers and are given out in order.  Ids are only      *)
(* compared, so this leaves out nothing but renamings, and unlike          *)
(* SYMMETRY it may be used to check a liveness property.                   *)
InOrder ==
  \A i, j \in RowId :
    (i < j /\ proposed'[j] # None) => proposed'[i] # None
MCFairSpec ==
  /\ MCInit
  /\ [][Next /\ InOrder]_vars
  /\ \A r \in Request : WF_vars(Step(r))

(* Request slots and row ids are interchangeable. *)
MCSymmetry == Permutations(Request) \cup Permutations(RowId)
=============================================================================

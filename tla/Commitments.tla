---------------------------- MODULE Commitments ----------------------------
(***************************************************************************)
(* What syndication promises to the components that rely on it: which      *)
(* syndications are binding, who holds a share in them, and the terms each *)
(* was bound at.  Syndication.tla implements this specification; Claims    *)
(* reads its variables.                                                    *)
(***************************************************************************)
EXTENDS Money

CONSTANTS
  Listing,         \* the listings, each with at most one syndication
  Provider,        \* the capital providers
  FullAllocation,  \* FULL_ALLOCATION_BPS
  Shares,          \* the shares providers propose
  Capacity,        \* the capacity of each listing
  None             \* the absence of a value

ASSUME CommitmentsAssumption ==
  /\ FullAllocation \in Nat \ {0}
  /\ Shares \subseteq 1 .. FullAllocation
  /\ Capacity \in [Listing -> Nat \ {0}]
  /\ None \notin Nat

VARIABLES
  synd,     \* the status of the syndication of each listing
  holding,  \* the share each provider has a row for
  bound     \* the terms each provider was bound at

promise == <<synd, holding, bound>>

Status == {"NONE", "OPEN", "BOUND"}
BoundTerms(l) == [share : 1 .. FullAllocation, amount : 0 .. Capacity[l]]
Nobody == [p \in Provider |-> None]

Having(rows) == {p \in Provider : rows[p] # None}
Total(terms) == SumOver([p \in Having(terms) |-> terms[p].amount], Having(terms))

PromiseInit ==
  /\ synd = [l \in Listing |-> "NONE"]
  /\ holding = [l \in Listing |-> Nobody]
  /\ bound = [l \in Listing |-> Nobody]

Open(l) ==
  /\ synd[l] = "NONE"
  /\ synd' = [synd EXCEPT ![l] = "OPEN"]
  /\ UNCHANGED <<holding, bound>>

(* A share may be taken as long as there is a syndication, a BOUND one     *)
(* included: nothing refuses a late row.                                   *)
Propose(l, p, s) ==
  /\ synd[l] # "NONE"
  /\ holding[l][p] = None
  /\ holding' = [holding EXCEPT ![l][p] = s]
  /\ UNCHANGED <<synd, bound>>

(* A share is given back only before the syndication is BOUND. *)
Withdraw(l, p) ==
  /\ synd[l] = "OPEN"
  /\ holding[l][p] # None
  /\ holding' = [holding EXCEPT ![l][p] = None]
  /\ UNCHANGED <<synd, bound>>

(* Binding happens once, to terms that sum to the capacity exactly and     *)
(* name only providers that hold a share.                                  *)
Bind(l, terms) ==
  /\ synd[l] = "OPEN"
  /\ Having(terms) # {}
  /\ Having(terms) \subseteq Having(holding[l])
  /\ Total(terms) = Capacity[l]
  /\ synd' = [synd EXCEPT ![l] = "BOUND"]
  /\ bound' = [bound EXCEPT ![l] = terms]
  /\ UNCHANGED holding

PromiseNext ==
  \E l \in Listing :
    \/ Open(l)
    \/ \E p \in Provider :
         \/ \E s \in Shares : Propose(l, p, s)
         \/ Withdraw(l, p)
    \/ \E terms \in [Provider -> BoundTerms(l) \cup {None}] : Bind(l, terms)

PromiseSpec == PromiseInit /\ [][PromiseNext]_promise
=============================================================================

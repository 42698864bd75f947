-------------------------- MODULE MCClaimsInMemory --------------------------
(* Values of the constants of ClaimsInMemory for TLC. *)
EXTENDS MCClaims, ClaimsInMemory

(* As MCInit, with claims that are not yet reported. *)
MCMemInit ==
  /\ MCInitWith(MCVerified \cup {None})
  /\ mem = [claims |-> claim, payouts |-> [c \in Claim |-> {}]]

(* Syndications are bound while claims are handled, at terms as at the      *)
(* start; who has a share of which syndication stays as it is.              *)
MarketBound ==
  /\ UNCHANGED holding
  /\ \A l \in Listing : bound'[l] \in MCTerms(l) \cup {bound[l]}

MCMemSpec ==
  /\ MCMemInit
  /\ [][MemNext /\ MarketBound]_memVars
  /\ \A r \in Request : WF_memVars(Step(r) /\ (WriteBoth(r) \/ ReadOnly(r)))
=============================================================================

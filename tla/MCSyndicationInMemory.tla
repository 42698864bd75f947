----------------------- MODULE MCSyndicationInMemory -----------------------
(* Values of the constants of SyndicationInMemory for TLC. *)
EXTENDS MCSyndication, SyndicationInMemory

CONSTANTS Late, LateListing   \* the provider and the listing whose market entries change

(* The market entries of Late and LateListing change at any time, what Late *)
(* has declared only before the first proposal.                            *)
MarketBound ==
  /\ \A p \in Provider, l \in Listing :
       <<p, l>> # <<Late, LateListing>> => (p \in interest'[l] <=> p \in interest[l])
  /\ \A l \in Listing \ {LateListing} : listing'[l] = "WITHDRAWN" => listing[l] = "WITHDRAWN"
  /\ \A p \in Provider :
       (commitment'[p] # commitment[p] \/ exposure'[p] # exposure[p]) =>
          p = Late /\ \A i \in RowId : proposed[i] = None

(* A market in which every provider has declared interest and a commitment, *)
(* the providers whose entries stay the same the highest one.              *)
MCMemInit ==
  /\ MCInit
  /\ \A p \in Provider \ {Late}, c \in Ceilings : c <= commitment[p]
  /\ mem = [listing     |-> listing,
            interests   |-> [l \in Listing |-> SetToSeq({[org |-> p, withdrawn |-> FALSE] : p \in interest[l]})],
            appetites   |-> exposure,
            commitments |-> commitment,
            synd        |-> synd,
            rows        |-> [l \in Listing |-> <<>>],
            events      |-> [l \in Listing |-> {}]]

MCMemSpec == MCMemInit /\ [][MemNext /\ MarketBound]_memVars
=============================================================================

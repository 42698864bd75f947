---------------------------- MODULE RiskQueries ----------------------------
(***************************************************************************)
(* RiskGraph.traverse and the seven questions of queries.ts, as functions  *)
(* of the edges E of a loaded graph and of the types of its nodes.  A      *)
(* query has options: a bound on the depth and whether edges that an AI    *)
(* model inferred are left out of traversals.                              *)
(***************************************************************************)
EXTENDS Ontology

Options == [maxDepth : Nat, verifiedOnly : BOOLEAN]

(* scopeFrom of the controller: 8 when the caller gives no number or zero, *)
(* at most 12; a negative bound takes no step.                             *)
ScopeDepth(n) == IF n = 0 THEN 8 ELSE IF n > 12 THEN 12 ELSE IF n < 0 THEN 0 ELSE n

Turned(e) == [e EXCEPT !.from = e.to, !.to = e.from]

(* The edges a DEPENDS_ON traversal follows, turned around when it is IN. *)
Followed(E, dir, opt) ==
  LET D == {e \in E : e.type = "DEPENDS_ON" /\ ~ (opt.verifiedOnly /\ e.inferred)} IN
  IF dir = "OUT" THEN D ELSE {Turned(e) : e \in D}

(* The nodes within a number of steps. *)
Within(D, start) ==
  LET near[d \in Nat] ==
        IF d = 0 THEN start
        ELSE near[d - 1] \cup {e.to : e \in {f \in D : f.from \in near[d - 1]}}
  IN  near

(* traverse: each node reached, with the level at which it is found. *)
Traverse(E, start, dir, opt) ==
  LET D == Followed(E, dir, opt)
      near == Within(D, start)
  IN  [n \in near[opt.maxDepth] |->
         CHOOSE d \in 0 .. opt.maxDepth : n \in near[d] /\ (d > 0 => n \notin near[d - 1])]

From(E, n, type) == {e.to : e \in {f \in E : f.from = n /\ f.type = type}}
To(E, n, type) == {e.from : e \in {f \in E : f.to = n /\ f.type = type}}

(* Q1: what the entity owns, and what that depends on. *)
WhatCanFail(E, entity, opt) == DOMAIN Traverse(E, From(E, entity, "OWNS"), "OUT", opt)

Others(reached, asset) == [n \in DOMAIN reached \ {asset} |-> reached[n]]

(* Q2 and its reverse. *)
DependenciesOf(E, asset, opt) == Others(Traverse(E, {asset}, "OUT", opt), asset)
DependentsOf(E, asset, opt) == Others(Traverse(E, {asset}, "IN", opt), asset)

(* Mutant of ExposedEntities: only owners of the exposed asset itself. *)
ExposedEntitiesNear(E, typeOf, risk, opt) ==
  LET exposed == To(E, risk, "EXPOSED_TO") IN
  {n \in exposed : typeOf[n] = "ENTITY"}
    \cup UNION {To(E, a, "OWNS") : a \in {n \in exposed : typeOf[n] = "ASSET"}}

(* Q3: exposed directly, or owner of an asset that depends on an exposed one. *)
ExposedEntities(E, typeOf, risk, opt) ==
  LET exposed == To(E, risk, "EXPOSED_TO")
      hit(a) == DOMAIN Traverse(E, {a}, "IN", opt)
  IN  {n \in exposed : typeOf[n] = "ENTITY"}
        \cup UNION {UNION {To(E, b, "OWNS") : b \in hit(a)} :
                      a \in {n \in exposed : typeOf[n] = "ASSET"}}

(* Q4: the events a risk may cause, with the losses those may cause. *)
PotentialLosses(E, typeOf, risk, opt) ==
  LET V == {e \in E : e.type = "MAY_CAUSE" /\ ~ (opt.verifiedOnly /\ e.inferred)} IN
  {path \in From(V, risk, "MAY_CAUSE") \X {e.to : e \in V} :
     /\ typeOf[path[1]] = "EVENT" /\ typeOf[path[2]] = "LOSS"
     /\ path[2] \in From(V, path[1], "MAY_CAUSE")}

(* Q5 *)
CoveringPolicies(E, typeOf, risk) ==
  {n \in To(E, risk, "COVERS") : typeOf[n] \in {"POLICY", "COVERAGE"}}

(* Q6 *)
CapitalBearingRisk(E, typeOf, risk) ==
  {[syndicate |-> s,
    capital |-> {n \in To(E, s, "SUPPORTS") : typeOf[n] = "CAPITAL"},
    protection |-> To(E, s, "PROTECTS")] :
     s \in {n \in To(E, risk, "ASSUMES") : typeOf[n] = "SYNDICATE"}}

Shared(E, subject, candidate, opt) ==
  WhatCanFail(E, candidate, opt) \cap WhatCanFail(E, subject, opt)

(* Q7: the other entities that share something that can fail. *)
CorrelatedEntities(E, entities, subject, opt) ==
  LET found == {c \in entities \ {subject} : Shared(E, subject, c, opt) # {}} IN
  [c \in found |-> Shared(E, subject, c, opt)]

-----------------------------------------------------------------------------
(* What a query must not depend on: the properties of RiskGraph's run are  *)
(* these, of the graph an organisation's queries are answered on.          *)

Assets(N, typeOf) == {n \in N : typeOf[n] = "ASSET"}
Entities(N, typeOf) == {n \in N : typeOf[n] = "ENTITY"}
Risks(N, typeOf) == {n \in N : typeOf[n] = "RISK"}

(* a depends on b at a depth exactly when b has the dependent a at it. *)
Dual(E, A, opt) ==
  \A a \in A, b \in A :
    LET out == DependenciesOf(E, a, opt)  in == DependentsOf(E, b, opt) IN
    /\ b \in DOMAIN out <=> a \in DOMAIN in
    /\ b \in DOMAIN out => out[b] = in[a]

(* With a bound that a simple path cannot exceed, a traversal finds what   *)
(* the search of addEdge finds.                                            *)
Agrees(E, A, opt) ==
  \A a \in A, b \in A :
    b \in DOMAIN Traverse(E, {a}, "OUT", opt) <=> Reaches(Followed(E, "OUT", opt), a, b, "DEPENDS_ON")

(* An entity is exposed to a risk exactly when it is so directly, or when  *)
(* something that can fail for it is exposed.                              *)
ExposedThroughFailure(E, N, typeOf, opt) ==
  \A k \in Risks(N, typeOf), n \in Entities(N, typeOf) :
    n \in ExposedEntities(E, typeOf, k, opt) <=>
      \/ n \in To(E, k, "EXPOSED_TO")
      \/ WhatCanFail(E, n, opt) \cap To(E, k, "EXPOSED_TO") # {}

(* Two entities are correlated both ways, through the same nodes. *)
SymmetricCorrelation(E, entities, opt) ==
  \A m, n \in entities : m # n =>
    LET ofM == CorrelatedEntities(E, entities, m, opt)
        ofN == CorrelatedEntities(E, entities, n, opt)
    IN  /\ n \in DOMAIN ofM <=> m \in DOMAIN ofN
        /\ n \in DOMAIN ofM => ofM[n] = ofN[m]

(* What verifiedOnly leaves of the dependencies and of the losses rests on *)
(* no inferred edge: it is the same without those edges.                   *)
RestsOnVerified(E, N, typeOf, depth) ==
  LET opt == [maxDepth |-> depth, verifiedOnly |-> TRUE]
      all == [opt EXCEPT !.verifiedOnly = FALSE]
      V == {e \in E : ~ e.inferred}
  IN  /\ \A a \in Assets(N, typeOf) : DependenciesOf(E, a, opt) = DependenciesOf(V, a, all)
      /\ \A k \in Risks(N, typeOf) :
           PotentialLosses(E, typeOf, k, opt) = PotentialLosses(V, typeOf, k, all)

(* The type filters of the questions about a risk drop nothing that the    *)
(* ontology lets near it: each exposure, cover, syndicate and backer of a  *)
(* risk is in its picture.                                                 *)
WholePicture(E, N, typeOf, opt) ==
  \A k \in Risks(N, typeOf) :
    /\ CoveringPolicies(E, typeOf, k) = To(E, k, "COVERS")
    /\ {b.syndicate : b \in CapitalBearingRisk(E, typeOf, k)} = To(E, k, "ASSUMES")
    /\ UNION {b.capital : b \in CapitalBearingRisk(E, typeOf, k)}
         = UNION {To(E, s, "SUPPORTS") : s \in To(E, k, "ASSUMES")}
    /\ \A a \in To(E, k, "EXPOSED_TO") :
         (a \in Entities(N, typeOf) \/ To(E, a, "OWNS") # {}) =>
           (({a} \cup To(E, a, "OWNS")) \cap ExposedEntities(E, typeOf, k, opt) # {})
=============================================================================

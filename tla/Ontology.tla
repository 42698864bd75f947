------------------------------ MODULE Ontology ------------------------------
(***************************************************************************)
(* packages/domain/src/ontology.ts: what a risk graph may contain, and how *)
(* graph.ts decides whether an edge may be added.  An edge is a record of  *)
(* its type, its end points and whether an AI model inferred it.           *)
(***************************************************************************)
EXTENDS Integers

(* EDGE_RULES: the legal triples. *)
EdgeRules ==
  {<<"OWNS", "ENTITY", "ASSET">>, <<"DEPENDS_ON", "ASSET", "ASSET">>,
   <<"EXPOSED_TO", "ENTITY", "RISK">>, <<"EXPOSED_TO", "ASSET", "RISK">>,
   <<"MAY_CAUSE", "HAZARD", "RISK">>, <<"MAY_CAUSE", "RISK", "EVENT">>,
   <<"MAY_CAUSE", "EVENT", "LOSS">>, <<"COVERS", "POLICY", "RISK">>,
   <<"COVERS", "COVERAGE", "RISK">>, <<"SUPPORTS", "CAPITAL", "SYNDICATE">>,
   <<"ASSUMES", "SYNDICATE", "RISK">>, <<"PROTECTS", "REINSURANCE_CONTRACT", "SYNDICATE">>,
   <<"PROTECTS", "ENTITY", "SYNDICATE">>, <<"REPRESENTS", "CLAIM", "LOSS">>,
   <<"PAYS", "SETTLEMENT", "CLAIM">>, <<"PAYS", "SETTLEMENT", "PREMIUM">>,
   <<"SUBJECT_TO", "POLICY", "PREMIUM">>}

NodeTypes ==
  {"ENTITY", "ASSET", "DEPENDENCY", "RISK", "HAZARD", "EXPOSURE", "EVENT", "LOSS", "POLICY",
   "COVERAGE", "PREMIUM", "CLAIM", "CAPITAL", "SYNDICATE", "REINSURANCE_CONTRACT", "SETTLEMENT"}

EdgeTypes == {rule[1] : rule \in EdgeRules}

(* isEdgeAllowed *)
EdgeAllowed(type, from, to) == <<type, from, to>> \in EdgeRules

(* isAcyclicEdgeType: one rule is declared acyclic. *)
AcyclicType(type) == type = "DEPENDS_ON"

(* S is closed under the edges of a type. *)
Closed(E, type, S) == \A e \in E : e.type = type /\ e.from \in S => e.to \in S

Ends(E, type) == UNION {{e.from, e.to} : e \in {f \in E : f.type = type}}

(* RiskGraph.reaches: b is in every set that holds a and is closed. *)
Reaches(E, a, b, type) ==
  \A S \in SUBSET (Ends(E, type) \cup {a}) : a \in S /\ Closed(E, type, S) => b \in S

(* Mutant of Addable: a self-loop is all that is refused. *)
AddableUnlessLoop(E, typeOf, e) ==
  /\ EdgeAllowed(e.type, typeOf[e.from], typeOf[e.to])
  /\ AcyclicType(e.type) => e.from # e.to

(* addEdge's checks: the triple is legal, and an edge of an acyclic type   *)
(* closes no cycle; a node reaches itself, so a self-loop is one.          *)
Addable(E, typeOf, e) ==
  /\ EdgeAllowed(e.type, typeOf[e.from], typeOf[e.to])
  /\ AcyclicType(e.type) => ~ Reaches(E, e.to, e.from, e.type)

(* No edge of an acyclic type leads back to where it starts. *)
Acyclic(E) == \A e \in E : AcyclicType(e.type) => ~ Reaches(E, e.to, e.from, e.type)

(***************************************************************************)
(* GraphService.loadGraph: the stored edges are added one by one, in the   *)
(* order in which the database happens to return them, and an edge that    *)
(* addEdge refuses is skipped.  The result is any maximal legal part.      *)
(***************************************************************************)
LoadedGraphs(E, typeOf) ==
  LET legal == {e \in E : EdgeAllowed(e.type, typeOf[e.from], typeOf[e.to])}
      tested == {e \in legal : AcyclicType(e.type)}
      maximal(G) == \A e \in tested \ G : ~ Addable(G, typeOf, e)
  IN  {(legal \ tested) \cup G : G \in {H \in SUBSET tested : Acyclic(H) /\ maximal(H)}}
=============================================================================

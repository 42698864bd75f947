---------------------------- MODULE MCRiskGraph ----------------------------
(* Values of the constants of RiskGraph for TLC. *)
EXTENDS RiskGraph, Functions, TLC

CONSTANTS e1, e2, a1, a2, a3, x, k, v, l, cov, syn, cap, acme, other

MCNode == {e1, e2, a1, a2, a3, x, k, v, l, cov, syn, cap}
MCTypeOf == (e1 :> "ENTITY") @@ (e2 :> "ENTITY") @@ (k :> "RISK") @@ (v :> "EVENT")
              @@ (l :> "LOSS")
              @@ (cov :> "COVERAGE") @@ (syn :> "SYNDICATE") @@ (cap :> "CAPITAL")
              @@ [n \in {a1, a2, a3, x} |-> "ASSET"]
MCOwnerOf == [n \in MCNode |-> IF n = x THEN other ELSE acme]

MCEdge(type, from, to, inferred) ==
  [type |-> type, from |-> from, to |-> to, inferred |-> inferred]

(* What the graph holds at the start: two owners, an exposed asset, a   *)
(* syndicate with its capital.                                             *)
MCStored ==
  {MCEdge("OWNS", e1, a1, FALSE), MCEdge("OWNS", e2, a2, FALSE),
   MCEdge("EXPOSED_TO", a3, k, FALSE), MCEdge("MAY_CAUSE", k, v, FALSE),
   MCEdge("ASSUMES", syn, k, FALSE),
   MCEdge("SUPPORTS", cap, syn, FALSE)}

(* Three dependencies that close a cycle, an exposure, a loss, a cover, a  *)
(* triple that the ontology refuses, an asset of someone else.             *)
MCCandidates ==
  {MCEdge("DEPENDS_ON", a1, a2, FALSE), MCEdge("DEPENDS_ON", a2, a3, TRUE),
   MCEdge("DEPENDS_ON", a3, a1, FALSE), MCEdge("EXPOSED_TO", e1, k, FALSE),
   MCEdge("MAY_CAUSE", v, l, TRUE), MCEdge("DEPENDS_ON", e1, a1, FALSE),
   MCEdge("COVERS", cov, k, FALSE), MCEdge("OWNS", e1, x, FALSE)}

MCInit ==
  /\ nodes = MCNode \ {l}
  /\ edges = MCStored
  /\ audit = MCStored
  /\ req = [r \in Request |-> Idle]
  /\ raced = {}

MCSpec == MCInit /\ [][Next]_vars
=============================================================================

----------------------------- MODULE Scenarios -----------------------------
(***************************************************************************)
(* runSimulation of packages/domain/src/simulation.ts: what an event at    *)
(* one node of the graph would do, answered by the questions of queries.ts *)
(* with their default options.  The placeholder figure of estimateLoss is  *)
(* left out.                                                               *)
(***************************************************************************)
EXTENDS RiskQueries

DefaultOptions == [maxDepth |-> 8, verifiedOnly |-> FALSE]

(* Mutant of AffectedAssets: what the trigger depends on, not the reverse. *)
AffectedAssetsBelow(E, typeOf, trigger) ==
  IF typeOf[trigger] = "ASSET" THEN DOMAIN DependenciesOf(E, trigger, DefaultOptions) ELSE {}

(* What fails when an asset does. *)
AffectedAssets(E, typeOf, trigger) ==
  IF typeOf[trigger] = "ASSET" THEN DOMAIN DependentsOf(E, trigger, DefaultOptions) ELSE {}

Failing(E, typeOf, trigger) == {trigger} \cup AffectedAssets(E, typeOf, trigger)

(* Who is exposed: to a risk as Q3 says, to anything else as an owner. *)
ScenarioExposed(E, typeOf, trigger) ==
  IF typeOf[trigger] = "RISK" THEN ExposedEntities(E, typeOf, trigger, DefaultOptions)
  ELSE UNION {To(E, a, "OWNS") : a \in Failing(E, typeOf, trigger)}

(* The entities that fail along with an exposed one. *)
CorrelatedExposure(E, typeOf, entities, trigger) ==
  UNION {DOMAIN CorrelatedEntities(E, entities, n, DefaultOptions) :
           n \in ScenarioExposed(E, typeOf, trigger)}

(* The risks the scenario is in scope of. *)
RelevantRisks(E, typeOf, trigger) ==
  IF typeOf[trigger] = "RISK" THEN {trigger}
  ELSE UNION {From(E, a, "EXPOSED_TO") : a \in Failing(E, typeOf, trigger)}

(* coveredEntityIdsForRisk: everyone exposed to a risk that is covered. *)
CoveredEntities(E, typeOf, risk) ==
  IF CoveringPolicies(E, typeOf, risk) = {} THEN {}
  ELSE ExposedEntities(E, typeOf, risk, DefaultOptions)

(* insuredVsUninsured *)
Insured(E, typeOf, trigger) ==
  ScenarioExposed(E, typeOf, trigger)
    \cap UNION {CoveredEntities(E, typeOf, k) : k \in RelevantRisks(E, typeOf, trigger)}

-----------------------------------------------------------------------------
(* What RiskGraph's run asks of scenarios on a loaded graph. *)

(* A failing asset exposes exactly the entities for which it can fail, and *)
(* when it exposes several of them, each is correlated with another.       *)
FollowsFailure(E, N, typeOf) ==
  \A a \in Assets(N, typeOf) :
    LET exposed == ScenarioExposed(E, typeOf, a) IN
    /\ exposed = {n \in Entities(N, typeOf) : a \in WhatCanFail(E, n, DefaultOptions)}
    /\ \A n, m \in exposed :
         n # m => n \in CorrelatedExposure(E, typeOf, Entities(N, typeOf), a)

(* What an asset depends on fails worse: as far as the two searches do not *)
(* give up for their depth, the scenario there exposes all whom the        *)
(* scenario at the asset exposes, and concerns all its risks.              *)
Spreads(E, N, typeOf) ==
  \A a, b \in Assets(N, typeOf) : a \in DOMAIN DependenciesOf(E, b, DefaultOptions) =>
    \A x \in Failing(E, typeOf, b) :
      DependenciesOf(E, b, DefaultOptions)[a] + Traverse(E, {b}, "IN", DefaultOptions)[x]
          <= DefaultOptions.maxDepth =>
        /\ To(E, x, "OWNS") \subseteq ScenarioExposed(E, typeOf, a)
        /\ From(E, x, "EXPOSED_TO") \subseteq RelevantRisks(E, typeOf, a)

(* An entity counts as insured only if a risk that is covered reaches what *)
(* can fail for it, or the entity itself.                                  *)
InsuredIsCovered(E, N, typeOf) ==
  \A t \in Assets(N, typeOf) \cup Risks(N, typeOf) : \A n \in Insured(E, typeOf, t) :
    \E k \in Risks(N, typeOf) :
      /\ To(E, k, "COVERS") # {}
      /\ To(E, k, "EXPOSED_TO") \cap ({n} \cup WhatCanFail(E, n, DefaultOptions)) # {}
=============================================================================

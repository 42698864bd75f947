---------------------------- MODULE MCPlacement ----------------------------
(* Values of the constants of Placement for TLC. *)
EXTENDS Placement, TLC

CONSTANTS s1, risk1

MCRiskOf == [s \in {s1} |-> risk1]

MCFactor(likelihood, confidence) ==
  [weight |-> 50, likelihood |-> likelihood, confidence |-> confidence, basis |-> "OBSERVED"]

MCInput(factors, mel, currency) ==
  [factors |-> factors, mel |-> mel, currency |-> currency, mitigation |-> 50,
   correlated |-> 0, concentration |-> 5]

(***************************************************************************)
(* Two well-known factors that make a small expected loss; the same of a   *)
(* risk that is too large for automation; the small one again when one of  *)
(* its factors is hardly known; a currency without thresholds.             *)
(***************************************************************************)
MCSmall == <<MCFactor(2, 80), MCFactor(6, 90)>>
MCUnsure == <<MCFactor(2, 10), MCFactor(6, 90)>>
MCInputs ==
  {MCInput(MCSmall, 2000, "USD"), MCInput(MCSmall, 4000, "USD"),
   MCInput(MCUnsure, 2000, "USD"), MCInput(MCSmall, 2000, "ZAR")}

(* Bound: three rows about a risk, assessments and decisions together. *)
MCRows == Len(assessments[risk1]) + Len(approvals[risk1]) <= 3
MCSpec == Init /\ [][Next /\ MCRows']_vars

MCSymmetry == Permutations(Request)
=============================================================================

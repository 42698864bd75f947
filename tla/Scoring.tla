------------------------------ MODULE Scoring ------------------------------
(***************************************************************************)
(* scoreRisk and assessUnderwriting: what is declared about a risk becomes *)
(* a score, and the score an assessment.  Pure functions of their input.   *)
(*                                                                         *)
(* Weights, likelihoods and confidences are in percent, probabilities and  *)
(* severities in basis points, rounded down where the code has a fraction; *)
(* money is in whole units of the input.                                   *)
(***************************************************************************)
EXTENDS Money, Sequences

Percent == 0 .. 100
One == 10000

Basis == {"OBSERVED", "STATISTICAL_MODEL", "EXPERT_JUDGEMENT", "AI_INFERENCE",
          "INSUFFICIENT_DATA"}
Factor == [weight : Percent, likelihood : Percent, confidence : Percent, basis : Basis]
FactorsInput ==
  [factors : Seq(Factor), mel : Nat \ {0}, currency : STRING, mitigation : Percent,
   correlated : Nat, concentration : Percent]

SumOfFactors(factors, Value(_)) ==
  SumOver([i \in DOMAIN factors |-> Value(factors[i])], DOMAIN factors)
TotalWeight(factors) == LET Weight(f) == f.weight IN SumOfFactors(factors, Weight)

(* assertUnitInterval and the type of the input leave this to refuse. *)
Scorable(input) == input.factors # <<>> => TotalWeight(input.factors) > 0

(* Mutant of CombineConfidence: the strongest input counts. *)
CombineConfidenceStrongest(confidences) ==
  IF confidences = {} THEN 0 ELSE Max(confidences)

(* combineConfidence: no more than the weakest input; none, no confidence. *)
CombineConfidence(confidences) == IF confidences = {} THEN 0 ELSE Min(confidences)

Confidences(factors) == {factors[i].confidence : i \in DOMAIN factors}
Bases(factors) == {factors[i].basis : i \in DOMAIN factors}

(* computeProbability: the weighted mean of the likelihoods, less what is  *)
(* mitigated.                                                              *)
Probability(input) ==
  LET factors == input.factors
      Weighted(f) == f.weight * f.likelihood
  IN  [expected   |-> IF factors = <<>> THEN 0
                      ELSE (SumOfFactors(factors, Weighted) * (100 - input.mitigation))
                           \div TotalWeight(factors),
       confidence |-> CombineConfidence(Confidences(factors)),
       basis      |-> CASE factors = <<>>                       -> "INSUFFICIENT_DATA"
                        [] Bases(factors) = {"OBSERVED"}        -> "OBSERVED"
                        [] "AI_INFERENCE" \in Bases(factors)    -> "AI_INFERENCE"
                        [] OTHER                                -> "EXPERT_JUDGEMENT"]

(* computeSeverity: the less confidence, the wider. *)
Severity(probability) ==
  LET spread == 50 * (100 - probability.confidence) IN
  [low  |-> Max({0, probability.expected - spread}),
   high |-> Min({One, probability.expected + spread})]

(***************************************************************************)
(* scoreRisk.  The confidence of the whole is that of the weakest part:    *)
(* of the probability, the correlation (60 or 30), the concentration (90)  *)
(* and the mitigation (70 or 30).                                          *)
(***************************************************************************)
ScoreRisk(input) ==
  LET probability == Probability(input)
      severity == Severity(probability)
  IN  [probability |-> probability,
       low         |-> ScaleMoney(input.mel, severity.low, One),
       expected    |-> ScaleMoney(input.mel, probability.expected, One),
       high        |-> ScaleMoney(input.mel, severity.high, One),
       mel         |-> input.mel,
       currency    |-> input.currency,
       confidence  |-> CombineConfidence({probability.confidence, 90,
                          IF input.correlated > 0 THEN 60 ELSE 30,
                          IF input.factors # <<>> THEN 70 ELSE 30}),
       correlation |-> Min({100, 10 * input.correlated}),
       concentration |-> input.concentration]

-----------------------------------------------------------------------------
Bands == {"LOW", "MEDIUM", "HIGH", "EXTREME"}

(* DEFAULT_APPROVAL_THRESHOLDS; the ceiling is in thousands of USD. *)
Thresholds ==
  [low |-> 5, medium |-> 20, high |-> 50, ceiling |-> 50, confidence |-> 75, currency |-> "USD"]

(***************************************************************************)
(* classifyBand: the ratio of expected to maximum loss, and for LOW an     *)
(* absolute ceiling and a confident estimate of the probability, not of    *)
(* the score.                                                              *)
(***************************************************************************)
Band(score) ==
  LET upTo(percent) == 100 * score.expected <= percent * score.mel
      low == /\ upTo(Thresholds.low)
             /\ score.expected <= Thresholds.ceiling
             /\ score.probability.confidence >= Thresholds.confidence
  IN  CASE low                                        -> "LOW"
        [] upTo(Thresholds.medium) /\ ~ low           -> "MEDIUM"
        [] upTo(Thresholds.high) /\ ~ upTo(Thresholds.medium) -> "HIGH"
        [] OTHER                                      -> "EXTREME"

(* APPROVAL_CONTROLS, mayProceedWithoutHuman *)
NeedsHuman(band) == band # "LOW"

(* suggestPremiumRange: 15% over the expected loss, and for the high end   *)
(* up to 100% over the high loss as confidence falls.                      *)
Premium(score) ==
  [low  |-> ScaleMoney(score.expected, 115, 100),
   high |-> ScaleMoney(score.high, 11500 + 85 * (100 - score.confidence), One)]

(* What an assessment asks for, or excludes. *)
Notes(score) ==
  {n \in {"evidence", "correlation", "concentration", "insufficient"} :
     CASE n = "evidence"      -> score.confidence < Thresholds.confidence
       [] n = "correlation"   -> score.correlation > 30
       [] n = "concentration" -> score.concentration > 10
       [] n = "insufficient"  -> score.probability.basis = "INSUFFICIENT_DATA"}

(* assessUnderwriting *)
AssessUnderwriting(score) ==
  [band |-> Band(score), human |-> NeedsHuman(Band(score)),
   eligible |-> score.probability.basis # "INSUFFICIENT_DATA",
   confidence |-> score.confidence, expected |-> score.expected, premium |-> Premium(score),
   capital |-> score.high, capacity |-> score.mel, notes |-> Notes(score)]
=============================================================================

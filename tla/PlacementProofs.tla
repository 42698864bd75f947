-------------------------- MODULE PlacementProofs --------------------------
(***************************************************************************)
(* Proofs about Placement, for any submissions, risks and declared         *)
(* factors, any number of concurrent requests, crashes and releases.       *)
(***************************************************************************)
EXTENDS Placement, Sums, TLAPS

-----------------------------------------------------------------------------
(* The arithmetic of an assessment. *)

LEMMA MinOf ==
  ASSUME NEW S \in SUBSET Nat, S # {}
  PROVE  Min(S) \in S /\ \A x \in S : Min(S) <= x
<1> DEFINE N == {n \in Nat : \A m \in S : n <= m}
<1>1. \E x \in S : \A y \in S : x <= y
  <2>1. SUFFICES ASSUME \A x \in S : \E y \in S : y < x PROVE FALSE
    OBVIOUS
  <2>2. 0 \in N
    OBVIOUS
  <2>3. ASSUME NEW n \in Nat, n \in N PROVE n + 1 \in N
    <3>1. n \notin S
      <4>1. SUFFICES ASSUME n \in S PROVE FALSE
        OBVIOUS
      <4>2. PICK y \in S : y < n
        BY <2>1, <4>1
      <4> QED  BY <2>3, <4>2
    <3>2. \A m \in S : n <= m /\ n # m
      BY <2>3, <3>1
    <3> QED  BY <3>2
  <2>4. Nat \subseteq N
    <3> HIDE DEF N
    <3> QED  BY <2>2, <2>3, NatsByInduction
  <2>5. PICK x \in S : TRUE
    OBVIOUS
  <2>6. x + 1 \in N
    BY <2>4
  <2> QED  BY <2>6
<1>2. Min(S) = CHOOSE x \in S : \A y \in S : x <= y
  BY DEF Min
<1> HIDE DEF N
<1> QED  BY <1>1, <1>2

LEMMA MinPair == \A a, b \in Int : Min({a, b}) = IF a <= b THEN a ELSE b
<1> SUFFICES ASSUME NEW a \in Int, NEW b \in Int
             PROVE  Min({a, b}) = IF a <= b THEN a ELSE b
  OBVIOUS
<1> DEFINE m == IF a <= b THEN a ELSE b
<1>1. m \in {a, b} /\ \A y \in {a, b} : m <= y
  OBVIOUS
<1>2. \A x \in {a, b} : (\A y \in {a, b} : x <= y) => x = m
  OBVIOUS
<1>3. Min({a, b}) = CHOOSE x \in {a, b} : \A y \in {a, b} : x <= y
  BY DEF Min
<1> HIDE DEF m
<1>4. Min({a, b}) = m
  BY <1>1, <1>2, <1>3
<1> QED  BY <1>4 DEF m

LEMMA MaxPair == \A a, b \in Int : Max({a, b}) = IF a >= b THEN a ELSE b
<1> SUFFICES ASSUME NEW a \in Int, NEW b \in Int
             PROVE  Max({a, b}) = IF a >= b THEN a ELSE b
  OBVIOUS
<1> DEFINE m == IF a >= b THEN a ELSE b
<1>1. m \in {a, b} /\ \A y \in {a, b} : m >= y
  OBVIOUS
<1>2. \A x \in {a, b} : (\A y \in {a, b} : x >= y) => x = m
  OBVIOUS
<1>3. Max({a, b}) = CHOOSE x \in {a, b} : \A y \in {a, b} : x >= y
  BY DEF Max
<1> HIDE DEF m
<1>4. Max({a, b}) = m
  BY <1>1, <1>2, <1>3
<1> QED  BY <1>4 DEF m

(* A scaled amount, and how it grows with the amount and the ratio. *)
LEMMA Quotient ==
  ASSUME NEW n \in Nat, NEW d \in Nat, d > 0
  PROVE  n \div d \in Nat /\ d * (n \div d) <= n /\ n < d * (n \div d) + d
<1>1. n % d \in Nat /\ n % d < d /\ d * (n \div d) + (n % d) = n /\ n \div d \in Nat
  BY Division
<1> DEFINE q == n \div d
           m == n % d
<1>2. d * q \in Nat
  <2> HIDE DEF q
  <2> QED  BY <1>1 DEF q
<1> HIDE DEF q, m
<1> QED  BY <1>1, <1>2 DEF q, m

LEMMA QuotientGrows ==
  ASSUME NEW n \in Nat, NEW m \in Nat, n <= m, NEW d \in Nat, d > 0
  PROVE  n \div d <= m \div d
<1> DEFINE a == n \div d
           b == m \div d
<1>1. a \in Nat /\ b \in Nat /\ d * a <= n /\ m < d * b + d
  BY Quotient
<1> HIDE DEF a, b
<1>2. SUFFICES ASSUME a > b PROVE FALSE
  BY <1>1 DEF a, b
<1>3. a >= b + 1
  BY <1>1, <1>2
<1>4. d * a >= d * (b + 1)
  BY <1>1, <1>3
<1>5. d * (b + 1) = d * b + d /\ d * a \in Nat /\ d * b \in Nat
  BY <1>1
<1> QED  BY <1>1, <1>4, <1>5

LEMMA ScaledNat ==
  ASSUME NEW x \in Nat, NEW n \in Nat, NEW d \in Nat, d > 0
  PROVE  ScaleMoney(x, n, d) \in Nat
<1>1. 2 * x * n + d \in Nat /\ 2 * d \in Nat /\ 2 * d > 0
  OBVIOUS
<1> QED  BY <1>1, Quotient DEF ScaleMoney

LEMMA ScaledGrows ==
  ASSUME NEW x \in Nat, NEW y \in Nat, x <= y, NEW n \in Nat, NEW m \in Nat, n <= m,
         NEW d \in Nat, d > 0
  PROVE  ScaleMoney(x, n, d) <= ScaleMoney(y, m, d)
<1>1. x * n <= y * n /\ y * n <= y * m /\ x * n \in Nat /\ y * n \in Nat /\ y * m \in Nat
  OBVIOUS
<1>2. 2 * x * n = 2 * (x * n) /\ 2 * y * m = 2 * (y * m)
  OBVIOUS
<1>3. 2 * x * n + d <= 2 * y * m + d
  BY <1>1, <1>2
<1>4. 2 * x * n + d \in Nat /\ 2 * y * m + d \in Nat /\ 2 * d \in Nat /\ 2 * d > 0
  BY <1>1, <1>2
<1> QED  BY <1>3, <1>4, QuotientGrows DEF ScaleMoney

(* An amount scaled by one is the amount. *)
LEMMA ScaledByOne == \A x \in Nat : ScaleMoney(x, One, One) = x
<1> SUFFICES ASSUME NEW x \in Nat PROVE ScaleMoney(x, One, One) = x
  OBVIOUS
<1>1. ScaleMoney(x, One, One) = (20000 * x + 10000) \div 20000
  BY DEF ScaleMoney, One
<1> QED  BY <1>1

-----------------------------------------------------------------------------
(* The factors. *)

LEMMA FactorsTyped ==
  ASSUME NEW input \in Assessable
  PROVE  /\ input.factors \in Seq(Factor) /\ input.mel \in Nat /\ input.mitigation \in Percent
         /\ IsFiniteSet(DOMAIN input.factors)
         /\ \A i \in DOMAIN input.factors : input.factors[i] \in Factor
         /\ (input.factors = <<>>) <=> (DOMAIN input.factors = {})
         /\ Scorable(input)
<1>1. input \in FactorsInput
  BY PlacementAssumption DEF Assessable
<1>2. input.factors \in Seq(Factor) /\ input.mel \in Nat /\ input.mitigation \in Percent
  BY <1>1 DEF FactorsInput
<1>3. Scorable(input)
  BY DEF Assessable
<1>4. ASSUME NEW fs \in Seq(Factor)
      PROVE  /\ IsFiniteSet(DOMAIN fs) /\ \A i \in DOMAIN fs : fs[i] \in Factor
             /\ (fs = <<>>) <=> (DOMAIN fs = {})
  <2>1. DOMAIN fs = 1 .. Len(fs) /\ Len(fs) \in Int /\ 1 \in Int
    OBVIOUS
  <2>2. IsFiniteSet(DOMAIN fs)
    BY <2>1, FS_Interval
  <2>3. \A i \in DOMAIN fs : fs[i] \in Factor
    OBVIOUS
  <2>4. fs = <<>> => DOMAIN fs = {}
    OBVIOUS
  <2>5. DOMAIN fs = {} => fs = <<>>
    OBVIOUS
  <2> QED  BY <2>2, <2>3, <2>4, <2>5
<1> QED  BY <1>2, <1>3, <1>4

(* The confidence in the probability is no more than in any factor. *)
LEMMA ConfidenceOf ==
  ASSUME NEW input \in Assessable, NEW c, c = CombineConfidence(Confidences(input.factors))
  PROVE  /\ c \in Percent
         /\ input.factors = <<>> => c = 0
         /\ \A i \in DOMAIN input.factors : c <= input.factors[i].confidence
<1>1. PICK C : C = Confidences(input.factors)
  OBVIOUS
<1>2. /\ \A x \in C : x \in Percent
      /\ \A i \in DOMAIN input.factors : input.factors[i].confidence \in C
  BY <1>1, FactorsTyped DEF Confidences, Factor
<1>3. (DOMAIN input.factors = {}) <=> (C = {})
  BY <1>1 DEF Confidences
<1>4. CASE C = {}
  <2>1. c = 0
    BY <1>1, <1>4 DEF CombineConfidence
  <2> QED  BY <1>3, <1>4, <2>1 DEF Percent
<1>5. CASE C # {}
  <2>1. C \in SUBSET Nat
    BY <1>2 DEF Percent
  <2>2. c \in C /\ \A x \in C : c <= x
    BY <1>1, <1>5, <2>1, MinOf DEF CombineConfidence
  <2>3. input.factors # <<>>
    BY <1>3, <1>5, FactorsTyped
  <2> QED  BY <1>2, <2>2, <2>3
<1> QED  BY <1>4, <1>5

LEMMA Product == \A a, b \in 0 .. 100 : a * b \in Nat /\ a * b <= 100 * a
OBVIOUS

(* A weighted mean of percentages is one. *)
LEMMA ExpectedOf ==
  ASSUME NEW input \in Assessable
  PROVE  Probability(input).expected \in 0 .. One
<1> DEFINE fs == input.factors
           D == DOMAIN fs
           w == [i \in D |-> fs[i].weight]
           wl == [i \in D |-> fs[i].weight * fs[i].likelihood]
           top == [i \in D |-> 100 * fs[i].weight]
<1>1. CASE fs = <<>>
  <2>1. Probability(input).expected = 0
    BY <1>1 DEF Probability
  <2> QED  BY <2>1 DEF One
<1>2. CASE fs # <<>>
  <2>1. /\ TotalWeight(fs) = SumOver(w, D)
        /\ SumOver(w, D) > 0
    BY <1>2, FactorsTyped DEF TotalWeight, SumOfFactors, Scorable
  <2>2. Probability(input).expected
          = (SumOver(wl, D) * (100 - input.mitigation)) \div SumOver(w, D)
    BY <1>2, <2>1 DEF Probability, SumOfFactors
  <2>3. \A i \in D : /\ w[i] \in Nat /\ wl[i] \in Nat /\ top[i] \in Nat
                     /\ top[i] = 100 * w[i] /\ wl[i] <= top[i]
    <3>1. SUFFICES ASSUME NEW i \in D
                   PROVE  /\ w[i] \in Nat /\ wl[i] \in Nat /\ top[i] \in Nat
                          /\ top[i] = 100 * w[i] /\ wl[i] <= top[i]
      OBVIOUS
    <3>2. PICK a \in 0 .. 100 : a = fs[i].weight
      BY FactorsTyped DEF Factor, Percent
    <3>3. PICK b \in 0 .. 100 : b = fs[i].likelihood
      BY FactorsTyped DEF Factor, Percent
    <3>4. w[i] = a /\ wl[i] = a * b /\ top[i] = 100 * a
      BY <3>2, <3>3
    <3>5. a * b \in Nat /\ a * b <= 100 * a
      BY Product
    <3> HIDE DEF w, wl, top, D
    <3> QED  BY <3>4, <3>5
  <2>4. IsFiniteSet(D) /\ D \in SUBSET D
    BY FactorsTyped
  <2> HIDE DEF w, wl, top, D
  <2>5. SumOver(wl, D) <= SumOver(top, D)
    BY <2>3, <2>4, SumMonotone
  <2>6. SumOver(top, D) = 100 * SumOver(w, D)
    <3>1. \A i \in D : w[i] \in Int /\ top[i] = 100 * w[i]
      BY <2>3
    <3> QED  BY <2>4, <3>1, SumScale, 100 \in Int
  <2>7. SumOver(w, D) \in Nat /\ SumOver(wl, D) \in Nat
    BY <2>3, <2>4, SumNat
  <2> DEFINE a == SumOver(wl, D)
             b == SumOver(w, D)
             c == 100 - input.mitigation
  <2>8. c \in 0 .. 100
    <3>1. input.mitigation \in 0 .. 100
      BY FactorsTyped DEF Percent
    <3> QED  BY <3>1
  <2>9. a \in Nat /\ b \in Nat /\ b > 0 /\ a <= 100 * b
    BY <2>1, <2>5, <2>6, <2>7
  <2> HIDE DEF a, b, c
  <2>10. a * c \in Nat /\ a * c <= 10000 * b
    <3>1. a * c <= a * 100 /\ a * c \in Nat
      BY <2>8, <2>9
    <3> QED  BY <2>9, <3>1
  <2>11. (a * c) \div b \in Nat /\ (a * c) \div b <= 10000
    <3> DEFINE q == (a * c) \div b
    <3>1. q \in Nat /\ b * q <= a * c
      BY <2>9, <2>10, Quotient
    <3> HIDE DEF q
    <3>2. SUFFICES ASSUME q >= 10001 PROVE FALSE
      BY <3>1 DEF q
    <3>3. b * q >= b * 10001 /\ b * q \in Nat
      BY <2>9, <3>1, <3>2
    <3> QED  BY <2>9, <2>10, <3>1, <3>3
  <2>12. Probability(input).expected = (a * c) \div b
    BY <2>2 DEF a, b, c
  <2>13. (a * c) \div b \in 0 .. One
    <3> DEFINE q == (a * c) \div b
    <3>1. q \in Nat /\ q <= 10000
      BY <2>11
    <3> HIDE DEF q
    <3>2. q \in 0 .. One
      BY <3>1 DEF One
    <3> QED  BY <3>2 DEF q
  <2> QED  BY <2>12, <2>13
<1> QED  BY <1>1, <1>2

-----------------------------------------------------------------------------
(* The worst that is likely is no better than what is expected. *)
LEMMA SeverityOf ==
  ASSUME NEW p, p.expected \in 0 .. One, p.confidence \in Percent
  PROVE  /\ Severity(p).high \in Nat /\ Severity(p).high <= One
         /\ p.expected <= Severity(p).high
<1>1. PICK e \in 0 .. 10000 : e = p.expected
  BY DEF One
<1>2. PICK c \in 0 .. 100 : c = p.confidence
  BY DEF Percent
<1>3. Severity(p).high = Min({10000, e + 50 * (100 - c)})
  BY <1>1, <1>2 DEF Severity, One
<1>4. PICK s \in Nat : s = 50 * (100 - c)
  OBVIOUS
<1>5. Severity(p).high = IF 10000 <= e + s THEN 10000 ELSE e + s
  <2>1. e + s \in Int /\ 10000 \in Int
    OBVIOUS
  <2> QED  BY <1>3, <1>4, <2>1, MinPair
<1>6. PICK h : h = Severity(p).high
  OBVIOUS
<1>7. h \in Nat /\ h <= 10000 /\ e <= h
  BY <1>5, <1>6
<1> QED  BY <1>1, <1>6, <1>7 DEF One

(* The premium is at least the expected loss. *)
LEMMA LoadedIsMore == \A e \in Nat : e <= ScaleMoney(e, 115, 100)
<1> SUFFICES ASSUME NEW e \in Nat PROVE e <= ScaleMoney(e, 115, 100)
  OBVIOUS
<1>1. ScaleMoney(e, 115, 100) = (230 * e + 100) \div 200
  BY DEF ScaleMoney
<1> QED  BY <1>1

(* And the two ends of its range are in order: 115% of what is expected,   *)
(* and at least 115% of the worst that is likely.                          *)
LEMMA RangeInOrder ==
  ASSUME NEW e \in Nat, NEW h \in Nat, e <= h, NEW c \in Percent
  PROVE  /\ ScaleMoney(e, 115, 100) <= ScaleMoney(h, 11500 + 85 * (100 - c), One)
         /\ ScaleMoney(h, 11500 + 85 * (100 - c), One) \in Nat
<1>1. PICK m \in Nat : m = 11500 + 85 * (100 - c) /\ 11500 <= m
  BY DEF Percent
<1>2. ScaleMoney(e, 115, 100) = ScaleMoney(e, 11500, One)
  <2>1. ScaleMoney(e, 115, 100) = (230 * e + 100) \div 200
    BY DEF ScaleMoney
  <2>2. ScaleMoney(e, 11500, One) = (23000 * e + 10000) \div 20000
    BY DEF ScaleMoney, One
  <2> QED  BY <2>1, <2>2
<1>3. ScaleMoney(e, 11500, One) <= ScaleMoney(h, m, One)
  BY <1>1, ScaledGrows DEF One
<1>4. ScaleMoney(h, m, One) \in Nat
  <2>1. One \in Nat /\ One > 0
    BY DEF One
  <2> QED  BY <2>1, ScaledNat
<1> QED  BY <1>1, <1>2, <1>3, <1>4

(* What scoreRisk makes of an input it does not refuse. *)
ScoreSound(input, score) ==
  /\ score.expected \in Nat /\ score.high \in Nat /\ score.mel \in Nat
  /\ score.expected <= score.high /\ score.high <= score.mel
  /\ score.confidence \in Percent
  /\ score.probability.confidence \in Percent
  /\ input.factors = <<>> => score.probability.confidence = 0
  /\ \A i \in DOMAIN input.factors :
       score.probability.confidence <= input.factors[i].confidence

LEMMA ScoreIsSound ==
  ASSUME NEW input \in Assessable
  PROVE  ScoreSound(input, ScoreRisk(input))
<1>1. PICK p : p = Probability(input)
  OBVIOUS
<1>2. PICK score : score = ScoreRisk(input)
  OBVIOUS
<1>3. /\ score.probability = p /\ score.mel = input.mel
      /\ score.expected = ScaleMoney(input.mel, p.expected, One)
      /\ score.high = ScaleMoney(input.mel, Severity(p).high, One)
      /\ score.confidence = CombineConfidence({p.confidence, 90,
           IF input.correlated > 0 THEN 60 ELSE 30, IF input.factors # <<>> THEN 70 ELSE 30})
  BY <1>1, <1>2 DEF ScoreRisk
<1>4. p.expected \in 0 .. One
  BY <1>1, ExpectedOf
<1>5. p.confidence = CombineConfidence(Confidences(input.factors))
  BY <1>1 DEF Probability
<1>6. /\ p.confidence \in Percent
      /\ input.factors = <<>> => p.confidence = 0
      /\ \A i \in DOMAIN input.factors : p.confidence <= input.factors[i].confidence
  BY <1>5, ConfidenceOf
<1>7. score.confidence \in Percent
  <2>1. PICK C : C = {p.confidence, 90, IF input.correlated > 0 THEN 60 ELSE 30,
                      IF input.factors # <<>> THEN 70 ELSE 30}
    OBVIOUS
  <2>2. C \in SUBSET Nat /\ C # {} /\ \A x \in C : x \in Percent
    <3>1. \A x \in 0 .. 100 : x \in Nat
      OBVIOUS
    <3>2. 90 \in Percent /\ 60 \in Percent /\ 30 \in Percent /\ 70 \in Percent
      BY DEF Percent
    <3>3. \A x \in C : x \in Percent
      BY <1>6, <2>1, <3>2
    <3> QED  BY <2>1, <3>1, <3>3 DEF Percent
  <2>3. Min(C) \in C
    BY <2>2, MinOf
  <2> QED  BY <1>3, <2>1, <2>2, <2>3 DEF CombineConfidence
<1>8. PICK x \in Nat : x = input.mel
  BY FactorsTyped
<1>9. PICK e \in Nat : e = p.expected
  <2>1. \A b \in 0 .. One : b \in Nat
    BY DEF One
  <2>2. p.expected \in Nat
    BY <1>4, <2>1, Zenon
  <2> QED  BY <2>2
<1>10. PICK h \in Nat : h = Severity(p).high /\ h <= One /\ e <= h
  BY <1>4, <1>6, <1>9, SeverityOf
<1>11. One \in Nat /\ One > 0
  BY DEF One
<1>12. ScaleMoney(x, e, One) \in Nat /\ ScaleMoney(x, h, One) \in Nat
  BY <1>11, ScaledNat
<1>13. ScaleMoney(x, e, One) <= ScaleMoney(x, h, One)
  <2>1. x <= x /\ e <= h
    BY <1>10
  <2> QED  BY <1>11, <2>1, ScaledGrows
<1>14. ScaleMoney(x, h, One) <= x
  <2>1. x <= x /\ h <= One
    BY <1>10
  <2>2. ScaleMoney(x, h, One) <= ScaleMoney(x, One, One)
    BY <1>11, <2>1, ScaledGrows
  <2> QED  BY <2>2, ScaledByOne
<1>15. /\ score.mel = x /\ score.expected = ScaleMoney(x, e, One)
       /\ score.high = ScaleMoney(x, h, One)
  BY <1>3, <1>8, <1>9, <1>10
<1>16. /\ score.expected \in Nat /\ score.high \in Nat /\ score.mel \in Nat
       /\ score.expected <= score.high /\ score.high <= score.mel
  BY <1>12, <1>13, <1>14, <1>15
<1> QED  BY <1>2, <1>3, <1>6, <1>7, <1>16 DEF ScoreSound

(* What an assessment can be relied on for. *)
AssessedSound(row) ==
  /\ {row.expected, row.premium.low, row.premium.high, row.capital, row.capacity} \subseteq Nat
  /\ row.expected <= row.premium.low /\ row.premium.low <= row.premium.high
  /\ row.expected <= row.capital /\ row.capital <= row.capacity
  /\ row.band \in Bands /\ row.confidence \in Percent
  /\ row.band = "LOW" =>
       /\ row.expected <= Thresholds.ceiling
       /\ row.of.factors # <<>>
       /\ \A i \in DOMAIN row.of.factors : row.of.factors[i].confidence >= Thresholds.confidence

LEMMA AssessmentIsSound ==
  ASSUME NEW row \in AssessmentRow
  PROVE  AssessedSound(row)
<1>1. PICK input \in Assessable, v \in 1 .. MaxVersion : row = AssessmentOf(input, v)
  BY DEF AssessmentRow
<1>2. PICK score : score = ScoreRisk(input)
  OBVIOUS
<1>3. PICK a : a = AssessUnderwriting(score)
  OBVIOUS
<1>4. ScoreSound(input, score)
  BY <1>2, ScoreIsSound
<1>5. /\ row.band = a.band /\ row.confidence = a.confidence /\ row.expected = a.expected
      /\ row.premium = a.premium /\ row.capital = a.capital /\ row.capacity = a.capacity
      /\ row.of = input
  BY <1>1, <1>2, <1>3 DEF AssessmentOf
<1>6. /\ a.band = Band(score) /\ a.confidence = score.confidence
      /\ a.expected = score.expected /\ a.capital = score.high /\ a.capacity = score.mel
      /\ a.premium.low = ScaleMoney(score.expected, 115, 100)
      /\ a.premium.high = ScaleMoney(score.high, 11500 + 85 * (100 - score.confidence), One)
  BY <1>3 DEF AssessUnderwriting, Premium
<1>7. PICK e \in Nat, h \in Nat, c \in Percent :
        e = score.expected /\ h = score.high /\ c = score.confidence /\ e <= h
  BY <1>4 DEF ScoreSound
<1>8. e <= ScaleMoney(e, 115, 100)
  BY LoadedIsMore
<1>9. ScaleMoney(e, 115, 100) \in Nat
  BY ScaledNat
<1>10. /\ ScaleMoney(e, 115, 100) <= ScaleMoney(h, 11500 + 85 * (100 - c), One)
       /\ ScaleMoney(h, 11500 + 85 * (100 - c), One) \in Nat
  BY <1>7, RangeInOrder
<1>11. /\ row.expected = e /\ row.capital = h /\ row.confidence = c /\ row.capacity = score.mel
       /\ row.premium.low = ScaleMoney(e, 115, 100)
       /\ row.premium.high = ScaleMoney(h, 11500 + 85 * (100 - c), One)
  BY <1>5, <1>6, <1>7
<1>12. score.mel \in Nat /\ h <= score.mel
  BY <1>4, <1>7 DEF ScoreSound
<1>13. /\ {row.expected, row.premium.low, row.premium.high, row.capital, row.capacity} \subseteq Nat
       /\ row.expected <= row.premium.low /\ row.premium.low <= row.premium.high
       /\ row.expected <= row.capital /\ row.capital <= row.capacity
  BY <1>7, <1>8, <1>9, <1>10, <1>11, <1>12
<1>14. row.band = Band(score)
  BY <1>5, <1>6
<1>15. Band(score) \in Bands
  BY DEF Band, Bands
<1>16. ASSUME row.band = "LOW"
       PROVE  /\ score.expected <= Thresholds.ceiling
              /\ score.probability.confidence >= Thresholds.confidence
  BY <1>14, <1>16 DEF Band
<1>17. ASSUME row.band = "LOW"
       PROVE  /\ row.expected <= Thresholds.ceiling
              /\ row.of.factors # <<>>
              /\ \A i \in DOMAIN row.of.factors :
                   row.of.factors[i].confidence >= Thresholds.confidence
  <2>1. PICK k \in Percent : k = score.probability.confidence
    BY <1>4 DEF ScoreSound
  <2>2. k >= 75
    BY <1>16, <1>17, <2>1 DEF Thresholds
  <2>3. input.factors # <<>>
    BY <1>4, <2>1, <2>2 DEF ScoreSound
  <2>4. ASSUME NEW i \in DOMAIN input.factors PROVE input.factors[i].confidence >= 75
    <3>1. k <= input.factors[i].confidence
      BY <1>4, <2>1 DEF ScoreSound
    <3>2. input.factors[i].confidence \in Percent
      BY FactorsTyped DEF Factor
    <3> QED  BY <2>2, <3>1, <3>2 DEF Percent
  <2>5. row.expected <= Thresholds.ceiling
    BY <1>7, <1>11, <1>16, <1>17
  <2> QED  BY <1>5, <2>3, <2>4, <2>5 DEF Thresholds
<1> QED  BY <1>7, <1>11, <1>13, <1>14, <1>15, <1>17 DEF AssessedSound

-----------------------------------------------------------------------------
USE PlacementAssumption, RowAssumption

(* The ranks of the workflow, which no status leaves at its end. *)
LEMMA RankOfStatus == \A i \in 1 .. 5 : Rank(Status[i]) = i
<1> SUFFICES ASSUME NEW i \in 1 .. 5 PROVE Rank(Status[i]) = i
  OBVIOUS
<1>1. \A j \in 1 .. 5 : Status[j] = Status[i] => j = i
  BY DEF Status
<1>2. QED
  BY <1>1 DEF Rank

LEMMA ReadyIsLast ==
  ASSUME NEW to \in Statuses
  PROVE  ~ Transition("READY_FOR_UNDERWRITING", to)
<1>1. "READY_FOR_UNDERWRITING" = Status[5]
  BY DEF Status
<1>2. PICK i \in 1 .. 5 : to = Status[i]
  BY DEF Statuses
<1>3. Rank("READY_FOR_UNDERWRITING") = 5 /\ Rank(to) = i
  BY <1>1, <1>2, RankOfStatus
<1>4. QED
  BY <1>2, <1>3 DEF Transition

LEMMA StatusesAre ==
  /\ "DRAFT" \in Statuses /\ "READY_FOR_UNDERWRITING" \in Statuses
  /\ "DRAFT" # "READY_FOR_UNDERWRITING"
<1>1. Status[1] = "DRAFT" /\ Status[5] = "READY_FOR_UNDERWRITING"
  BY DEF Status
<1>2. QED
  BY <1>1 DEF Statuses

(* An assessment asks for a human exactly when its band is not LOW. *)
LEMMA AssessmentAsks ==
  ASSUME NEW row \in AssessmentRow
  PROVE  row.human = (row.band # "LOW")
<1>1. PICK input \in Inputs, v \in 1 .. MaxVersion : row = AssessmentOf(input, v)
  BY DEF AssessmentRow, Assessable
<1>2. PICK score : score = ScoreRisk(input)
  OBVIOUS
<1>3. PICK a : a = AssessUnderwriting(score)
  OBVIOUS
<1>4. row.human = a.human /\ row.band = a.band
  BY <1>1, <1>2, <1>3 DEF AssessmentOf
<1>5. a.human = (a.band # "LOW")
  BY <1>3 DEF AssessUnderwriting, NeedsHuman
<1>6. QED
  BY <1>4, <1>5

-----------------------------------------------------------------------------
(* What Inv says of one submission. *)
Sound(s) ==
  /\ listing[s] # None =>
       /\ listing[s].a \in 1 .. Len(assessments[RiskOf[s]])
       /\ Assessed(s).band # "LOW" => Approved(s)
       /\ s \notin overlapped => submission[s] = "READY_FOR_UNDERWRITING"
       /\ \/ <<"create", s>> \in audit \/ s \in untold
          \/ \E r \in Request : At(r, "list.audit") /\ req[r].id = s
  /\ <<"create", s>> \in audit => listing[s] # None
  /\ <<"withdraw", s>> \in audit => listing[s] # None /\ Closed(listing[s])

OneAdvances ==
  \A r, t \in Request :
    At(r, "advance") /\ At(t, "advance") /\ req[r].id = req[t].id
      => r = t \/ req[r].id \in overlapped

LEMMA InvBySound ==
  Inv <=> /\ TypeOK /\ OneAdvances
          /\ \A s \in Submission : Sound(s)
          /\ \A r \in Request : Knows(req[r])
BY DEF Inv, ListedOnClearance, ListedIsReady, AuditTold, HandlersKnow, Sound, OneAdvances

LEMMA InitInv == Init => Inv
<1> SUFFICES ASSUME Init PROVE Inv
  OBVIOUS
<1>1. TypeOK
  BY DEF Init, TypeOK, Idle, Pcs
<1>2. QED
  BY <1>1 DEF Init, Inv, ListedOnClearance, ListedIsReady, AuditTold, HandlersKnow, Knows, Idle, At

RequestState ==
  [pc : Pcs, id : Submission \cup Risk \cup {None}, to : Statuses \cup Decisions \cup {None},
   a : Nat, p : Nat, stale : BOOLEAN]

LEMMA Typed ==
  ASSUME TypeOK
  PROVE  /\ req \in [Request -> RequestState]
         /\ \A k \in Risk : /\ assessments[k] \in Seq(AssessmentRow)
                            /\ approvals[k] \in Seq(ApprovalRow)
                            /\ Len(assessments[k]) \in Nat /\ Len(approvals[k]) \in Nat
         /\ \A s \in Submission : RiskOf[s] \in Risk
<1>1. \A k \in Risk : assessments[k] \in Seq(AssessmentRow) /\ approvals[k] \in Seq(ApprovalRow)
  BY DEF TypeOK
<1>2. QED
  BY <1>1 DEF TypeOK, RequestState

(* Rows about a risk are only ever added. *)
Grows ==
  \A k \in Risk :
    /\ Len(assessments[k]) <= Len(assessments'[k])
    /\ \A a \in 1 .. Len(assessments[k]) : assessments'[k][a] = assessments[k][a]
    /\ Len(approvals[k]) <= Len(approvals'[k])
    /\ \A p \in 1 .. Len(approvals[k]) : approvals'[k][p] = approvals[k][p]

LEMMA LengthsGrow ==
  ASSUME TypeOK, TypeOK', Grows, NEW k \in Risk
  PROVE  /\ Len(assessments[k]) \in Nat /\ Len(assessments'[k]) \in Nat
         /\ Len(approvals[k]) \in Nat /\ Len(approvals'[k]) \in Nat
         /\ Len(assessments[k]) <= Len(assessments'[k]) /\ Len(approvals[k]) <= Len(approvals'[k])
<1>1. assessments'[k] \in Seq(AssessmentRow) /\ approvals'[k] \in Seq(ApprovalRow)
  BY DEF TypeOK
<1>2. Len(assessments'[k]) \in Nat /\ Len(approvals'[k]) \in Nat
  BY <1>1
<1>3. QED
  BY <1>2, Typed DEF Grows

(* A clearance stands, whatever is added. *)
LEMMA ClearanceStands ==
  ASSUME TypeOK, TypeOK', Grows, NEW k \in Risk, NEW a \in 1 .. Len(assessments[k]),
         NEW p \in 0 .. Len(approvals[k]), Clears(k, a, p)
  PROVE  Clears(k, a, p)'
<1>1. assessments'[k][a] = assessments[k][a]
  BY DEF Grows
<1>2. p # 0 => approvals'[k][p] = approvals[k][p]
  BY Typed DEF Grows
<1>3. QED
  BY <1>1, <1>2 DEF Clears

(* What is listed on a clearance is approved, unless its band is LOW. *)
LEMMA ClearedIsApproved ==
  ASSUME TypeOK, NEW s \in Submission, listing[s] # None,
         listing[s].a \in 1 .. Len(assessments[RiskOf[s]]),
         listing[s].p \in 0 .. Len(approvals[RiskOf[s]]),
         Clears(RiskOf[s], listing[s].a, listing[s].p), Assessed(s).band # "LOW"
  PROVE  Approved(s)
<1>1. assessments[RiskOf[s]][listing[s].a] \in AssessmentRow
  BY Typed
<1>2. Assessed(s).human
  BY <1>1, AssessmentAsks DEF Assessed
<1>3. QED
  BY <1>2, Typed DEF Clears, Approved, Assessed

-----------------------------------------------------------------------------
(* A request that a step leaves where it is; it may be told it is outdated. *)
Waits(t) ==
  /\ req'[t].pc = req[t].pc /\ req'[t].id = req[t].id /\ req'[t].to = req[t].to
  /\ req'[t].a = req[t].a /\ req'[t].p = req[t].p
  /\ req[t].stale => req'[t].stale

(* The listings and the overlaps that are known stay known. *)
Remembers ==
  /\ overlapped \subseteq overlapped' /\ untold \subseteq untold'
  /\ \A s \in Submission :
       /\ submission[s] # None => submission'[s] # None
       /\ listing[s] # None =>
            /\ listing'[s] # None
            /\ Closed(listing[s]) => Closed(listing'[s])

(* It still knows what it knew, if its submission stays where it was and   *)
(* the latest rows about its risk are the same or it is told they are not. *)
LEMMA StaysKnowing ==
  ASSUME TypeOK, TypeOK', Grows, Remembers, NEW t \in Request, Waits(t), Knows(req[t]),
         req[t].pc \in {"advance", "list.assessment", "list.approval", "list.existing", "list.insert"}
           /\ req[t].id \notin overlapped' => submission'[req[t].id] = submission[req[t].id],
         Listing(t) /\ ~ req'[t].stale =>
           /\ assessments'[RiskOf[req[t].id]] = assessments[RiskOf[req[t].id]]
           /\ approvals'[RiskOf[req[t].id]] = approvals[RiskOf[req[t].id]]
  PROVE  Knows(req[t])'
<1>1. PICK q : q = req[t]
  OBVIOUS
<1>2. PICK u : u = req'[t]
  OBVIOUS
<1>3. Knows(q) /\ u.pc = q.pc /\ u.id = q.id /\ u.to = q.to /\ u.a = q.a /\ u.p = q.p
      /\ (q.stale => u.stale) /\ u.stale \in BOOLEAN /\ q.stale \in BOOLEAN
  BY <1>1, <1>2 DEF Waits, TypeOK
<1>4. q.pc = "advance" =>
        /\ u.id \in Submission /\ submission'[u.id] # None /\ u.to \in Statuses
        /\ u.id \notin overlapped' => Transition(submission'[u.id], u.to)
  BY <1>1, <1>3 DEF Knows, Remembers, Found
<1>5. q.pc = "approve" =>
        u.id \in Risk /\ u.to \in Decisions /\ u.a \in 1 .. Len(assessments'[u.id])
  <2> SUFFICES ASSUME q.pc = "approve"
               PROVE  u.id \in Risk /\ u.to \in Decisions /\ u.a \in 1 .. Len(assessments'[u.id])
    OBVIOUS
  <2>1. q.id \in Risk /\ q.to \in Decisions /\ q.a \in 1 .. Len(assessments[q.id])
    BY <1>3 DEF Knows
  <2>2. Len(assessments[q.id]) <= Len(assessments'[q.id])
        /\ Len(assessments[q.id]) \in Nat /\ Len(assessments'[q.id]) \in Nat
    BY <2>1, LengthsGrow
  <2>3. QED
    BY <1>3, <2>1, <2>2
<1>6. q.pc \in {"list.assessment", "list.approval", "list.existing", "list.insert"} =>
        /\ u.id \in Submission /\ submission'[u.id] # None
        /\ u.id \notin overlapped' => submission'[u.id] = "READY_FOR_UNDERWRITING"
  BY <1>1, <1>3 DEF Knows, Remembers, Found
<1>7. ASSUME q.pc \in {"list.approval", "list.existing", "list.insert"}
      PROVE  /\ u.a \in 1 .. Len(assessments'[RiskOf[u.id]])
             /\ ~ u.stale => u.a = Len(assessments'[RiskOf[u.id]])
             /\ q.pc # "list.approval" =>
                  /\ u.p \in 0 .. Len(approvals'[RiskOf[u.id]])
                  /\ Clears(RiskOf[u.id], u.a, u.p)'
                  /\ ~ u.stale => u.p = Len(approvals'[RiskOf[u.id]])
  <2>1. PICK k \in Risk : k = RiskOf[q.id]
    BY <1>3, <1>7 DEF Knows
  <2>2. /\ Len(assessments[k]) <= Len(assessments'[k]) /\ Len(approvals[k]) <= Len(approvals'[k])
        /\ Len(assessments[k]) \in Nat /\ Len(assessments'[k]) \in Nat
        /\ Len(approvals[k]) \in Nat /\ Len(approvals'[k]) \in Nat
    BY LengthsGrow
  <2>3. ~ u.stale => assessments'[k] = assessments[k] /\ approvals'[k] = approvals[k]
    BY <1>1, <1>2, <1>7, <2>1 DEF Listing
  <2>4. /\ q.a \in 1 .. Len(assessments[k])
        /\ ~ q.stale => q.a = Len(assessments[k])
        /\ q.pc # "list.approval" =>
             /\ q.p \in 0 .. Len(approvals[k]) /\ Clears(k, q.a, q.p)
             /\ ~ q.stale => q.p = Len(approvals[k])
    BY <1>3, <1>7, <2>1 DEF Knows, LatestAssessment, LatestApproval
  <2>5. q.pc # "list.approval" => Clears(k, q.a, q.p)'
    BY <2>4, ClearanceStands
  <2>6. u.a \in 1 .. Len(assessments'[k]) /\ (~ u.stale => u.a = Len(assessments'[k]))
    BY <1>3, <2>2, <2>3, <2>4
  <2>7. q.pc # "list.approval" =>
          u.p \in 0 .. Len(approvals'[k]) /\ (~ u.stale => u.p = Len(approvals'[k]))
    BY <1>3, <2>2, <2>3, <2>4
  <2>8. q.pc # "list.approval" => Clears(k, u.a, u.p)'
    BY <1>3, <2>5 DEF Clears
  <2>9. QED
    <3>1. RiskOf[u.id] = k
      BY <1>3, <2>1
    <3>2. q.pc # "list.approval" => Clears(RiskOf[u.id], u.a, u.p)'
      BY <2>8, <3>1 DEF Clears
    <3>3. QED
      BY <2>6, <2>7, <3>1, <3>2
<1>8. q.pc \in {"list.audit", "withdraw.audit"} =>
        /\ q.id \in Submission /\ listing[q.id] # None
        /\ q.pc = "withdraw.audit" => Closed(listing[q.id])
  BY <1>3 DEF Knows, Listed
<1>9. q.pc \in {"list.audit", "withdraw.audit"} =>
        /\ u.id \in Submission /\ listing'[u.id] # None
        /\ q.pc = "withdraw.audit" => Closed(listing'[u.id])
  <2>1. u.id = q.id
    BY <1>3
  <2>2. \A s \in Submission : listing[s] # None =>
          listing'[s] # None /\ (Closed(listing[s]) => Closed(listing'[s]))
    BY DEF Remembers
  <2>3. QED
    BY <1>8, <2>1, <2>2
<1>10. QED
  BY <1>2, <1>3, <1>4, <1>5, <1>6, <1>7, <1>8, <1>9
     DEF Knows, Found, Listed, LatestAssessment, LatestApproval

(* A submission stays sound if it is not listed, advanced or audited.      *)
LEMMA StaysSound ==
  ASSUME TypeOK, TypeOK', Grows, Remembers, NEW s \in Submission, Sound(s),
         listing'[s] = listing[s],
         listing[s] # None /\ s \notin overlapped' => submission'[s] = submission[s],
         <<"create", s>> \in audit' <=> <<"create", s>> \in audit,
         <<"withdraw", s>> \in audit' <=> <<"withdraw", s>> \in audit,
         \A t \in Request : At(t, "list.audit") /\ req[t].id = s =>
           s \in untold' \/ (req'[t].pc = "list.audit" /\ req'[t].id = s)
  PROVE  Sound(s)'
<1>1. ASSUME listing[s] # None
      PROVE  /\ listing[s].a \in 1 .. Len(assessments'[RiskOf[s]])
             /\ Assessed(s)' = Assessed(s)
             /\ Approved(s) => Approved(s)'
  <2>1. PICK k \in Risk : k = RiskOf[s]
    OBVIOUS
  <2>2. /\ Len(assessments[k]) \in Nat /\ Len(assessments'[k]) \in Nat
        /\ Len(approvals[k]) \in Nat /\ Len(approvals'[k]) \in Nat
    BY LengthsGrow
  <2>3. listing[s].a \in 1 .. Len(assessments[k])
    BY <1>1, <2>1 DEF Sound
  <2>4. assessments'[k][listing[s].a] = assessments[k][listing[s].a]
        /\ listing[s].a \in 1 .. Len(assessments'[k])
    BY <2>2, <2>3 DEF Grows
  <2>5. Assessed(s)' = Assessed(s)
    BY <2>1, <2>4 DEF Assessed
  <2>6. Approved(s) => Approved(s)'
    BY <2>1, <2>2, <2>5 DEF Approved, Grows
  <2>7. QED
    BY <2>1, <2>4, <2>5, <2>6
<1>2. QED
  BY <1>1 DEF Sound, At, Remembers

(* So a step answers only for what it changes. *)
LEMMA Frame ==
  ASSUME Inv, TypeOK', Grows, Remembers, NEW r \in Request, Knows(req[r])', OneAdvances',
         \A t \in Request \ {r} : Waits(t),
         \A s \in Submission : Sound(s)',
         \A t \in Request \ {r} :
           /\ req[t].pc \in {"advance", "list.assessment", "list.approval", "list.existing", "list.insert"}
                /\ req[t].id \notin overlapped' => submission'[req[t].id] = submission[req[t].id]
           /\ Listing(t) /\ ~ req'[t].stale =>
                /\ assessments'[RiskOf[req[t].id]] = assessments[RiskOf[req[t].id]]
                /\ approvals'[RiskOf[req[t].id]] = approvals[RiskOf[req[t].id]]
  PROVE  Inv'
<1>1. ASSUME NEW t \in Request PROVE Knows(req[t])'
  BY InvBySound, StaysKnowing
<1>2. QED
  BY <1>1 DEF Inv, ListedOnClearance, ListedIsReady, AuditTold, HandlersKnow, Sound, OneAdvances

-----------------------------------------------------------------------------
(* The workflow. *)
LEMMA CreateSubmissionKeeps ==
  ASSUME Inv, NEW r \in Request, NEW s \in Submission, CreateSubmission(r, s)
  PROVE  Inv'
<1>1. TypeOK /\ OneAdvances /\ (\A u \in Submission : Sound(u))
      /\ \A t \in Request : Knows(req[t])
  BY InvBySound
<1>2. /\ submission[s] = None /\ submission' = [submission EXCEPT ![s] = "DRAFT"]
      /\ UNCHANGED <<assessments, approvals, listing, version, audit, req, overlapped, untold>>
  BY DEF CreateSubmission, InsertSubmission, Found
<1>3. submission'[s] = "DRAFT" /\ \A u \in Submission \ {s} : submission'[u] = submission[u]
  BY <1>1, <1>2 DEF TypeOK
<1>4. TypeOK'
  BY <1>1, <1>2, StatusesAre DEF TypeOK
<1>5. Grows
  BY <1>1, <1>2, Typed DEF Grows
<1>6. Remembers
  BY <1>2, <1>3, StatusesAre DEF Remembers
<1>7. ASSUME NEW u \in Submission PROVE Sound(u)'
  <2>1. listing[u] # None /\ u \notin overlapped => u # s
    BY <1>1, <1>2, StatusesAre DEF Sound
  <2>2. QED
    BY <1>1, <1>2, <1>3, <1>4, <1>5, <1>6, <2>1, StaysSound DEF At
<1>8. ASSUME NEW t \in Request PROVE Knows(req[t])'
  <2>1. req[t].pc \in {"advance", "list.assessment", "list.approval", "list.existing", "list.insert"}
          => req[t].id \in Submission \ {s}
    BY <1>1, <1>2 DEF Knows, Found
  <2>2. Waits(t)
    BY <1>2 DEF Waits
  <2>3. QED
    BY <1>1, <1>2, <1>3, <1>4, <1>5, <1>6, <2>1, <2>2, StaysKnowing
<1>9. OneAdvances'
  BY <1>1, <1>2 DEF OneAdvances, At
<1>10. QED
  BY <1>4, <1>7, <1>8, <1>9
     DEF Inv, ListedOnClearance, ListedIsReady, AuditTold, HandlersKnow, Sound, OneAdvances

(* A step of a request that writes no row: reads, crashes. *)
LEMMA RequestOnly ==
  ASSUME Inv, NEW r \in Request, NEW q \in RequestState, req' = [req EXCEPT ![r] = q],
         UNCHANGED <<rows, version, audit, overlapped>>,
         untold' \in {untold, untold \cup {req[r].id}}, untold' \subseteq Submission,
         q.pc # "advance", req[r].pc = "list.audit" => req[r].id \in untold',
         req'[r] = q => Knows(req[r])'
  PROVE  Inv'
<1>1. TypeOK /\ OneAdvances /\ (\A u \in Submission : Sound(u))
      /\ \A t \in Request : Knows(req[t])
  BY InvBySound
<1>2. req'[r] = q /\ \A t \in Request \ {r} : req'[t] = req[t]
  BY <1>1 DEF TypeOK
<1>3. UNCHANGED <<submission, assessments, approvals, listing, version, audit, overlapped>>
  BY DEF rows
<1>4. TypeOK'
  <2>1. req' \in [Request -> RequestState]
    BY <1>1, Typed
  <2>2. QED
    BY <1>1, <1>3, <2>1 DEF TypeOK, RequestState
<1>5. Grows
  BY <1>1, <1>3, Typed DEF Grows
<1>6. Remembers
  BY <1>3 DEF Remembers
<1>7. ASSUME NEW u \in Submission PROVE Sound(u)'
  <2>1. \A t \in Request : At(t, "list.audit") /\ req[t].id = u =>
          u \in untold' \/ (req'[t].pc = "list.audit" /\ req'[t].id = u)
    BY <1>2 DEF At
  <2>2. QED
    BY <1>1, <1>3, <1>4, <1>5, <1>6, <2>1, StaysSound
<1>8. OneAdvances'
  BY <1>1, <1>2, <1>3 DEF OneAdvances, At
<1>9. \A t \in Request \ {r} : Waits(t)
  BY <1>2 DEF Waits
<1>10. Knows(req[r])'
  BY <1>2
<1>11. QED
  BY <1>1, <1>3, <1>4, <1>5, <1>6, <1>7, <1>8, <1>9, <1>10, Frame

LEMMA IdleKnows ==
  ASSUME NEW r \in Request, req'[r] = Idle
  PROVE  Knows(req[r])'
BY DEF Knows, Idle

LEMMA IdleTyped == Idle \in RequestState /\ Idle.pc = "idle"
  BY DEF Idle, RequestState, Pcs

LEMMA AdvanceFindKeeps ==
  ASSUME Inv, NEW r \in Request, NEW s \in Submission, NEW to \in Statuses, AdvanceFind(r, s, to)
  PROVE  Inv'
<1>1. TypeOK /\ OneAdvances /\ (\A u \in Submission : Sound(u))
      /\ \A t \in Request : Knows(req[t])
  BY InvBySound
<1>2. PICK q : q = [Idle EXCEPT !.pc = "advance", !.id = s, !.to = to]
  OBVIOUS
<1>3. q \in RequestState /\ q.pc = "advance" /\ q.id = s /\ q.to = to
  <2>1. q = [pc |-> "advance", id |-> s, to |-> to, a |-> 0, p |-> 0, stale |-> FALSE]
    BY <1>2 DEF Idle
  <2>2. QED
    BY <2>1 DEF RequestState, Pcs
<1>4. /\ req' = [req EXCEPT ![r] = q] /\ req[r].pc = "idle"
      /\ submission[s] # None /\ Transition(submission[s], to)
      /\ overlapped' = IF \E t \in Request : At(t, "advance") /\ req[t].id = s
                       THEN overlapped \cup {s} ELSE overlapped
      /\ UNCHANGED <<submission, assessments, approvals, listing, version, audit, untold>>
  BY <1>2 DEF AdvanceFind, Become, Found, At, rows
<1>5. req'[r] = q /\ \A t \in Request \ {r} : req'[t] = req[t]
  BY <1>1, <1>4 DEF TypeOK
<1>6. TypeOK'
  <2>1. req' \in [Request -> RequestState]
    BY <1>1, <1>3, <1>4, Typed
  <2>2. overlapped' \subseteq Submission
    BY <1>1, <1>4 DEF TypeOK
  <2>3. QED
    BY <1>1, <1>4, <2>1, <2>2 DEF TypeOK, RequestState
<1>7. Grows /\ Remembers
  BY <1>1, <1>4, Typed DEF Grows, Remembers
<1>8. ASSUME NEW u \in Submission PROVE Sound(u)'
  <2>1. \A t \in Request : At(t, "list.audit") /\ req[t].id = u =>
          req'[t].pc = "list.audit" /\ req'[t].id = u
    BY <1>4, <1>5 DEF At
  <2>2. QED
    BY <1>1, <1>4, <1>6, <1>7, <2>1, StaysSound
<1>9. OneAdvances'
  <2>1. \A t \in Request : req[t].pc = "advance" /\ req[t].id = s => s \in overlapped'
    BY <1>4 DEF At
  <2>2. QED
    BY <1>1, <1>3, <1>4, <1>5, <2>1 DEF OneAdvances, At
<1>10. Knows(req[r])'
  BY <1>3, <1>4, <1>5 DEF Knows, Found
<1>11. \A t \in Request \ {r} : Waits(t)
  BY <1>5 DEF Waits
<1>12. QED
  BY <1>4, <1>6, <1>7, <1>8, <1>9, <1>10, <1>11, Frame

(* Nothing that is ready, and so nothing that is listed, is advanced, *)
(* except by a request that overlaps another.                         *)
LEMMA AdvanceKeeps ==
  ASSUME Inv, NEW r \in Request, Advance(r)
  PROVE  Inv'
<1>1. TypeOK /\ OneAdvances /\ (\A u \in Submission : Sound(u))
      /\ \A t \in Request : Knows(req[t])
  BY InvBySound
<1>2. PICK s \in Submission, to \in Statuses :
        /\ req[r].pc = "advance" /\ s = req[r].id /\ to = req[r].to /\ submission[s] # None
        /\ s \notin overlapped => Transition(submission[s], to)
  BY <1>1 DEF Advance, At, Knows, Found
<1>3. /\ req' = [req EXCEPT ![r] = Idle] /\ submission' = [submission EXCEPT ![s] = to]
      /\ UNCHANGED <<assessments, approvals, listing, version, audit, overlapped, untold>>
  BY <1>2 DEF Advance, Become, SetSubmissionStatus
<1>4. /\ req'[r] = Idle /\ \A t \in Request \ {r} : req'[t] = req[t]
      /\ submission'[s] = to /\ \A u \in Submission \ {s} : submission'[u] = submission[u]
  BY <1>1, <1>3 DEF TypeOK
<1>5. TypeOK'
  <2>1. req' \in [Request -> RequestState]
    BY <1>1, <1>3, Typed, IdleTyped
  <2>2. submission' \in [Submission -> Statuses \cup {None}]
    BY <1>1, <1>3 DEF TypeOK
  <2>3. QED
    BY <1>1, <1>3, <2>1, <2>2 DEF TypeOK, RequestState
<1>6. Grows /\ Remembers
  BY <1>1, <1>3, <1>4, Typed DEF Grows, Remembers
<1>7. s \notin overlapped => submission[s] # "READY_FOR_UNDERWRITING"
  BY <1>2, ReadyIsLast
<1>8. ASSUME NEW u \in Submission PROVE Sound(u)'
  <2>1. \A t \in Request : At(t, "list.audit") /\ req[t].id = u =>
          req'[t].pc = "list.audit" /\ req'[t].id = u
    BY <1>2, <1>4 DEF At
  <2>2. listing[u] # None /\ u \notin overlapped => u # s
    BY <1>1, <1>7 DEF Sound
  <2>3. QED
    BY <1>1, <1>3, <1>4, <1>5, <1>6, <2>1, <2>2, StaysSound
<1>9. OneAdvances'
  BY <1>1, <1>3, <1>4, IdleTyped DEF OneAdvances, At
<1>10. ASSUME NEW t \in Request \ {r}
       PROVE  /\ Waits(t)
              /\ req[t].pc \in {"advance", "list.assessment", "list.approval", "list.existing",
                                "list.insert"} /\ req[t].id \notin overlapped'
                   => submission'[req[t].id] = submission[req[t].id]
  <2>1. Waits(t)
    BY <1>4 DEF Waits
  <2>2. req[t].pc = "advance" /\ req[t].id \notin overlapped => req[t].id \in Submission \ {s}
    BY <1>1, <1>2 DEF OneAdvances, At, Knows
  <2>3. req[t].pc \in {"list.assessment", "list.approval", "list.existing", "list.insert"}
          /\ req[t].id \notin overlapped => req[t].id \in Submission \ {s}
    BY <1>1, <1>7 DEF Knows
  <2>4. QED
    BY <1>3, <1>4, <2>1, <2>2, <2>3
<1>11. QED
  BY <1>3, <1>4, <1>5, <1>6, <1>8, <1>9, <1>10, IdleKnows, Frame

-----------------------------------------------------------------------------
(* Underwriting: a row more, and whoever is about to list is told so. *)
LEMMA OutdatedTells ==
  ASSUME NEW k \in Risk, NEW q \in [Request -> RequestState], TypeOK, NEW t \in Request,
         q[t] = req[t], req'[t] = Outdated(k, q)[t]
  PROVE  /\ Waits(t) /\ req'[t] \in RequestState
         /\ Listing(t) /\ ~ req'[t].stale => RiskOf[req[t].id] # k
<1>1. q[t] \in RequestState
  OBVIOUS
<1>2. CASE Listing(t) /\ RiskOf[req[t].id] = k
  <2>1. req'[t] = [q[t] EXCEPT !.stale = TRUE]
    BY <1>2 DEF Outdated
  <2>2. QED
    BY <1>1, <1>2, <2>1 DEF Waits, RequestState
<1>3. CASE ~ (Listing(t) /\ RiskOf[req[t].id] = k)
  <2>1. req'[t] = q[t]
    BY <1>3 DEF Outdated
  <2>2. QED
    BY <1>1, <1>3, <2>1 DEF Waits
<1>4. QED
  BY <1>2, <1>3

LEMMA AppendGrows ==
  ASSUME TypeOK, NEW k \in Risk,
         \/ /\ UNCHANGED approvals
            /\ \E row \in AssessmentRow : assessments' = [assessments EXCEPT ![k] = Append(@, row)]
         \/ /\ UNCHANGED assessments
            /\ \E row \in ApprovalRow : approvals' = [approvals EXCEPT ![k] = Append(@, row)]
  PROVE  /\ Grows
         /\ assessments' \in [Risk -> Seq(AssessmentRow)]
         /\ approvals' \in [Risk -> Seq(ApprovalRow)]
         /\ \A j \in Risk \ {k} : assessments'[j] = assessments[j] /\ approvals'[j] = approvals[j]
<1>1. /\ assessments \in [Risk -> Seq(AssessmentRow)] /\ approvals \in [Risk -> Seq(ApprovalRow)]
      /\ \A j \in Risk : assessments[j] \in Seq(AssessmentRow) /\ approvals[j] \in Seq(ApprovalRow)
  BY DEF TypeOK
<1>2. ASSUME UNCHANGED approvals, NEW row \in AssessmentRow,
             assessments' = [assessments EXCEPT ![k] = Append(@, row)]
      PROVE  /\ \A j \in Risk : assessments'[j] = IF j = k THEN Append(assessments[k], row)
                                                  ELSE assessments[j]
             /\ assessments' \in [Risk -> Seq(AssessmentRow)]
  BY <1>1, <1>2
<1>3. ASSUME UNCHANGED assessments, NEW row \in ApprovalRow,
             approvals' = [approvals EXCEPT ![k] = Append(@, row)]
      PROVE  /\ \A j \in Risk : approvals'[j] = IF j = k THEN Append(approvals[k], row)
                                                ELSE approvals[j]
             /\ approvals' \in [Risk -> Seq(ApprovalRow)]
  BY <1>1, <1>3
<1>4. ASSUME NEW S, NEW f \in Seq(S), NEW x
      PROVE  /\ Len(Append(f, x)) = Len(f) + 1 /\ Len(f) \in Nat
             /\ \A i \in 1 .. Len(f) : Append(f, x)[i] = f[i]
  OBVIOUS
<1>5. CASE /\ UNCHANGED approvals
           /\ \E row \in AssessmentRow : assessments' = [assessments EXCEPT ![k] = Append(@, row)]
  BY <1>1, <1>2, <1>4, <1>5 DEF Grows
<1>6. CASE /\ UNCHANGED assessments
           /\ \E row \in ApprovalRow : approvals' = [approvals EXCEPT ![k] = Append(@, row)]
  BY <1>1, <1>3, <1>4, <1>6 DEF Grows
<1>7. QED
  BY <1>5, <1>6

LEMMA AssessKeeps ==
  ASSUME Inv, NEW r \in Request, NEW k \in Risk, NEW input \in Inputs, Assess(r, k, input)
  PROVE  Inv'
<1>1. TypeOK /\ OneAdvances /\ (\A u \in Submission : Sound(u))
      /\ (\A t \in Request : Knows(req[t])) /\ req \in [Request -> RequestState]
  BY InvBySound, Typed
<1>2. PICK row : row = AssessmentOf(input, version)
  OBVIOUS
<1>3. row \in AssessmentRow
  BY <1>1, <1>2 DEF AssessmentRow, Assess, TypeOK
<1>4. /\ assessments' = [assessments EXCEPT ![k] = Append(@, row)]
      /\ Len(assessments[k]) < MaxAssessments
      /\ req' = Outdated(k, req)
      /\ UNCHANGED <<submission, approvals, listing, version, audit, overlapped, untold>>
  BY <1>2 DEF Assess, InsertAssessment, Assessment
<1>5. /\ Grows
      /\ assessments' \in [Risk -> Seq(AssessmentRow)]
      /\ \A j \in Risk \ {k} : assessments'[j] = assessments[j] /\ approvals'[j] = approvals[j]
  BY <1>1, <1>3, <1>4, AppendGrows
<1>6. \A t \in Request : /\ Waits(t) /\ req'[t] \in RequestState
                         /\ Listing(t) /\ ~ req'[t].stale => RiskOf[req[t].id] # k
  BY <1>1, <1>4, OutdatedTells
<1>7. TypeOK'
  <2>1. req' \in [Request -> RequestState]
    BY <1>4, <1>6 DEF Outdated
  <2>2. Len(assessments'[k]) = Len(assessments[k]) + 1 /\ Len(assessments[k]) \in Nat
    BY <1>1, <1>4, Typed DEF TypeOK
  <2>3. \A j \in Risk : Len(assessments'[j]) <= MaxAssessments
    BY <1>1, <1>4, <1>5, <2>2 DEF TypeOK
  <2>4. QED
    BY <1>1, <1>4, <1>5, <2>1, <2>3 DEF TypeOK, RequestState
<1>8. Remembers
  BY <1>4 DEF Remembers
<1>9. ASSUME NEW u \in Submission PROVE Sound(u)'
  BY <1>1, <1>4, <1>5, <1>6, <1>7, <1>8, StaysSound DEF At, Waits
<1>10. OneAdvances'
  BY <1>1, <1>4, <1>6 DEF OneAdvances, At, Waits
<1>11. ASSUME NEW t \in Request
       PROVE  Listing(t) /\ ~ req'[t].stale =>
                /\ assessments'[RiskOf[req[t].id]] = assessments[RiskOf[req[t].id]]
                /\ approvals'[RiskOf[req[t].id]] = approvals[RiskOf[req[t].id]]
  <2>1. Listing(t) => RiskOf[req[t].id] \in Risk
    BY <1>1, Typed DEF Listing, Knows
  <2>2. QED
    BY <1>5, <1>6, <2>1
<1>12. Knows(req[r])'
  BY <1>1, <1>4, <1>5, <1>6, <1>7, <1>8, <1>11, StaysKnowing
<1>13. QED
  BY <1>4, <1>5, <1>6, <1>7, <1>8, <1>9, <1>10, <1>11, <1>12, Frame

LEMMA ApproveFindKeeps ==
  ASSUME Inv, NEW r \in Request, NEW k \in Risk, NEW decision \in Decisions,
         ApproveFind(r, k, decision)
  PROVE  Inv'
<1>1. TypeOK
  BY DEF Inv
<1>2. PICK a : a = LatestAssessment(k)
  OBVIOUS
<1>3. a \in 1 .. Len(assessments[k]) /\ a \in Nat
  BY <1>1, <1>2, Typed DEF ApproveFind, LatestAssessment
<1>4. PICK q : q = [Idle EXCEPT !.pc = "approve", !.id = k, !.to = decision, !.a = a]
  OBVIOUS
<1>5. /\ q \in RequestState
      /\ q.pc = "approve" /\ q.id = k /\ q.to = decision /\ q.a = a
  <2>1. q = [pc |-> "approve", id |-> k, to |-> decision, a |-> a, p |-> 0, stale |-> FALSE]
    BY <1>4 DEF Idle
  <2>2. QED
    BY <1>3, <2>1 DEF RequestState, Pcs
<1>6. req' = [req EXCEPT ![r] = q] /\ UNCHANGED <<rows, version, audit, overlapped, untold>>
      /\ req[r].pc = "idle"
  BY <1>2, <1>4 DEF ApproveFind, Become, At
<1>7. req'[r] = q => Knows(req[r])'
  BY <1>3, <1>5, <1>6 DEF Knows, rows
<1>8. QED
  BY <1>1, <1>5, <1>6, <1>7, RequestOnly DEF TypeOK

LEMMA ApproveKeeps ==
  ASSUME Inv, NEW r \in Request, Approve(r)
  PROVE  Inv'
<1>1. TypeOK /\ OneAdvances /\ (\A u \in Submission : Sound(u))
      /\ (\A t \in Request : Knows(req[t])) /\ req \in [Request -> RequestState]
  BY InvBySound, Typed
<1>2. PICK k \in Risk, a \in 1 .. Len(assessments[req[r].id]), decision \in Decisions :
        req[r].pc = "approve" /\ req[r].id = k /\ req[r].a = a /\ req[r].to = decision
  BY <1>1 DEF Approve, At, Knows
<1>3. assessments[k][a] \in AssessmentRow /\ a \in Nat
  BY <1>1, <1>2, Typed
<1>4. assessments[k][a].version \in 1 .. MaxVersion
  <2>1. PICK input \in Inputs, v \in 1 .. MaxVersion : assessments[k][a] = AssessmentOf(input, v)
    BY <1>3 DEF AssessmentRow, Assessable
  <2>2. QED
    BY <2>1 DEF AssessmentOf
<1>5. PICK row : row = [of |-> a, version |-> assessments[k][a].version, decision |-> decision]
  OBVIOUS
<1>6. row \in ApprovalRow
  BY <1>3, <1>4, <1>5 DEF ApprovalRow
<1>7. PICK q \in [Request -> RequestState] : q = [req EXCEPT ![r] = Idle]
  BY <1>1, IdleTyped
<1>8. /\ approvals' = [approvals EXCEPT ![k] = Append(@, row)]
      /\ Len(approvals[k]) < MaxApprovals
      /\ req' = Outdated(k, q)
      /\ UNCHANGED <<submission, assessments, listing, version, audit, overlapped, untold>>
  BY <1>2, <1>5, <1>7 DEF Approve, InsertApproval
<1>9. /\ Grows
      /\ approvals' \in [Risk -> Seq(ApprovalRow)]
      /\ \A j \in Risk \ {k} : assessments'[j] = assessments[j] /\ approvals'[j] = approvals[j]
  BY <1>1, <1>6, <1>8, AppendGrows
<1>10. req'[r] = Idle
  <2>1. ~ Listing(r)
    BY <1>2 DEF Listing
  <2>2. QED
    BY <1>7, <1>8, <2>1, <1>1 DEF Outdated
<1>11. \A t \in Request \ {r} : /\ Waits(t) /\ req'[t] \in RequestState
                                /\ Listing(t) /\ ~ req'[t].stale => RiskOf[req[t].id] # k
  BY <1>1, <1>7, <1>8, OutdatedTells
<1>12. TypeOK'
  <2>1. req' \in [Request -> RequestState]
    BY <1>8, <1>10, <1>11, IdleTyped DEF Outdated
  <2>2. Len(approvals'[k]) = Len(approvals[k]) + 1 /\ Len(approvals[k]) \in Nat
    BY <1>1, <1>8, Typed DEF TypeOK
  <2>3. \A j \in Risk : Len(approvals'[j]) <= MaxApprovals
    BY <1>1, <1>8, <1>9, <2>2 DEF TypeOK
  <2>4. QED
    BY <1>1, <1>8, <1>9, <2>1, <2>3 DEF TypeOK, RequestState
<1>13. Remembers
  BY <1>8 DEF Remembers
<1>14. ASSUME NEW u \in Submission PROVE Sound(u)'
  <2>1. \A t \in Request : At(t, "list.audit") /\ req[t].id = u =>
          req'[t].pc = "list.audit" /\ req'[t].id = u
    BY <1>2, <1>11 DEF At, Waits
  <2>2. QED
    BY <1>1, <1>8, <1>9, <1>12, <1>13, <2>1, StaysSound
<1>15. OneAdvances'
  BY <1>1, <1>8, <1>10, <1>11, IdleTyped DEF OneAdvances, At, Waits
<1>16. ASSUME NEW t \in Request \ {r}
       PROVE  Listing(t) /\ ~ req'[t].stale =>
                /\ assessments'[RiskOf[req[t].id]] = assessments[RiskOf[req[t].id]]
                /\ approvals'[RiskOf[req[t].id]] = approvals[RiskOf[req[t].id]]
  <2>1. Listing(t) => RiskOf[req[t].id] \in Risk
    BY <1>1, Typed DEF Listing, Knows
  <2>2. QED
    BY <1>9, <1>11, <2>1
<1>17. Knows(req[r])'
  BY <1>10, IdleKnows
<1>18. QED
  BY <1>8, <1>9, <1>11, <1>12, <1>13, <1>14, <1>15, <1>16, <1>17, Frame

-----------------------------------------------------------------------------
(* Listing: reads, *)
LEMMA ListReadsKeep ==
  ASSUME Inv, NEW r \in Request,
         \/ \E s \in Submission : ListFind(r, s)
         \/ ListAssessment(r) \/ ListApproval(r) \/ ListExisting(r)
  PROVE  Inv'
<1>1. TypeOK /\ Knows(req[r]) /\ req[r] \in RequestState /\ untold \subseteq Submission
  BY InvBySound, Typed DEF TypeOK
<1>2. UNCHANGED <<rows, version, audit, overlapped, untold>>
  BY DEF ListFind, ListAssessment, ListApproval, ListExisting
<1>3. CASE req' = [req EXCEPT ![r] = Idle] /\ req[r].pc # "list.audit"
  BY <1>1, <1>2, <1>3, IdleTyped, IdleKnows, RequestOnly
<1>4. CASE \E s \in Submission : ListFind(r, s)
  <2>1. PICK s \in Submission : ListFind(r, s)
    BY <1>4
  <2>2. PICK q : q = [Idle EXCEPT !.pc = "list.assessment", !.id = s]
    OBVIOUS
  <2>3. q \in RequestState /\ q.pc = "list.assessment" /\ q.id = s
    <3>1. q = [pc |-> "list.assessment", id |-> s, to |-> None, a |-> 0, p |-> 0, stale |-> FALSE]
      BY <2>2 DEF Idle
    <3>2. QED
      BY <3>1 DEF RequestState, Pcs
  <2>4. req' = [req EXCEPT ![r] = q] /\ req[r].pc = "idle"
        /\ submission[s] = "READY_FOR_UNDERWRITING"
    BY <2>1, <2>2 DEF ListFind, Become, At
  <2>5. req'[r] = q => Knows(req[r])'
    BY <1>2, <2>3, <2>4, StatusesAre DEF Knows, Found, rows
  <2>6. QED
    BY <1>1, <1>2, <2>3, <2>4, <2>5, RequestOnly
<1>5. CASE ListAssessment(r)
  <2>1. PICK s \in Submission, k \in Risk :
          /\ s = req[r].id /\ k = RiskOf[s] /\ submission[s] # None /\ req[r].pc = "list.assessment"
          /\ s \notin overlapped => submission[s] = "READY_FOR_UNDERWRITING"
    BY <1>1, <1>5 DEF ListAssessment, At, Knows, Found
  <2>2. CASE assessments[k] = <<>>
    BY <1>3, <1>5, <2>1, <2>2 DEF ListAssessment, Become
  <2>3. CASE assessments[k] # <<>>
    <3>1. PICK a : a = LatestAssessment(k)
      OBVIOUS
    <3>2. a \in Nat /\ a \in 1 .. Len(assessments[k])
      <4>1. assessments[k] \in Seq(AssessmentRow)
        BY <1>1, Typed
      <4>2. Len(assessments[k]) \in Nat \ {0}
        BY <2>3, <4>1
      <4>3. QED
        BY <3>1, <4>2 DEF LatestAssessment
    <3>3. PICK q : q = [req[r] EXCEPT !.pc = "list.approval", !.a = a]
      OBVIOUS
    <3>4. q \in RequestState /\ q.pc = "list.approval" /\ q.id = s /\ q.a = a
      BY <1>1, <2>1, <3>2, <3>3 DEF RequestState, Pcs
    <3>5. req' = [req EXCEPT ![r] = q]
      BY <1>5, <2>1, <2>3, <3>1, <3>3 DEF ListAssessment, Become
    <3>6. req'[r] = q => Knows(req[r])'
      BY <1>2, <2>1, <3>1, <3>2, <3>4 DEF Knows, Found, rows, LatestAssessment
    <3>7. QED
      BY <1>1, <1>2, <2>1, <3>4, <3>5, <3>6, RequestOnly
  <2>4. QED
    BY <2>2, <2>3
<1>6. CASE ListApproval(r)
  <2>1. PICK s \in Submission, k \in Risk :
          /\ s = req[r].id /\ k = RiskOf[s] /\ submission[s] # None /\ req[r].pc = "list.approval"
          /\ s \notin overlapped => submission[s] = "READY_FOR_UNDERWRITING"
          /\ req[r].a \in 1 .. Len(assessments[k])
          /\ ~ req[r].stale => req[r].a = LatestAssessment(k)
    BY <1>1, <1>6 DEF ListApproval, At, Knows, Found
  <2>2. PICK p : p = LatestApproval(k)
    OBVIOUS
  <2>3. CASE ~ Clears(k, req[r].a, p)
    BY <1>3, <1>6, <2>1, <2>2, <2>3 DEF ListApproval, Become
  <2>4. CASE Clears(k, req[r].a, p)
    <3>1. p \in Nat /\ p \in 0 .. Len(approvals[k])
      BY <1>1, <2>2, Typed DEF LatestApproval
    <3>2. PICK q : q = [req[r] EXCEPT !.pc = "list.existing", !.p = p]
      OBVIOUS
    <3>3. /\ q \in RequestState
          /\ q.pc = "list.existing" /\ q.id = s /\ q.a = req[r].a /\ q.p = p
          /\ q.stale = req[r].stale
      BY <1>1, <2>1, <3>1, <3>2 DEF RequestState, Pcs
    <3>4. req' = [req EXCEPT ![r] = q]
      BY <1>6, <2>1, <2>2, <2>4, <3>2 DEF ListApproval, Become
    <3>5. req'[r] = q => Knows(req[r])'
      BY <1>2, <2>1, <2>2, <2>4, <3>1, <3>3
         DEF Knows, Found, rows, LatestAssessment, LatestApproval, Clears
    <3>6. QED
      BY <1>1, <1>2, <2>1, <3>3, <3>4, <3>5, RequestOnly
  <2>5. QED
    BY <2>3, <2>4
<1>7. CASE ListExisting(r)
  <2>1. CASE Listed(req[r].id)
    BY <1>3, <1>7, <2>1 DEF ListExisting, Become, At
  <2>2. CASE ~ Listed(req[r].id)
    <3> PICK s \in Submission, k \in Risk :
          /\ s = req[r].id /\ k = RiskOf[s] /\ submission[s] # None /\ req[r].pc = "list.existing"
          /\ s \notin overlapped => submission[s] = "READY_FOR_UNDERWRITING"
          /\ req[r].a \in 1 .. Len(assessments[k]) /\ req[r].p \in 0 .. Len(approvals[k])
          /\ Clears(k, req[r].a, req[r].p)
          /\ ~ req[r].stale => req[r].a = LatestAssessment(k) /\ req[r].p = LatestApproval(k)
      BY <1>1, <1>7 DEF ListExisting, At, Knows, Found
    <3>1. PICK q : q = [req[r] EXCEPT !.pc = "list.insert"]
      OBVIOUS
    <3>2. /\ q \in RequestState
          /\ q.pc = "list.insert" /\ q.id = req[r].id /\ q.a = req[r].a /\ q.p = req[r].p
          /\ q.stale = req[r].stale
      BY <1>1, <3>1 DEF RequestState, Pcs
    <3>3. req' = [req EXCEPT ![r] = q] /\ req[r].pc = "list.existing"
      BY <1>7, <2>2, <3>1 DEF ListExisting, Goto, Become, At
    <3>4. req'[r] = q => Knows(req[r])'
      BY <1>2, <3>2 DEF Knows, Found, rows, LatestAssessment, LatestApproval, Clears
    <3>5. QED
      BY <1>1, <1>2, <3>2, <3>3, <3>4, RequestOnly
  <2>3. QED
    BY <2>1, <2>2
<1>8. QED
  BY <1>4, <1>5, <1>6, <1>7

(* the insert, on what the request has cleared, *)
LEMMA ListInsertKeeps ==
  ASSUME Inv, NEW r \in Request, ListInsert(r)
  PROVE  Inv'
<1>1. TypeOK /\ OneAdvances /\ (\A u \in Submission : Sound(u))
      /\ (\A t \in Request : Knows(req[t])) /\ req \in [Request -> RequestState]
      /\ req[r] \in RequestState /\ untold \subseteq Submission
  BY InvBySound, Typed DEF TypeOK
<1>2. PICK s \in Submission, k \in Risk :
        /\ s = req[r].id /\ k = RiskOf[s] /\ req[r].pc = "list.insert" /\ submission[s] # None
        /\ s \notin overlapped => submission[s] = "READY_FOR_UNDERWRITING"
        /\ req[r].a \in 1 .. Len(assessments[k]) /\ req[r].p \in 0 .. Len(approvals[k])
        /\ Clears(k, req[r].a, req[r].p)
  BY <1>1 DEF ListInsert, At, Knows, Found
<1>3. CASE Listed(req[r].id)
  <2>1. UNCHANGED <<rows, version, audit, overlapped, untold>> /\ req' = [req EXCEPT ![r] = Idle]
    BY <1>3 DEF ListInsert, Become, rows
  <2>2. QED
    BY <1>1, <1>2, <2>1, IdleTyped, IdleKnows, RequestOnly
<1>4. CASE ~ Listed(req[r].id)
  <2>1. PICK q : q = [req[r] EXCEPT !.pc = "list.audit"]
    OBVIOUS
  <2>2. q \in RequestState /\ q.pc = "list.audit" /\ q.id = s
    BY <1>1, <1>2, <2>1 DEF RequestState, Pcs
  <2>3. PICK row : row = Cleared(r)
    OBVIOUS
  <2>4. row \in ListingRow /\ row # None /\ row.a = req[r].a /\ row.p = req[r].p
    <3>1. req[r].a \in Nat /\ req[r].p \in Nat /\ req[r].stale \in BOOLEAN
      BY <1>1 DEF RequestState
    <3>2. row \in ListingRow /\ row.a = req[r].a /\ row.p = req[r].p
      BY <2>3, <3>1 DEF Cleared, ListingRow
    <3>3. QED
      BY <3>2
  <2>5. /\ listing[s] = None /\ listing' = [listing EXCEPT ![s] = row]
        /\ req' = [req EXCEPT ![r] = q]
        /\ UNCHANGED <<submission, assessments, approvals, version, audit, overlapped, untold>>
    BY <1>2, <1>4, <2>1, <2>3 DEF ListInsert, InsertListing, Goto, Become, Listed
  <2>6. /\ listing'[s] = row /\ \A u \in Submission \ {s} : listing'[u] = listing[u]
        /\ req'[r] = q /\ \A t \in Request \ {r} : req'[t] = req[t]
    BY <1>1, <2>5 DEF TypeOK
  <2>7. TypeOK'
    <3>1. req' \in [Request -> RequestState]
      BY <1>1, <2>2, <2>5
    <3>2. QED
      BY <1>1, <2>4, <2>5, <3>1 DEF TypeOK, RequestState
  <2>8. Grows
    BY <1>1, <2>5, Typed DEF Grows
  <2>9. Remembers
    BY <2>5, <2>6 DEF Remembers
  <2>10. ASSUME NEW u \in Submission PROVE Sound(u)'
    <3>1. CASE u = s
      <4>1. /\ Assessed(s)' = assessments[k][req[r].a]
            /\ assessments[k][req[r].a] \in AssessmentRow
        BY <1>1, <1>2, <2>4, <2>5, <2>6, Typed DEF Assessed
      <4>2. assessments[k][req[r].a].band # "LOW" =>
              /\ req[r].p \in 1 .. Len(approvals[k])
              /\ approvals[k][req[r].p].decision = "APPROVED"
              /\ approvals[k][req[r].p].version = assessments[k][req[r].a].version
        <5>1. PICK x : x = assessments[k][req[r].a] /\ x.human = (x.band # "LOW")
          BY <4>1, AssessmentAsks
        <5>2. x.human => /\ req[r].p # 0 /\ approvals[k][req[r].p].version = x.version
                         /\ approvals[k][req[r].p].decision = "APPROVED"
          BY <1>2, <5>1 DEF Clears
        <5>3. Len(approvals[k]) \in Nat
          BY <1>1, Typed
        <5>4. req[r].p # 0 => req[r].p \in 1 .. Len(approvals[k])
          BY <1>2, <5>3
        <5>5. QED
          BY <5>1, <5>2, <5>4
      <4>3. Assessed(s)'.band # "LOW" => Approved(s)'
        BY <1>2, <2>4, <2>5, <2>6, <4>1, <4>2 DEF Approved
      <4>4. At(r, "list.audit")' /\ req'[r].id = s
        BY <2>2, <2>6 DEF At
      <4>5. <<"withdraw", s>> \notin audit /\ <<"create", s>> \notin audit
        BY <1>1, <2>5 DEF Sound
      <4>6. listing'[s] # None /\ listing'[s].a \in 1 .. Len(assessments'[RiskOf[s]])
        BY <1>2, <2>4, <2>5, <2>6
      <4>7. s \notin overlapped' => submission'[s] = "READY_FOR_UNDERWRITING"
        BY <1>2, <2>5
      <4>8. Sound(s)'
        BY <2>5, <4>3, <4>4, <4>5, <4>6, <4>7 DEF Sound
      <4>9. QED
        BY <3>1, <4>8
    <3>2. CASE u # s
      <4>1. \A t \in Request : At(t, "list.audit") /\ req[t].id = u =>
              req'[t].pc = "list.audit" /\ req'[t].id = u
        BY <1>2, <2>6 DEF At
      <4>2. QED
        BY <1>1, <2>5, <2>6, <2>7, <2>8, <2>9, <3>2, <4>1, StaysSound
    <3>3. QED
      BY <3>1, <3>2
  <2>11. OneAdvances'
    BY <1>1, <2>2, <2>5, <2>6 DEF OneAdvances, At
  <2>12. Knows(req[r])'
    BY <2>2, <2>4, <2>6 DEF Knows, Listed
  <2>13. \A t \in Request \ {r} : Waits(t)
    BY <2>6 DEF Waits
  <2>14. QED
    BY <2>5, <2>7, <2>8, <2>9, <2>10, <2>11, <2>12, <2>13, Frame
<1>5. QED
  BY <1>3, <1>4

(* the audit, *)
LEMMA ListAuditKeeps ==
  ASSUME Inv, NEW r \in Request, ListAudit(r)
  PROVE  Inv'
<1>1. TypeOK /\ OneAdvances /\ (\A u \in Submission : Sound(u))
      /\ (\A t \in Request : Knows(req[t])) /\ req \in [Request -> RequestState]
  BY InvBySound, Typed
<1>2. PICK s \in Submission, what \in {"create", "withdraw"} :
        /\ s = req[r].id /\ req[r].pc = (IF what = "create" THEN "list.audit" ELSE "withdraw.audit")
        /\ listing[s] # None
        /\ what = "withdraw" => Closed(listing[s])
        /\ audit' = audit \cup {<<what, s>>}
  <2>1. req[r].id \in Submission /\ listing[req[r].id] # None
        /\ (req[r].pc = "withdraw.audit" => Closed(listing[req[r].id]))
    BY <1>1 DEF ListAudit, Knows, Listed
  <2>2. CASE req[r].pc = "list.audit"
    BY <2>1, <2>2 DEF ListAudit, At
  <2>3. CASE req[r].pc = "withdraw.audit"
    BY <2>1, <2>3 DEF ListAudit, At
  <2>4. QED
    BY <2>2, <2>3 DEF ListAudit
<1>3. /\ req' = [req EXCEPT ![r] = Idle]
      /\ UNCHANGED <<submission, assessments, approvals, listing, version, overlapped, untold>>
  BY DEF ListAudit, Become, rows
<1>4. req'[r] = Idle /\ \A t \in Request \ {r} : req'[t] = req[t]
  BY <1>1, <1>3
<1>5. TypeOK'
  <2>1. req' \in [Request -> RequestState]
    BY <1>1, <1>3, IdleTyped
  <2>2. audit' \subseteq {"create", "withdraw"} \X Submission
    BY <1>1, <1>2 DEF TypeOK
  <2>3. QED
    BY <1>1, <1>3, <2>1, <2>2 DEF TypeOK, RequestState
<1>6. Grows /\ Remembers
  BY <1>1, <1>3, Typed DEF Grows, Remembers
<1>7. ASSUME NEW u \in Submission PROVE Sound(u)'
  <2>1. CASE u = s
    <3>1. Sound(s)
      BY <1>1
    <3>2. (listing[s] # None => (Assessed(s).band # "LOW" => Approved(s)))'
      BY <1>3, <3>1 DEF Sound, Assessed, Approved
    <3>3. /\ <<"create", s>> \in audit' \/ s \in untold'
             \/ \E t \in Request : At(t, "list.audit")' /\ req'[t].id = s
          /\ <<"withdraw", s>> \in audit' => Closed(listing[s])
      <4>1. CASE what = "create"
        BY <1>2, <3>1, <4>1 DEF Sound
      <4>2. CASE what = "withdraw"
        <5>1. <<"create", s>> \in audit \/ s \in untold
              \/ \E t \in Request \ {r} : At(t, "list.audit") /\ req[t].id = s
          <6>1. req[r].pc # "list.audit"
            BY <1>2, <4>2
          <6>2. QED
            BY <1>2, <3>1, <6>1 DEF Sound, At
        <5>2. QED
          BY <1>2, <1>3, <1>4, <4>2, <5>1 DEF At
      <4>3. QED
        BY <4>1, <4>2
    <3>4. Sound(s)'
      BY <1>2, <1>3, <3>1, <3>2, <3>3 DEF Sound
    <3>5. QED
      BY <2>1, <3>4
  <2>2. CASE u # s
    <3>1. \A t \in Request : At(t, "list.audit") /\ req[t].id = u =>
            req'[t].pc = "list.audit" /\ req'[t].id = u
      BY <1>2, <1>4, <2>2 DEF At
    <3>2. /\ <<"create", u>> \in audit' <=> <<"create", u>> \in audit
          /\ <<"withdraw", u>> \in audit' <=> <<"withdraw", u>> \in audit
      BY <1>2, <2>2
    <3>3. QED
      BY <1>1, <1>3, <1>5, <1>6, <3>1, <3>2, StaysSound
  <2>3. QED
    BY <2>1, <2>2
<1>8. OneAdvances'
  BY <1>1, <1>3, <1>4, IdleTyped DEF OneAdvances, At
<1>9. Knows(req[r])' /\ \A t \in Request \ {r} : Waits(t)
  BY <1>4, IdleKnows DEF Waits
<1>10. QED
  BY <1>3, <1>5, <1>6, <1>7, <1>8, <1>9, Frame

(* and the withdrawal, after which a listing is never OPEN again. *)
LEMMA WithdrawListingKeeps ==
  ASSUME Inv, NEW r \in Request, NEW s \in Submission, WithdrawListing(r, s)
  PROVE  Inv'
<1>1. TypeOK /\ OneAdvances /\ (\A u \in Submission : Sound(u))
      /\ (\A t \in Request : Knows(req[t])) /\ req \in [Request -> RequestState]
      /\ listing[s] \in ListingRow
  BY InvBySound, Typed DEF TypeOK, WithdrawListing, Listed
<1>2. PICK row : row = [listing[s] EXCEPT !.status = "WITHDRAWN"]
  OBVIOUS
<1>3. /\ row \in ListingRow /\ row # None /\ Closed(row)
      /\ row.a = listing[s].a /\ row.p = listing[s].p
  BY <1>1, <1>2 DEF ListingRow, Closed
<1>4. PICK q : q = [Idle EXCEPT !.pc = "withdraw.audit", !.id = s]
  OBVIOUS
<1>5. q \in RequestState /\ q.pc = "withdraw.audit" /\ q.id = s
  <2>1. q = [pc |-> "withdraw.audit", id |-> s, to |-> None, a |-> 0, p |-> 0, stale |-> FALSE]
    BY <1>4 DEF Idle
  <2>2. QED
    BY <2>1 DEF RequestState, Pcs
<1>6. /\ listing[s] # None /\ listing' = [listing EXCEPT ![s] = row]
      /\ req' = [req EXCEPT ![r] = q] /\ req[r].pc = "idle"
      /\ UNCHANGED <<submission, assessments, approvals, version, audit, overlapped, untold>>
  BY <1>2, <1>4 DEF WithdrawListing, SetListingStatus, Become, Listed, At
<1>7. /\ listing'[s] = row /\ \A u \in Submission \ {s} : listing'[u] = listing[u]
      /\ req'[r] = q /\ \A t \in Request \ {r} : req'[t] = req[t]
  BY <1>1, <1>6 DEF TypeOK
<1>8. TypeOK'
  <2>1. req' \in [Request -> RequestState]
    BY <1>1, <1>5, <1>6
  <2>2. QED
    BY <1>1, <1>3, <1>6, <2>1 DEF TypeOK, RequestState
<1>9. Grows
  BY <1>1, <1>6, Typed DEF Grows
<1>10. Remembers
  BY <1>3, <1>6, <1>7 DEF Remembers
<1>11. ASSUME NEW u \in Submission PROVE Sound(u)'
  <2>1. \A t \in Request : At(t, "list.audit") /\ req[t].id = u =>
          At(t, "list.audit")' /\ req'[t].id = u
    BY <1>6, <1>7 DEF At
  <2>2. CASE u = s
    <3>1. Sound(s)
      BY <1>1
    <3>2. Assessed(s)' = Assessed(s) /\ (Approved(s) => Approved(s)')
      BY <1>3, <1>6, <1>7 DEF Assessed, Approved
    <3>3. Sound(s)'
      BY <1>3, <1>6, <1>7, <2>1, <2>2, <3>1, <3>2 DEF Sound
    <3>4. QED
      BY <2>2, <3>3
  <2>3. CASE u # s
    BY <1>1, <1>6, <1>7, <1>8, <1>9, <1>10, <2>1, <2>3, StaysSound DEF At
  <2>4. QED
    BY <2>2, <2>3
<1>12. OneAdvances'
  BY <1>1, <1>5, <1>6, <1>7 DEF OneAdvances, At
<1>13. Knows(req[r])'
  BY <1>3, <1>5, <1>7 DEF Knows, Listed
<1>14. \A t \in Request \ {r} : Waits(t)
  BY <1>7 DEF Waits
<1>15. QED
  BY <1>6, <1>8, <1>9, <1>10, <1>11, <1>12, <1>13, <1>14, Frame

(* A bind that matches the listing, withdrawn or not: who it was cleared   *)
(* on stays, and whoever is about to record a withdrawal finds it closed.  *)
LEMMA BindMatchesKeeps ==
  ASSUME Inv, NEW s \in Submission, BindMatches(s)
  PROVE  Inv'
<1>1. TypeOK /\ OneAdvances /\ (\A u \in Submission : Sound(u))
      /\ (\A t \in Request : Knows(req[t])) /\ listing[s] \in ListingRow
  BY InvBySound DEF TypeOK, BindMatches, Listed
<1>2. PICK row : row = [listing[s] EXCEPT !.status = "MATCHED", !.matched = TRUE]
  OBVIOUS
<1>3. /\ row \in ListingRow /\ row # None /\ Closed(row)
      /\ row.a = listing[s].a /\ row.p = listing[s].p
  BY <1>1, <1>2 DEF ListingRow, Closed
<1>4. /\ listing[s] # None /\ listing' = [listing EXCEPT ![s] = row]
      /\ UNCHANGED <<submission, assessments, approvals, version, audit, req, overlapped, untold>>
  BY <1>2 DEF BindMatches, Listed
<1>5. listing'[s] = row /\ \A u \in Submission \ {s} : listing'[u] = listing[u]
  BY <1>1, <1>4 DEF TypeOK
<1>6. TypeOK'
  BY <1>1, <1>3, <1>4 DEF TypeOK
<1>7. Grows
  BY <1>1, <1>4, Typed DEF Grows
<1>8. Remembers
  BY <1>3, <1>4, <1>5 DEF Remembers
<1>9. ASSUME NEW u \in Submission PROVE Sound(u)'
  <2>1. CASE u = s
    <3>1. Sound(s)
      BY <1>1
    <3>2. Assessed(s)' = Assessed(s) /\ (Approved(s) => Approved(s)')
      BY <1>3, <1>4, <1>5 DEF Assessed, Approved
    <3>3. Sound(s)'
      BY <1>3, <1>4, <1>5, <3>1, <3>2 DEF Sound, At
    <3>4. QED
      BY <2>1, <3>3
  <2>2. CASE u # s
    BY <1>1, <1>4, <1>5, <1>6, <1>7, <1>8, <2>2, StaysSound DEF At
  <2>3. QED
    BY <2>1, <2>2
<1>10. ASSUME NEW t \in Request PROVE Knows(req[t])'
  <2>1. Waits(t)
    BY <1>4 DEF Waits
  <2>2. QED
    BY <1>1, <1>4, <1>6, <1>7, <1>8, <2>1, StaysKnowing
<1>11. OneAdvances'
  BY <1>1, <1>4 DEF OneAdvances, At
<1>12. QED
  BY <1>6, <1>9, <1>10, <1>11
     DEF Inv, ListedOnClearance, ListedIsReady, AuditTold, HandlersKnow, Sound, OneAdvances

LEMMA CrashKeeps ==
  ASSUME Inv, NEW r \in Request, Crash(r)
  PROVE  Inv'
<1>1. TypeOK /\ Knows(req[r]) /\ untold \subseteq Submission
  BY InvBySound DEF TypeOK
<1>2. /\ req' = [req EXCEPT ![r] = Idle] /\ UNCHANGED <<rows, version, audit, overlapped>>
      /\ untold' = IF req[r].pc = "list.audit" THEN untold \cup {req[r].id} ELSE untold
  BY DEF Crash, Become, At
<1>3. req[r].pc = "list.audit" => req[r].id \in Submission
  BY <1>1 DEF Knows
<1>4. QED
  BY <1>1, <1>2, <1>3, IdleTyped, IdleKnows, RequestOnly

(* No row and no request of Inv depends on the release that runs. *)
LEMMA VersionOnly ==
  ASSUME Inv, version' \in 1 .. MaxVersion,
         UNCHANGED <<rows, audit, req, overlapped, untold>>
  PROVE  Inv'
<1>1. UNCHANGED <<submission, assessments, approvals, listing, audit, req, overlapped, untold>>
  BY DEF rows
<1>2. TypeOK'
  BY <1>1 DEF Inv, TypeOK
<1>3. ListedOnClearance' /\ ListedIsReady' /\ AuditTold'
  BY <1>1 DEF Inv, ListedOnClearance, Assessed, Approved, ListedIsReady, AuditTold, At
<1>4. HandlersKnow'
  BY <1>1 DEF Inv, HandlersKnow, Knows, At, Found, Listed, Clears, LatestAssessment, LatestApproval
<1>5. QED
  BY <1>2, <1>3, <1>4 DEF Inv

LEMMA NextInv == Inv /\ [Next]_vars => Inv'
<1> SUFFICES ASSUME Inv, [Next]_vars PROVE Inv'
  OBVIOUS
<1>1. CASE UNCHANGED vars
  BY <1>1, VersionOnly DEF vars, Inv, TypeOK
<1>2. CASE Release
  BY <1>2, VersionOnly DEF Release, Inv, TypeOK
<1>3. ASSUME NEW r \in Request, Call(r) PROVE Inv'
  BY <1>3, CreateSubmissionKeeps, ListReadsKeep, WithdrawListingKeeps, AdvanceFindKeeps,
     AssessKeeps, ApproveFindKeeps DEF Call
<1>4. ASSUME NEW r \in Request, Step(r) PROVE Inv'
  BY <1>4, AdvanceKeeps, ApproveKeeps, ListReadsKeep, ListInsertKeeps, ListAuditKeeps DEF Step
<1>5. ASSUME NEW r \in Request, Crash(r) PROVE Inv'
  BY <1>5, CrashKeeps
<1>6. ASSUME NEW s \in Submission, BindMatches(s) PROVE Inv'
  BY <1>6, BindMatchesKeeps
<1>7. QED
  BY <1>1, <1>2, <1>3, <1>4, <1>5, <1>6 DEF Next

(* What is listed stands on a clearance, came through the workflow and is  *)
(* audited, and a listing whose withdrawal is audited is WITHDRAWN or was  *)
(* matched by a bind, whatever requests overlap and die and whatever is    *)
(* released.                                                               *)
THEOREM ListingsAreCleared == Spec => []Inv
BY InitInv, NextInv, PTL DEF Spec

LEMMA OnlyInsertLists ==
  ASSUME Inv, [Next]_vars, NEW s \in Submission, listing[s] = None, listing'[s] # None
  PROVE  \E r \in Request : ListInsert(r) /\ req[r].id = s /\ listing'[s] = Cleared(r)
<1>1. listing' # listing
  OBVIOUS
<1>2. ASSUME NEW u \in Submission, BindMatches(u) \/ \E r \in Request : WithdrawListing(r, u)
      PROVE  FALSE
  <2>1. listing'[s] = listing[s] \/ u = s
    BY <1>2 DEF WithdrawListing, SetListingStatus, BindMatches, Inv, TypeOK
  <2>2. listing[u] # None
    BY <1>2 DEF WithdrawListing, BindMatches, Listed
  <2>3. QED
    BY <2>1, <2>2
<1>3. ASSUME NEW r \in Request, ListInsert(r)
      PROVE  req[r].id = s /\ listing'[s] = Cleared(r)
  BY <1>1, <1>3 DEF ListInsert, InsertListing, Inv, TypeOK
<1>4. PICK r \in Request : ListInsert(r)
  BY <1>1, <1>2 DEF Next, vars, rows, Call, Step, Release, Crash, CreateSubmission, AdvanceFind,
     Advance, Assess, ApproveFind, Approve, ListFind, ListAssessment, ListApproval, ListExisting,
     ListAudit
<1>5. QED
  BY <1>3, <1>4

(* The clearance that a listing rests on is the one of the moment it is    *)
(* inserted, unless a row about the risk came between.                     *)
LEMMA ListsWhenClear ==
  ASSUME Inv, [Next]_vars, NEW s \in Submission, listing[s] = None, listing'[s] # None,
         ~ listing'[s].stale
  PROVE  ClearNow(RiskOf[s])
<1>1. PICK r \in Request : ListInsert(r) /\ req[r].id = s /\ listing'[s] = Cleared(r)
  BY OnlyInsertLists
<1>2. ~ req[r].stale /\ req[r].pc = "list.insert" /\ Knows(req[r])
  BY <1>1 DEF Cleared, ListInsert, At, Inv, HandlersKnow
<1>3. QED
  BY <1>1, <1>2 DEF Knows, ClearNow

THEOREM ListingsAreFresh == Spec => ListedWhenClear
<1>1. Inv /\ [Next]_vars =>
        [\A s \in Submission :
           listing[s] = None /\ listing'[s] # None /\ ~ listing'[s].stale
             => ClearNow(RiskOf[s])]_vars
  BY ListsWhenClear
<1>2. QED
  BY <1>1, ListingsAreCleared, PTL DEF Spec, ListedWhenClear

(* Every row that can be listed is sound, and what is LOW is small and     *)
(* known well, so nothing large or unsure is listed without an approval.   *)
LEMMA ListedIsSound == Inv => AssessedPrudently
<1> SUFFICES ASSUME Inv PROVE AssessedPrudently
  OBVIOUS
<1>1. ASSUME NEW s \in Submission, listing[s] # None
      PROVE  /\ AssessedSound(Assessed(s))
             /\ Assessed(s).band # "LOW" => Approved(s)
  <2>1. listing[s].a \in 1 .. Len(assessments[RiskOf[s]]) /\ TypeOK
    BY <1>1 DEF Inv, ListedOnClearance
  <2>2. Assessed(s) \in AssessmentRow
    BY <2>1, Typed DEF Assessed
  <2>3. AssessedSound(Assessed(s))
    BY <2>2, AssessmentIsSound
  <2> QED  BY <1>1, <2>3 DEF Inv, ListedOnClearance
<1>2. LargeNeedsHuman
  <2>1. SUFFICES ASSUME NEW s \in Submission, listing[s] # None,
                        Assessed(s).expected > Thresholds.ceiling, Assessed(s).band = "LOW"
                 PROVE  FALSE
    BY <1>1 DEF LargeNeedsHuman
  <2>2. PICK e \in Nat : e = Assessed(s).expected /\ e <= Thresholds.ceiling
    BY <1>1, <2>1 DEF AssessedSound
  <2> QED  BY <2>1, <2>2 DEF Thresholds
<1>3. UnsureNeedsHuman
  BY <1>1 DEF UnsureNeedsHuman, AssessedSound
<1>4. PricedPrudently
  BY <1>1 DEF PricedPrudently, AssessedSound
<1>5. QED
  BY <1>1, <1>2, <1>3, <1>4 DEF AssessedPrudently, AssessedSound

(* The assessment of whatever is listed can be relied on: its premium      *)
(* covers the expected loss, its capital lies between the expected and the *)
(* largest loss, and nothing that is large or not known well enough got    *)
(* past assess and requireClearance without an approval.                   *)
THEOREM ListedIsPrudent == Spec => []AssessedPrudently
<1>1. QED
  BY ListingsAreCleared, ListedIsSound, PTL
=============================================================================

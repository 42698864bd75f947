----------------------------- MODULE MoneyProofs -----------------------------
(***************************************************************************)
(* Proofs about money: how MoneyAllocation splits an amount, for every     *)
(* precision, amount and weighting, and how Settlement pays one, for any   *)
(* transactions, orders and concurrent requests, with lost answers,        *)
(* timeouts and crashes.                                                   *)
(***************************************************************************)
EXTENDS SettlementInMemory, MoneyAllocation, Sums, TLAPS

-----------------------------------------------------------------------------
(* The powers of two. *)

(* g is what TwoTo defines, on the exponents of S.                         *)
IsTwoTo(g, S) == g = [n \in S |-> IF n = 0 THEN 1 ELSE 2 * g[n - 1]]

(* It exists up to any exponent, two of them agree where both are defined, *)
(* and so it exists on all exponents: TwoTo's CHOOSE finds it.             *)
LEMMA TwoToUpTo == \A n \in Nat : \E g : IsTwoTo(g, 0 .. n)
<1> DEFINE N == {n \in Nat : \E g : IsTwoTo(g, 0 .. n)}
<1>1. 0 \in N
  <2> DEFINE g == [d \in 0 .. 0 |-> 1]
  <2>1. g = [d \in 0 .. 0 |-> IF d = 0 THEN 1 ELSE 2 * g[d - 1]]
    OBVIOUS
  <2> HIDE DEF g
  <2>2. IsTwoTo(g, 0 .. 0)
    BY <2>1 DEF IsTwoTo
  <2> QED  BY <2>2
<1>2. ASSUME NEW n \in Nat, n \in N PROVE n + 1 \in N
  <2>1. PICK g : IsTwoTo(g, 0 .. n)
    BY <1>2
  <2> DEFINE h == [d \in 0 .. n + 1 |-> IF d = n + 1 THEN 2 * g[n] ELSE g[d]]
  <2>2. \A d \in 0 .. n : g[d] = IF d = 0 THEN 1 ELSE 2 * g[d - 1]
    BY <2>1, Zenon DEF IsTwoTo
  <2>3. \A d \in 0 .. n : h[d] = g[d]
    OBVIOUS
  <2>4. h[n + 1] = 2 * h[n]
    OBVIOUS
  <2>5. ASSUME NEW d \in 0 .. n + 1
        PROVE  h[d] = IF d = 0 THEN 1 ELSE 2 * h[d - 1]
    <3>1. CASE d = n + 1
      <4>1. d - 1 = n /\ d # 0
        BY <3>1
      <4> HIDE DEF h
      <4> QED  BY <2>4, <3>1, <4>1
    <3>2. CASE d # n + 1
      <4>1. d \in 0 .. n
        BY <3>2
      <4>2. d # 0 => d - 1 \in 0 .. n
        BY <4>1
      <4> HIDE DEF h
      <4>3. h[d] = g[d]
        BY <2>3, <4>1
      <4>4. d # 0 => h[d - 1] = g[d - 1]
        BY <2>3, <4>2
      <4> QED  BY <2>2, <4>1, <4>3, <4>4
    <3> QED  BY <3>1, <3>2
  <2>6. IsTwoTo(h, 0 .. n + 1)
    <3>1. h = [d \in 0 .. n + 1 |-> h[d]]
      OBVIOUS
    <3> HIDE DEF h
    <3> QED  BY <2>5, <3>1, Zenon DEF IsTwoTo
  <2> QED  BY <2>6
<1>3. Nat \subseteq N
  <2> HIDE DEF N
  <2> QED  BY <1>1, <1>2, NatsByInduction
<1> QED  BY <1>3

LEMMA TwoToUnique ==
  ASSUME NEW n \in Nat, NEW m \in Nat, NEW g, NEW h,
         IsTwoTo(g, 0 .. n), IsTwoTo(h, 0 .. m)
  PROVE  \A d \in Nat : d <= n /\ d <= m => g[d] = h[d]
<1> DEFINE N == {d \in Nat : d <= n /\ d <= m => g[d] = h[d]}
<1>1. \A d \in 0 .. n : g[d] = IF d = 0 THEN 1 ELSE 2 * g[d - 1]
  BY Zenon DEF IsTwoTo
<1>2. \A d \in 0 .. m : h[d] = IF d = 0 THEN 1 ELSE 2 * h[d - 1]
  BY Zenon DEF IsTwoTo
<1>3. 0 \in N
  <2>1. 0 \in 0 .. n /\ 0 \in 0 .. m
    OBVIOUS
  <2> QED  BY <1>1, <1>2, <2>1
<1>4. ASSUME NEW d \in Nat, d \in N PROVE d + 1 \in N
  <2> SUFFICES ASSUME d + 1 <= n, d + 1 <= m PROVE g[d + 1] = h[d + 1]
    OBVIOUS
  <2>1. d + 1 \in 0 .. n /\ d + 1 \in 0 .. m /\ (d + 1) - 1 = d /\ d + 1 # 0
    OBVIOUS
  <2>2. g[d] = h[d]
    BY <1>4
  <2>3. g[d + 1] = 2 * g[d] /\ h[d + 1] = 2 * h[d]
    BY <1>1, <1>2, <2>1
  <2> QED  BY <2>2, <2>3
<1>5. Nat \subseteq N
  <2> HIDE DEF N
  <2> QED  BY <1>3, <1>4, NatsByInduction
<1> QED  BY <1>5

LEMMA TwoToExists == \E g : IsTwoTo(g, Nat)
<1> DEFINE upTo(n) == CHOOSE g : IsTwoTo(g, 0 .. n)
           g == [d \in Nat |-> upTo(d)[d]]
<1>1. ASSUME NEW n \in Nat PROVE IsTwoTo(upTo(n), 0 .. n)
  BY TwoToUpTo
<1>2. ASSUME NEW d \in Nat PROVE g[d] = IF d = 0 THEN 1 ELSE 2 * g[d - 1]
  <2>1. PICK u : u = upTo(d) /\ IsTwoTo(u, 0 .. d)
    BY <1>1
  <2>2. u[d] = IF d = 0 THEN 1 ELSE 2 * u[d - 1]
    <3>1. d \in 0 .. d
      OBVIOUS
    <3>2. \A i \in 0 .. d : u[i] = IF i = 0 THEN 1 ELSE 2 * u[i - 1]
      BY <2>1, Zenon DEF IsTwoTo
    <3> QED  BY <3>1, <3>2
  <2>3. g[d] = u[d]
    BY <2>1
  <2>4. CASE d = 0
    BY <2>2, <2>3, <2>4
  <2>5. CASE d # 0
    <3>1. PICK c \in Nat : c = d - 1
      BY <2>5
    <3>2. PICK w : w = upTo(c) /\ IsTwoTo(w, 0 .. c)
      BY <1>1
    <3>3. c <= c /\ c <= d
      BY <3>1
    <3>4. u[c] = w[c]
      BY <2>1, <3>2, <3>3, TwoToUnique
    <3>5. g[c] = w[c]
      BY <3>2
    <3> HIDE DEF g
    <3> QED  BY <2>2, <2>3, <2>5, <3>1, <3>4, <3>5
  <2> QED  BY <2>4, <2>5
<1>3. IsTwoTo(g, Nat)
  <2>1. g = [d \in Nat |-> g[d]]
    OBVIOUS
  <2> HIDE DEF g
  <2> QED  BY <1>2, <2>1, Zenon DEF IsTwoTo
<1> QED  BY <1>3

(* TwoTo, exponent by exponent.                                            *)
LEMMA TwoToIs ==
  /\ TwoTo[0] = 1
  /\ \A n \in Nat : TwoTo[n + 1] = 2 * TwoTo[n]
<1> DEFINE t == TwoTo
<1>1. t = CHOOSE g : IsTwoTo(g, Nat)
  BY DEF TwoTo, IsTwoTo
<1>2. IsTwoTo(t, Nat)
  <2> HIDE DEF t
  <2> QED  BY <1>1, TwoToExists
<1> HIDE DEF t
<1>3. \A d \in Nat : t[d] = IF d = 0 THEN 1 ELSE 2 * t[d - 1]
  BY <1>2, Zenon DEF IsTwoTo
<1>4. t[0] = 1
  BY <1>3
<1>5. ASSUME NEW d \in Nat PROVE t[d + 1] = 2 * t[d]
  <2>1. d + 1 \in Nat /\ d + 1 # 0 /\ (d + 1) - 1 = d
    OBVIOUS
  <2> QED  BY <1>3, <2>1
<1> QED  BY <1>4, <1>5 DEF t

LEMMA TwoToPositive == \A n \in Nat : TwoTo[n] \in Nat /\ TwoTo[n] > 0
<1> DEFINE N == {n \in Nat : TwoTo[n] \in Nat /\ TwoTo[n] > 0}
<1>1. 0 \in N
  BY TwoToIs
<1>2. ASSUME NEW n \in Nat, n \in N PROVE n + 1 \in N
  <2>1. TwoTo[n] \in Nat /\ TwoTo[n] > 0
    BY <1>2
  <2>2. TwoTo[n + 1] = 2 * TwoTo[n]
    BY TwoToIs
  <2>3. TwoTo[n + 1] \in Nat /\ TwoTo[n + 1] > 0
    BY <2>1, <2>2
  <2> QED  BY <2>3
<1>3. Nat \subseteq N
  <2> HIDE DEF N
  <2> QED  BY <1>1, <1>2, NatsByInduction
<1> QED  BY <1>3

LEMMA TwoToAdd == \A m, n \in Nat : TwoTo[m + n] = TwoTo[m] * TwoTo[n]
<1> SUFFICES ASSUME NEW m \in Nat PROVE \A n \in Nat : TwoTo[m + n] = TwoTo[m] * TwoTo[n]
  OBVIOUS
<1> DEFINE N == {n \in Nat : TwoTo[m + n] = TwoTo[m] * TwoTo[n]}
<1>1. 0 \in N
  <2>1. m + 0 = m /\ TwoTo[m] \in Nat
    BY TwoToPositive
  <2>2. TwoTo[m] * 1 = TwoTo[m]
    BY <2>1
  <2> QED  BY <2>1, <2>2, TwoToIs
<1>2. ASSUME NEW n \in Nat, n \in N PROVE n + 1 \in N
  <2>1. PICK a \in Nat : a = TwoTo[m]
    BY TwoToPositive
  <2>2. PICK b \in Nat : b = TwoTo[n]
    BY TwoToPositive
  <2>3. TwoTo[m + n] = a * b
    BY <1>2, <2>1, <2>2
  <2>4. m + (n + 1) = (m + n) + 1 /\ m + n \in Nat
    OBVIOUS
  <2>5. TwoTo[m + (n + 1)] = 2 * (a * b)
    BY <2>3, <2>4, TwoToIs
  <2>6. TwoTo[n + 1] = 2 * b
    BY <2>2, TwoToIs
  <2>7. 2 * (a * b) = a * (2 * b)
    OBVIOUS
  <2> QED  BY <2>1, <2>5, <2>6, <2>7
<1>3. Nat \subseteq N
  <2> HIDE DEF N
  <2> QED  BY <1>1, <1>2, NatsByInduction
<1> QED  BY <1>3

(* A smaller exponent's power divides a larger one's.                      *)
LEMMA TwoToDivides ==
  \A m, n \in Nat : m <= n => \E k \in Nat : k > 0 /\ TwoTo[n] = k * TwoTo[m] /\ (m < n => k >= 2)
<1> SUFFICES ASSUME NEW m \in Nat, NEW n \in Nat, m <= n
             PROVE  \E k \in Nat : k > 0 /\ TwoTo[n] = k * TwoTo[m] /\ (m < n => k >= 2)
  OBVIOUS
<1>1. PICK d \in Nat : d + m = n
  <2>1. n - m \in Nat /\ (n - m) + m = n
    OBVIOUS
  <2> QED  BY <2>1
<1>2. TwoTo[n] = TwoTo[d] * TwoTo[m]
  BY <1>1, TwoToAdd
<1>3. TwoTo[d] \in Nat /\ TwoTo[d] > 0
  BY TwoToPositive
<1>4. ASSUME m < n PROVE TwoTo[d] >= 2
  <2>1. PICK e \in Nat : e + 1 = d
    <3>1. d - 1 \in Nat /\ (d - 1) + 1 = d
      BY <1>1, <1>4
    <3> QED  BY <3>1
  <2>2. TwoTo[d] = 2 * TwoTo[e]
    BY <2>1, TwoToIs
  <2>3. TwoTo[e] \in Nat /\ TwoTo[e] > 0
    BY TwoToPositive
  <2> QED  BY <2>2, <2>3
<1> QED  BY <1>2, <1>3, <1>4

-----------------------------------------------------------------------------
(* Products of natural numbers.                                            *)
LEMMA TimesMonotone == \A a, b, c \in Nat : a <= b => a * c <= b * c
<1> SUFFICES ASSUME NEW a \in Nat, NEW b \in Nat, NEW c \in Nat, a <= b PROVE a * c <= b * c
  OBVIOUS
<1>1. PICK d \in Nat : b = a + d
  <2>1. b - a \in Nat /\ b = a + (b - a)
    OBVIOUS
  <2> QED  BY <2>1
<1>2. b * c = a * c + d * c
  BY <1>1
<1>3. d * c \in Nat /\ a * c \in Nat
  OBVIOUS
<1> QED  BY <1>2, <1>3

LEMMA TimesStrict == \A a, b, c \in Nat : a < b /\ c > 0 => a * c < b * c
<1> SUFFICES ASSUME NEW a \in Nat, NEW b \in Nat, NEW c \in Nat, a < b, c > 0 PROVE a * c < b * c
  OBVIOUS
<1>1. (a + 1) * c <= b * c
  BY TimesMonotone, a + 1 <= b, a + 1 \in Nat
<1>2. (a + 1) * c = a * c + c
  OBVIOUS
<1>3. a * c \in Nat /\ b * c \in Nat
  OBVIOUS
<1> QED  BY <1>1, <1>2, <1>3

LEMMA CancelStrict == \A a, b, c \in Nat : a * c < b * c => a < b
<1> SUFFICES ASSUME NEW a \in Nat, NEW b \in Nat, NEW c \in Nat, a * c < b * c, b <= a PROVE FALSE
  OBVIOUS
<1>1. b * c <= a * c
  BY TimesMonotone
<1>2. a * c \in Nat /\ b * c \in Nat
  OBVIOUS
<1> QED  BY <1>1, <1>2

LEMMA Cancel == \A a, b, c \in Nat : a * c <= b * c /\ c > 0 => a <= b
<1> SUFFICES ASSUME NEW a \in Nat, NEW b \in Nat, NEW c \in Nat, a * c <= b * c, c > 0, b < a PROVE FALSE
  OBVIOUS
<1>1. b * c < a * c
  BY TimesStrict
<1>2. a * c \in Nat /\ b * c \in Nat
  OBVIOUS
<1> QED  BY <1>1, <1>2

LEMMA TimesNat == \A a, b \in Nat : a * b \in Nat
  OBVIOUS

LEMMA TimesCommute == \A a, b \in Nat : a * b = b * a
  OBVIOUS

LEMMA TimesAssoc == \A a, b, c \in Nat : (a * b) * c = a * (b * c)
  OBVIOUS

-----------------------------------------------------------------------------
(* The doubles.                                                            *)

(* A set of natural numbers has a least member.                            *)
LEMMA MinIs ==
  ASSUME NEW S \in SUBSET Nat, S # {}
  PROVE  Min(S) \in S /\ \A y \in S : Min(S) <= y
<1> DEFINE N == {n \in Nat : (\E y \in S : y <= n) => \E x \in S : \A y \in S : x <= y}
<1>1. 0 \in N
  OBVIOUS
<1>2. ASSUME NEW n \in Nat, n \in N PROVE n + 1 \in N
  <2>1. SUFFICES ASSUME NEW z \in S, z <= n + 1 PROVE \E x \in S : \A y \in S : x <= y
    OBVIOUS
  <2>2. CASE \E y \in S : y <= n
    BY <1>2, <2>2
  <2>3. CASE ~ \E y \in S : y <= n
    <3>1. \A y \in S : z <= y
      BY <2>1, <2>3
    <3> QED  BY <3>1
  <2> QED  BY <2>2, <2>3
<1>3. Nat \subseteq N
  <2> HIDE DEF N
  <2> QED  BY <1>1, <1>2, NatsByInduction
<1>4. PICK s \in S : TRUE
  OBVIOUS
<1>5. s \in N
  BY <1>3
<1>6. \E x \in S : \A y \in S : x <= y
  BY <1>5, s <= s
<1> QED  BY <1>6 DEF Min

(* The ulps: 1 is one, every other one is twice another, and a smaller one *)
(* divides a larger one.                                                   *)
LEMMA UlpsAre ==
  /\ Ulps \subseteq Nat \ {0}
  /\ 1 \in Ulps /\ Unit \in Ulps
  /\ \A u \in Ulps : u = 1 \/ \E v \in Ulps : u = 2 * v
  /\ \A u, v \in Ulps : u <= v => \E k \in Nat : v = k * u
<1> USE MoneyAllocationAssumption
<1>1. Ulps \subseteq Nat \ {0}
  BY TwoToPositive DEF Ulps
<1>2. 1 \in Ulps
  <2>1. 0 \in 0 .. 2 * Precision + 1
    OBVIOUS
  <2> QED  BY <2>1, TwoToIs DEF Ulps
<1>3. Unit \in Ulps
  <2>1. 2 * Precision \in 0 .. 2 * Precision + 1
    OBVIOUS
  <2> QED  BY <2>1 DEF Ulps, Unit
<1>4. ASSUME NEW u \in Ulps PROVE u = 1 \/ \E v \in Ulps : u = 2 * v
  <2>1. PICK e \in 0 .. 2 * Precision + 1 : u = TwoTo[e]
    BY DEF Ulps
  <2>2. CASE e = 0
    BY <2>1, <2>2, TwoToIs
  <2>3. CASE e # 0
    <3>1. e - 1 \in 0 .. 2 * Precision + 1 /\ e - 1 \in Nat /\ (e - 1) + 1 = e
      BY <2>3
    <3>2. TwoTo[(e - 1) + 1] = 2 * TwoTo[e - 1]
      BY <3>1, TwoToIs
    <3>3. TwoTo[e - 1] \in Ulps
      BY <3>1 DEF Ulps
    <3> QED  BY <2>1, <3>1, <3>2, <3>3
  <2> QED  BY <2>2, <2>3
<1>5. ASSUME NEW u \in Ulps, NEW v \in Ulps, u <= v PROVE \E k \in Nat : v = k * u
  <2>1. PICK e \in 0 .. 2 * Precision + 1 : u = TwoTo[e]
    BY DEF Ulps
  <2>2. PICK f \in 0 .. 2 * Precision + 1 : v = TwoTo[f]
    BY DEF Ulps
  <2>3. e \in Nat /\ f \in Nat
    OBVIOUS
  <2>4. CASE e <= f
    BY <2>1, <2>2, <2>3, <2>4, TwoToDivides
  <2>5. CASE f < e
    <3>1. PICK k \in Nat : k > 0 /\ u = k * v /\ k >= 2
      BY <2>1, <2>2, <2>3, <2>5, TwoToDivides
    <3>2. u \in Nat /\ v \in Nat /\ v > 0
      BY <1>1
    <3>3. 2 * v <= k * v
      BY <3>1, <3>2, TimesMonotone
    <3> QED  BY <1>5, <3>1, <3>2, <3>3
  <2> QED  BY <2>3, <2>4, <2>5
<1> QED  BY <1>1, <1>2, <1>3, <1>4, <1>5

LEMMA UlpPositive == \A u \in Ulps : u \in Nat /\ u > 0
<1> SUFFICES ASSUME NEW u \in Ulps PROVE u \in Nat /\ u > 0
  OBVIOUS
<1>1. u \in Nat \ {0}
  BY UlpsAre
<1> QED  BY <1>1

LEMMA UnsafeIs ==
  /\ Unsafe \in Nat /\ Unsafe >= 2
  /\ Unit = Unsafe * Unsafe /\ Unit \in Nat /\ Unit > 0
  /\ TwoTo[Precision - 1] \in Nat /\ Unsafe = 2 * TwoTo[Precision - 1]
<1>1. Precision \in Nat /\ Precision - 1 \in Nat /\ (Precision - 1) + 1 = Precision
  BY MoneyAllocationAssumption
<1>2. TwoTo[(Precision - 1) + 1] = 2 * TwoTo[Precision - 1]
  BY <1>1, TwoToIs
<1>3. TwoTo[Precision - 1] \in Nat /\ TwoTo[Precision - 1] > 0
  BY <1>1, TwoToPositive
<1>4. TwoTo[Precision + Precision] = TwoTo[Precision] * TwoTo[Precision]
  BY <1>1, TwoToAdd
<1>5. 2 * Precision = Precision + Precision /\ 2 * Precision \in Nat
  BY <1>1
<1>6. Unit \in Nat /\ Unit > 0
  BY <1>5, TwoToPositive DEF Unit
<1>7. Unit = Unsafe * Unsafe
  BY <1>4, <1>5 DEF Unit, Unsafe
<1> QED  BY <1>1, <1>2, <1>3, <1>6, <1>7 DEF Unsafe

(* HalfEven rounds to a nearest multiple.                                  *)
LEMMA HalfEvenNear ==
  ASSUME NEW n \in Nat, NEW d \in Nat, d > 0
  PROVE  /\ HalfEven(n, d) \in Nat
         /\ 2 * (HalfEven(n, d) * d) <= 2 * n + d
         /\ 2 * n <= 2 * (HalfEven(n, d) * d) + d
<1> DEFINE q == n \div d
           r == n % d
<1>1. q \in Nat /\ r \in Nat /\ r < d /\ d * q + r = n
  BY Division
<1>2. HalfEven(n, d) = IF 2 * r > d \/ (2 * r = d /\ q % 2 = 1) THEN q + 1 ELSE q
  BY DEF HalfEven
<1> HIDE DEF q, r
<1>3. PICK m \in Nat : m = d * q
  BY <1>1
<1>4. q * d = m /\ (q + 1) * d = m + d /\ q + 1 \in Nat
  BY <1>1, <1>3
<1>5. CASE 2 * r >= d /\ HalfEven(n, d) = q + 1
  BY <1>1, <1>3, <1>4, <1>5
<1>6. CASE 2 * r <= d /\ HalfEven(n, d) = q
  BY <1>1, <1>3, <1>4, <1>6
<1> QED  BY <1>1, <1>2, <1>5, <1>6

LEMMA HalfEvenExact ==
  ASSUME NEW q \in Nat, NEW d \in Nat, d > 0
  PROVE  HalfEven(q * d, d) = q
<1> DEFINE r == HalfEven(q * d, d)
<1>1. q * d \in Nat
  OBVIOUS
<1>2. r \in Nat /\ 2 * (r * d) <= 2 * (q * d) + d /\ 2 * (q * d) <= 2 * (r * d) + d
  BY <1>1, HalfEvenNear
<1> HIDE DEF r
<1>3. ASSUME r < q PROVE FALSE
  <2>1. (r + 1) * d <= q * d
    BY <1>2, <1>3, TimesMonotone, r + 1 <= q, r + 1 \in Nat
  <2>2. (r + 1) * d = r * d + d /\ r * d \in Nat
    BY <1>2
  <2> QED  BY <1>1, <1>2, <2>1, <2>2
<1>4. ASSUME q < r PROVE FALSE
  <2>1. (q + 1) * d <= r * d
    BY <1>2, <1>4, TimesMonotone, q + 1 <= r, q + 1 \in Nat
  <2>2. (q + 1) * d = q * d + d /\ r * d \in Nat
    BY <1>2
  <2> QED  BY <1>1, <1>2, <2>1, <2>2
<1>5. r = q
  BY <1>2, <1>3, <1>4
<1> QED  BY <1>5 DEF r

(* The ulp of a quotient in range leaves at most Precision bits, and half  *)
(* of it would not.                                                        *)
LEMMA UlpIs ==
  ASSUME NEW n \in Nat, NEW d \in Nat, d > 0, NEW u \in Ulps, n < d * Unsafe * u
  PROVE  /\ Ulp(n, d) \in Ulps /\ Ulp(n, d) <= u
         /\ n < d * Unsafe * Ulp(n, d)
         /\ Ulp(n, d) = 1 \/ d * Unsafe * Ulp(n, d) <= 2 * n
<1> DEFINE S == {v \in Ulps : n < d * Unsafe * v}
<1>1. S \subseteq Nat /\ u \in S
  BY UlpsAre
<1>2. Ulp(n, d) = Min(S)
  BY DEF Ulp
<1>3. Ulp(n, d) \in S /\ \A v \in S : Ulp(n, d) <= v
  <2> HIDE DEF S
  <2> QED  BY <1>1, <1>2, MinIs
<1>4. ASSUME Ulp(n, d) # 1 PROVE d * Unsafe * Ulp(n, d) <= 2 * n
  <2>1. PICK v \in Ulps : Ulp(n, d) = 2 * v
    BY <1>3, <1>4, UlpsAre
  <2>2. v \in Nat /\ v > 0
    BY UlpsAre
  <2>3. v \notin S
    BY <1>3, <2>1, <2>2
  <2>4. PICK a \in Nat : a = d * Unsafe
    BY UnsafeIs
  <2>5. a * v <= n
    <3>1. a * v \in Nat
      BY <2>2
    <3> QED  BY <2>3, <2>4, <3>1
  <2>6. a * (2 * v) = 2 * (a * v)
    BY <2>2
  <2>7. a * v \in Nat
    BY <2>2
  <2> QED  BY <2>1, <2>4, <2>5, <2>6, <2>7
<1> QED  BY <1>1, <1>3, <1>4

(* A double is within half an ulp of the quotient, and an ulp is small.    *)
LEMMA DoubleNear ==
  ASSUME NEW n \in Nat, NEW d \in Nat, d > 0, NEW u \in Ulps, n < d * Unsafe * u
  PROVE  /\ Double(n, d) \in Nat
         /\ 2 * (Double(n, d) * d) <= 2 * n + d * Ulp(n, d)
         /\ 2 * n <= 2 * (Double(n, d) * d) + d * Ulp(n, d)
<1>1. PICK v \in Nat : v = Ulp(n, d) /\ v > 0
  <2>1. Ulp(n, d) \in Ulps
    BY UlpIs
  <2> QED  BY <2>1, UlpPositive
<1>2. PICK dv \in Nat : dv = d * v /\ dv > 0
  <2>1. d * v \in Nat /\ d * v > 0
    BY <1>1
  <2> QED  BY <2>1
<1>3. PICK r \in Nat : r = HalfEven(n, dv)
  BY <1>2, HalfEvenNear
<1>4. 2 * (r * dv) <= 2 * n + dv /\ 2 * n <= 2 * (r * dv) + dv
  BY <1>2, <1>3, HalfEvenNear
<1>5. Double(n, d) = r * v
  BY <1>1, <1>2, <1>3 DEF Double
<1>6. (r * v) * d = r * dv /\ r * v \in Nat
  BY <1>2
<1> QED  BY <1>1, <1>2, <1>4, <1>5, <1>6

(* A quotient that is a multiple of its ulp is represented exactly.        *)
LEMMA DoubleExact ==
  ASSUME NEW d \in Nat, d > 0, NEW v \in Nat, NEW u \in Ulps, v * d < d * Unsafe * u,
         \E k \in Nat : v = k * Ulp(v * d, d)
  PROVE  Double(v * d, d) = v
<1>1. PICK n \in Nat : n = v * d
  OBVIOUS
<1>2. PICK w \in Nat : w = Ulp(n, d) /\ w > 0
  <2>1. Ulp(n, d) \in Ulps
    BY <1>1, UlpIs
  <2> QED  BY <2>1, UlpPositive
<1>3. PICK k \in Nat : v = k * w
  BY <1>1, <1>2
<1>4. PICK dw \in Nat : dw = d * w /\ dw > 0
  <2>1. d * w \in Nat /\ d * w > 0
    BY <1>2
  <2> QED  BY <2>1
<1>5. n = k * dw
  BY <1>1, <1>3, <1>4
<1>6. HalfEven(n, dw) = k
  BY <1>4, <1>5, HalfEvenExact
<1> QED  BY <1>1, <1>2, <1>3, <1>4, <1>6 DEF Double

(* The product of two safe integers: its relative error is at most one in  *)
(* Unsafe, and there is none when the product itself is safe.              *)
LEMMA ProductNear ==
  ASSUME NEW n \in Nat, n < Unit
  PROVE  /\ Double(n, 1) \in Nat
         /\ Unsafe * Double(n, 1) <= Unsafe * n + n
         /\ Unsafe * n <= Unsafe * Double(n, 1) + n
         /\ n < Unsafe => Double(n, 1) = n
<1>1. PICK U \in Nat : U = Unsafe /\ U >= 2
  BY UnsafeIs
<1>2. n < 1 * Unsafe * Unit
  <2>1. 1 * Unsafe * Unit = U * Unit /\ U * Unit >= Unit
    <3>1. Unit \in Nat
      BY UnsafeIs
    <3>2. 1 * Unit <= U * Unit
      BY <1>1, <3>1, TimesMonotone
    <3> QED  BY <1>1, <3>1, <3>2
  <2>2. Unit \in Nat
    BY UnsafeIs
  <2> QED  BY <1>1, <2>1, <2>2
<1>3. Unit \in Ulps /\ 1 \in Nat /\ 1 > 0
  BY UlpsAre
<1>4. PICK v \in Nat : v = Ulp(n, 1) /\ v > 0
  <2>1. Ulp(n, 1) \in Ulps
    BY <1>2, <1>3, UlpIs
  <2> QED  BY <2>1, UlpPositive
<1>5. v = 1 \/ U * v <= 2 * n
  <2>1. v = 1 \/ 1 * Unsafe * v <= 2 * n
    BY <1>2, <1>3, <1>4, UlpIs
  <2> QED  BY <1>1, <1>4, <2>1
<1>6. PICK r \in Nat : /\ r = Double(n, 1)
                       /\ 2 * (r * 1) <= 2 * n + 1 * v
                       /\ 2 * n <= 2 * (r * 1) + 1 * v
  BY <1>2, <1>3, <1>4, DoubleNear
<1>7. ASSUME v = 1 PROVE r = n
  <2>1. r * 1 = r /\ 1 * v = 1
    BY <1>7
  <2>2. 2 * r <= 2 * n + 1 /\ 2 * n <= 2 * r + 1
    BY <1>6, <2>1
  <2> QED  BY <2>2
<1>8. U * r <= U * n + n /\ U * n <= U * r + n
  <2>1. CASE v = 1
    <3>1. U * n \in Nat
      BY <1>1
    <3> QED  BY <1>1, <1>7, <2>1, <3>1
  <2>2. CASE U * v <= 2 * n
    <3>1. 2 * r <= 2 * n + v /\ 2 * n <= 2 * r + v
      BY <1>6
    <3>2. (2 * r) * U <= (2 * n + v) * U /\ (2 * n) * U <= (2 * r + v) * U
      BY <1>1, <1>4, <1>6, <3>1, TimesMonotone, 2 * r \in Nat, 2 * n \in Nat, 2 * r + v \in Nat, 2 * n + v \in Nat
    <3>3. /\ (2 * r) * U = 2 * (U * r) /\ (2 * n) * U = 2 * (U * n)
          /\ (2 * n + v) * U = 2 * (U * n) + U * v
          /\ (2 * r + v) * U = 2 * (U * r) + U * v
      OBVIOUS
    <3>4. U * r \in Nat /\ U * n \in Nat /\ U * v \in Nat
      OBVIOUS
    <3> QED  BY <2>2, <3>2, <3>3, <3>4
  <2> QED  BY <1>5, <2>1, <2>2
<1>9. ASSUME n < Unsafe PROVE v = 1
  <2>1. n < 1 * Unsafe * 1
    BY <1>1, <1>9
  <2>2. 1 \in Ulps
    BY UlpsAre
  <2>3. Ulp(n, 1) <= 1
    BY <1>3, <2>1, <2>2, UlpIs
  <2> QED  BY <1>4, <2>3
<1> QED  BY <1>1, <1>6, <1>7, <1>8, <1>9

(* Its quotient by the whole weight, in Unit-ths: the relative error of    *)
(* the division is again at most one in Unsafe, and there is none when the *)
(* quotient is a whole number.                                             *)
LEMMA QuotientNear ==
  ASSUME NEW x \in Nat, NEW whole \in Nat, whole > 0, whole < Unsafe, x < Unsafe * whole
  PROVE  /\ Double(x * Unit, whole) \in Nat
         /\ Unsafe * (Double(x * Unit, whole) * whole) <= Unsafe * (x * Unit) + x * Unit
         /\ Unsafe * (x * Unit) <= Unsafe * (Double(x * Unit, whole) * whole) + x * Unit
         /\ \A q \in Nat : x = q * whole => Double(x * Unit, whole) = q * Unit
<1>1. PICK U \in Nat : U = Unsafe /\ U >= 2
  BY UnsafeIs
<1>2. PICK I \in Nat : I = Unit /\ I = U * U /\ I > 0
  BY <1>1, UnsafeIs
<1>3. PICK n \in Nat : n = x * I
  OBVIOUS
<1>4. n < whole * Unsafe * Unit
  <2>1. x * I < (Unsafe * whole) * I
    BY <1>1, <1>2, TimesStrict, Unsafe * whole \in Nat
  <2>2. (Unsafe * whole) * I = whole * Unsafe * Unit
    BY <1>1, <1>2
  <2> QED  BY <1>3, <2>1, <2>2
<1>5. Unit \in Ulps
  BY UlpsAre
<1>6. PICK v \in Ulps : v = Ulp(n, whole) /\ v <= Unit /\ (v = 1 \/ whole * Unsafe * v <= 2 * n)
  BY <1>4, <1>5, UlpIs
<1>7. v \in Nat /\ v > 0
  BY UlpsAre
<1>8. PICK r \in Nat : /\ r = Double(n, whole)
                       /\ 2 * (r * whole) <= 2 * n + whole * v
                       /\ 2 * n <= 2 * (r * whole) + whole * v
  BY <1>4, <1>5, <1>6, DoubleNear
<1>9. ASSUME NEW q \in Nat, x = q * whole PROVE Double(n, whole) = q * Unit
  <2>1. PICK k \in Nat : Unit = k * v
    BY <1>5, <1>6, UlpsAre
  <2>2. PICK y \in Nat : y = q * I
    OBVIOUS
  <2>3. y = (q * k) * v /\ q * k \in Nat
    <3>1. q * (k * v) = (q * k) * v
      BY <1>7
    <3>2. I = k * v
      BY <1>2, <2>1
    <3>3. y = q * (k * v)
      BY <2>2, <3>2
    <3> QED  BY <3>1, <3>3
  <2>4. n = y * whole
    <3>1. (q * whole) * I = (q * I) * whole
      OBVIOUS
    <3> QED  BY <1>3, <1>9, <2>2, <3>1
  <2>5. Double(y * whole, whole) = y
    BY <1>4, <1>5, <1>6, <2>3, <2>4, DoubleExact
  <2> QED  BY <1>2, <2>2, <2>4, <2>5
<1>10. PICK m \in Nat : m = r * whole
  OBVIOUS
<1>11. U * m <= U * n + n /\ U * n <= U * m + n
  <2>1. CASE whole * Unsafe * v <= 2 * n
    <3>1. PICK t \in Nat : t = whole * v
      BY <1>7
    <3>2. 2 * m <= 2 * n + t /\ 2 * n <= 2 * m + t
      BY <1>8, <1>10, <3>1
    <3>3. (2 * m) * U <= (2 * n + t) * U /\ (2 * n) * U <= (2 * m + t) * U
      BY <3>2, TimesMonotone, 2 * m \in Nat, 2 * n \in Nat, 2 * m + t \in Nat, 2 * n + t \in Nat
    <3>4. /\ (2 * m) * U = 2 * (U * m) /\ (2 * n) * U = 2 * (U * n)
          /\ (2 * n + t) * U = 2 * (U * n) + U * t
          /\ (2 * m + t) * U = 2 * (U * m) + U * t
      OBVIOUS
    <3>5. U * m \in Nat /\ U * n \in Nat /\ U * t \in Nat
      OBVIOUS
    <3>6. U * t <= 2 * n
      <4>1. whole * U * v = U * (whole * v)
        BY <1>7
      <4> QED  BY <1>1, <2>1, <3>1, <4>1
    <3> QED  BY <3>3, <3>4, <3>5, <3>6
  <2>2. CASE v = 1 /\ ~ (whole * Unsafe * v <= 2 * n)
    <3>1. n < whole * Unsafe * 1
      <4>1. 2 * n < whole * U
        BY <1>1, <2>2
      <4> QED  BY <1>1, <4>1, whole * U \in Nat
    <3>2. x = 0
      <4>1. SUFFICES ASSUME x >= 1 PROVE FALSE
        OBVIOUS
      <4>2. 1 * I <= x * I
        BY <4>1, TimesMonotone
      <4>3. whole * U <= U * U
        BY <1>1, TimesMonotone
      <4> QED  BY <1>1, <1>2, <1>3, <3>1, <4>2, <4>3, whole * U \in Nat
    <3>3. x = 0 * whole /\ n = 0
      BY <1>3, <3>2
    <3>4. r = 0
      <4>1. Double(n, whole) = 0 * Unit
        BY <1>9, <3>3
      <4>2. 0 * Unit = 0
        BY <1>2
      <4> QED  BY <1>8, <4>1, <4>2
    <3>5. m = 0
      BY <1>10, <3>4
    <3> QED  BY <1>1, <3>3, <3>5
  <2> QED  BY <1>6, <2>1, <2>2
<1> QED  BY <1>1, <1>2, <1>3, <1>8, <1>9, <1>10, <1>11

-----------------------------------------------------------------------------
(* One part. *)

(* The exact part of weight w, of an amount and a whole weight.            *)
Part(total, w, whole) == Double(Double(total * w, 1) * Unit, whole)

LEMMA ProductInRange ==
  ASSUME NEW total \in Nat, total < Unsafe, NEW w \in Nat, NEW whole \in Nat,
         whole > 0, whole < Unsafe, w <= whole
  PROVE  /\ total * w \in Nat /\ total * w < Unit
         /\ Double(total * w, 1) \in Nat /\ Double(total * w, 1) < Unsafe * whole
         /\ Unsafe * Double(total * w, 1) <= (Unsafe + 1) * (total * w)
<1>1. PICK U \in Nat : U = Unsafe /\ U >= 2 /\ Unit = U * U
  BY UnsafeIs
<1>2. PICK n \in Nat : n = total * w
  OBVIOUS
<1>3. PICK V \in Nat : V = U - 1 /\ V >= 1
  <2>1. U - 1 \in Nat /\ U - 1 >= 1
    BY <1>1
  <2> QED  BY <2>1
<1>4. PICK m \in Nat : m = V * whole
  OBVIOUS
<1>5. n <= m
  <2>1. total * w <= V * w
    BY <1>1, <1>3, TimesMonotone
  <2>2. w * V <= whole * V
    BY TimesMonotone
  <2>3. w * V = V * w /\ whole * V = V * whole
    OBVIOUS
  <2> QED  BY <1>2, <1>4, <2>1, <2>2, <2>3
<1>6. m < U * U
  <2>1. whole * V <= U * V
    BY <1>1, TimesMonotone
  <2>2. whole * V = V * whole /\ U * V = U * U - U /\ U * U \in Nat
    BY <1>1, <1>3
  <2> QED  BY <1>1, <1>4, <2>1, <2>2
<1>7. PICK x \in Nat : x = Double(n, 1) /\ Unsafe * x <= Unsafe * n + n
  <2>1. n < Unit
    BY <1>1, <1>5, <1>6, U * U \in Nat
  <2>2. Double(n, 1) \in Nat /\ Unsafe * Double(n, 1) <= Unsafe * n + n
    BY <2>1, ProductNear
  <2> QED  BY <2>2
<1>8. U * x <= (U + 1) * n
  BY <1>1, <1>7
<1>9. x < U * whole
  <2>1. (U + 1) * n <= (U + 1) * m
    <3>1. n * (U + 1) <= m * (U + 1)
      BY <1>5, TimesMonotone, U + 1 \in Nat
    <3>2. n * (U + 1) = (U + 1) * n /\ m * (U + 1) = (U + 1) * m
      OBVIOUS
    <3> QED  BY <3>1, <3>2
  <2>2. (U + 1) * m = (U * U - 1) * whole
    BY <1>3, <1>4
  <2>3. (U * U - 1) * whole = (U * U) * whole - whole
    OBVIOUS
  <2>4. (U * U) * whole = (U * whole) * U /\ (U * whole) * U \in Nat
    OBVIOUS
  <2>5. U * x = x * U /\ x * U \in Nat
    OBVIOUS
  <2>6. (U + 1) * n \in Nat
    OBVIOUS
  <2>7. x * U < (U * whole) * U
    BY <1>8, <2>1, <2>2, <2>3, <2>4, <2>5, <2>6
  <2>8. U * whole \in Nat
    OBVIOUS
  <2> QED  BY <2>7, <2>8, CancelStrict
<1> QED  BY <1>1, <1>2, <1>5, <1>6, <1>7, <1>8, <1>9, U * U \in Nat

(* The relative error of an exact part. *)
LEMMA PartNear ==
  ASSUME NEW total \in Nat, total < Unsafe, NEW w \in Nat, NEW whole \in Nat,
         whole > 0, whole < Unsafe, w <= whole
  PROVE  /\ Part(total, w, whole) \in Nat
         /\ Unit * (Part(total, w, whole) * whole)
              <= ((Unsafe + 1) * (Unsafe + 1)) * ((total * w) * Unit)
<1>1. PICK U \in Nat : U = Unsafe /\ U >= 2 /\ Unit = U * U
  BY UnsafeIs
<1>2. PICK n \in Nat : n = total * w
  OBVIOUS
<1>3. PICK x \in Nat : x = Double(n, 1) /\ x < Unsafe * whole /\ U * x <= (U + 1) * n
  BY <1>1, <1>2, ProductInRange
<1>4. PICK v \in Nat : /\ v = Double(x * Unit, whole)
                       /\ Unsafe * (v * whole) <= Unsafe * (x * Unit) + x * Unit
  BY <1>3, QuotientNear
<1>5. Part(total, w, whole) = v
  BY <1>2, <1>3, <1>4 DEF Part
<1>6. PICK I \in Nat : I = Unit /\ I = U * U
  BY <1>1, UnsafeIs
<1>7. PICK vw \in Nat : vw = v * whole
  OBVIOUS
<1>8. U * vw <= (U + 1) * (x * I)
  BY <1>1, <1>4, <1>6, <1>7
<1>9. (U * vw) * U <= ((U + 1) * (x * I)) * U
  BY <1>8, TimesMonotone, U * vw \in Nat, (U + 1) * (x * I) \in Nat
<1>10. (U * vw) * U = I * vw
  BY <1>6
<1>11. ((U + 1) * (x * I)) * U = (U * x) * ((U + 1) * I)
  OBVIOUS
<1>12. (U * x) * ((U + 1) * I) <= ((U + 1) * n) * ((U + 1) * I)
  BY <1>3, TimesMonotone, U * x \in Nat, (U + 1) * n \in Nat, (U + 1) * I \in Nat
<1>13. ((U + 1) * n) * ((U + 1) * I) = ((U + 1) * (U + 1)) * (n * I)
  OBVIOUS
<1>14. I * vw <= ((U + 1) * (U + 1)) * (n * I)
  <2>1. I * vw \in Nat /\ (U * x) * ((U + 1) * I) \in Nat /\ ((U + 1) * (U + 1)) * (n * I) \in Nat
    OBVIOUS
  <2> QED  BY <1>9, <1>10, <1>11, <1>12, <1>13, <2>1
<1> QED  BY <1>1, <1>2, <1>4, <1>5, <1>6, <1>7, <1>14

(* A part of a product that leaves the last bit unused: its floor is that  *)
(* of the quotient, its fraction within half a Unit-th of the weight.      *)
LEMMA PartExact ==
  ASSUME NEW total \in Nat, total < Unsafe, NEW w \in Nat, NEW whole \in Nat,
         whole > 0, whole < Unsafe, w <= whole, 2 * (total * w) < Unsafe
  PROVE  /\ Floor(Part(total, w, whole)) = (total * w) \div whole
         /\ Fraction(Part(total, w, whole)) \in Nat
         /\ 2 * (Fraction(Part(total, w, whole)) * whole) < 2 * (((total * w) % whole) * Unit) + Unit
         /\ 2 * (((total * w) % whole) * Unit) < 2 * (Fraction(Part(total, w, whole)) * whole) + Unit
<1>1. PICK U \in Nat : U = Unsafe /\ U >= 2 /\ Unit = U * U
  BY UnsafeIs
<1>2. PICK n \in Nat : n = total * w
  OBVIOUS
<1>3. PICK I \in Nat : I = Unit /\ I = U * U /\ I > 0
  BY <1>1, UnsafeIs
<1>4. Double(n, 1) = n /\ n < Unsafe * whole
  <2>1. n < Unsafe /\ n < Unit
    BY <1>1, <1>2, ProductInRange
  <2> QED  BY <1>2, <2>1, ProductNear, ProductInRange
<1>5. PICK v \in Nat : /\ v = Double(n * Unit, whole)
                       /\ Unsafe * (v * whole) <= Unsafe * (n * Unit) + n * Unit
                       /\ Unsafe * (n * Unit) <= Unsafe * (v * whole) + n * Unit
                       /\ \A k \in Nat : n = k * whole => v = k * Unit
  BY <1>4, QuotientNear
<1>6. Part(total, w, whole) = v
  BY <1>2, <1>4, <1>5 DEF Part
<1>7. PICK vw \in Nat : vw = v * whole
  OBVIOUS
<1>8. PICK nI \in Nat : nI = n * I
  OBVIOUS
<1>9. U * vw <= U * nI + nI /\ U * nI <= U * vw + nI
  BY <1>1, <1>3, <1>5, <1>7, <1>8
<1>10. 2 * nI < U * I
  <2>1. (2 * n) * I < U * I
    BY <1>1, <1>2, <1>3, TimesStrict, 2 * n \in Nat
  <2>2. (2 * n) * I = 2 * nI
    BY <1>8
  <2> QED  BY <2>1, <2>2
<1>11. 2 * vw < 2 * nI + I /\ 2 * nI < 2 * vw + I
  <2>1. (2 * vw) * U < (2 * nI + I) * U
    <3>1. (2 * vw) * U = 2 * (U * vw) /\ (2 * nI + I) * U = 2 * (U * nI) + U * I
      OBVIOUS
    <3>2. U * vw \in Nat /\ U * nI \in Nat /\ U * I \in Nat
      OBVIOUS
    <3> QED  BY <1>9, <1>10, <3>1, <3>2
  <2>2. (2 * nI) * U < (2 * vw + I) * U
    <3>1. (2 * nI) * U = 2 * (U * nI) /\ (2 * vw + I) * U = 2 * (U * vw) + U * I
      OBVIOUS
    <3>2. U * vw \in Nat /\ U * nI \in Nat /\ U * I \in Nat
      OBVIOUS
    <3> QED  BY <1>9, <1>10, <3>1, <3>2
  <2> QED  BY <2>1, <2>2, CancelStrict, 2 * vw \in Nat, 2 * nI + I \in Nat, 2 * nI \in Nat, 2 * vw + I \in Nat
<1>12. PICK q \in Nat : q = n \div whole
  BY Division
<1>13. PICK r \in Nat : r = n % whole /\ r < whole
  BY Division
<1>14. n = q * whole + r
  <2>1. whole * q + r = n
    BY <1>12, <1>13, Division
  <2> QED  BY <2>1
<1>15. PICK qI \in Nat : qI = q * I
  OBVIOUS
<1>16. PICK rI \in Nat : rI = r * I
  OBVIOUS
<1>17. nI = qI * whole + rI
  BY <1>8, <1>14, <1>15, <1>16
<1>18. qI <= v /\ v < qI + I
  <2>1. CASE r = 0
    <3>1. v = qI
      BY <1>3, <1>5, <1>14, <1>15, <2>1
    <3> QED  BY <1>3, <3>1
  <2>2. CASE r > 0
    <3>1. I <= rI
      <4>1. 1 * I <= r * I
        BY <2>2, TimesMonotone
      <4> QED  BY <1>16, <4>1
    <3>2. rI + I <= whole * I
      <4>1. (r + 1) * I <= whole * I
        BY <1>13, TimesMonotone, r + 1 \in Nat
      <4> QED  BY <1>16, <4>1
    <3>3. qI * whole < v * whole
      BY <1>7, <1>11, <1>17, <3>1, qI * whole \in Nat
    <3>4. v * whole < (qI + I) * whole
      <4>1. (qI + I) * whole = qI * whole + whole * I
        OBVIOUS
      <4>2. qI * whole \in Nat /\ whole * I \in Nat
        OBVIOUS
      <4> QED  BY <1>3, <1>7, <1>11, <1>17, <3>2, <4>1, <4>2
    <3> QED  BY <3>3, <3>4, CancelStrict, qI + I \in Nat
  <2> QED  BY <1>13, <2>1, <2>2
<1>19. PICK f \in Nat : v = qI + f /\ f < I
  <2>1. v - qI \in Nat /\ v = qI + (v - qI) /\ v - qI < I
    BY <1>18
  <2> QED  BY <2>1
<1>20. v \div Unit = q /\ v % Unit = f
  <2>1. PICK a \in Nat : a = v \div I
    BY <1>3, Division
  <2>2. PICK b \in Nat : b = v % I /\ b < I
    BY <1>3, Division
  <2>3. I * a + b = v
    BY <1>3, <2>1, <2>2, Division
  <2>4. a * I + b = q * I + f
    BY <1>15, <1>19, <2>3
  <2>5. a = q
    <3>1. ASSUME a < q PROVE FALSE
      <4>1. (a + 1) * I <= q * I
        BY <3>1, TimesMonotone, a + 1 \in Nat
      <4>2. (a + 1) * I = a * I + I /\ a * I \in Nat /\ q * I \in Nat
        OBVIOUS
      <4> QED  BY <2>2, <2>4, <4>1, <4>2
    <3>2. ASSUME q < a PROVE FALSE
      <4>1. (q + 1) * I <= a * I
        BY <3>2, TimesMonotone, q + 1 \in Nat
      <4>2. (q + 1) * I = q * I + I /\ a * I \in Nat /\ q * I \in Nat
        OBVIOUS
      <4> QED  BY <1>19, <2>4, <4>1, <4>2
    <3> QED  BY <3>1, <3>2
  <2>6. b = f
    BY <2>4, <2>5, q * I \in Nat
  <2> QED  BY <1>3, <2>1, <2>2, <2>5, <2>6
<1>21. vw = qI * whole + f * whole
  BY <1>7, <1>19
<1>22. 2 * (f * whole) < 2 * rI + I /\ 2 * rI < 2 * (f * whole) + I
  BY <1>11, <1>17, <1>21, qI * whole \in Nat, f * whole \in Nat
<1> QED
  <2>1. Floor(Part(total, w, whole)) = q /\ Fraction(Part(total, w, whole)) = f
    BY <1>6, <1>20 DEF Floor, Fraction
  <2> QED  BY <1>2, <1>3, <1>12, <1>13, <1>16, <1>22, <2>1

(* Fractions keep their order: the nearer ones of two different quotients  *)
(* are not swapped.                                                        *)
LEMMA FractionOrder ==
  ASSUME NEW total \in Nat, total < Unsafe, NEW whole \in Nat, whole > 0, whole < Unsafe,
         NEW w \in Nat, w <= whole, 2 * (total * w) < Unsafe,
         NEW z \in Nat, z <= whole, 2 * (total * z) < Unsafe,
         (total * w) % whole < (total * z) % whole
  PROVE  Fraction(Part(total, w, whole)) < Fraction(Part(total, z, whole))
<1>1. PICK r \in Nat : r = (total * w) % whole
  BY Division, total * w \in Nat
<1>2. PICK s \in Nat : s = (total * z) % whole
  BY Division, total * z \in Nat
<1>3. PICK I \in Nat : I = Unit
  BY UnsafeIs
<1>4. PICK f \in Nat : f = Fraction(Part(total, w, whole)) /\ 2 * (f * whole) < 2 * (r * I) + I
  BY <1>1, <1>3, PartExact
<1>5. PICK g \in Nat : g = Fraction(Part(total, z, whole)) /\ 2 * (s * I) < 2 * (g * whole) + I
  BY <1>2, <1>3, PartExact
<1>6. (r + 1) * I <= s * I
  BY <1>1, <1>2, TimesMonotone, r + 1 \in Nat
<1>7. (r + 1) * I = r * I + I /\ r * I \in Nat /\ s * I \in Nat
  OBVIOUS
<1>8. f * whole < g * whole
  BY <1>4, <1>5, <1>6, <1>7, f * whole \in Nat, g * whole \in Nat
<1>9. f < g
  BY <1>8, CancelStrict
<1> QED  BY <1>4, <1>5, <1>9

-----------------------------------------------------------------------------
(* The order in which the units are handed out. *)

(* The weights of a split. *)
LEMMA WeightsAre ==
  ASSUME weights \in Weightings
  PROVE  /\ Len(weights) \in Nat /\ Len(weights) > 0
         /\ DOMAIN weights = 1 .. Len(weights)
         /\ IsFiniteSet(DOMAIN weights) /\ Cardinality(DOMAIN weights) = Len(weights)
         /\ WholeWeight \in Nat /\ WholeWeight > 0 /\ WholeWeight < Unsafe
         /\ \A i \in DOMAIN weights : /\ weights[i] \in Nat /\ weights[i] < Unsafe
                                      /\ weights[i] <= WholeWeight
<1>1. weights \in Seq(0 .. Unsafe - 1) /\ WholeWeight \in 1 .. Unsafe - 1
  BY MoneyAllocationAssumption DEF WholeWeight
<1>2. Len(weights) \in Nat /\ DOMAIN weights = 1 .. Len(weights)
  BY <1>1
<1>3. IsFiniteSet(DOMAIN weights) /\ Cardinality(DOMAIN weights) = Len(weights)
  <2>1. IsFiniteSet(1 .. Len(weights))
    BY <1>2, FS_Interval
  <2>2. Cardinality(1 .. Len(weights)) = IF 1 > Len(weights) THEN 0 ELSE Len(weights) - 1 + 1
    BY <1>2, FS_Interval, 1 \in Int, Len(weights) \in Int
  <2>3. Cardinality(1 .. Len(weights)) = Len(weights)
    BY <1>2, <2>2
  <2> QED  BY <1>2, <2>1, <2>3
<1>4. WholeWeight \in Nat /\ WholeWeight > 0 /\ WholeWeight < Unsafe
  BY <1>1, UnsafeIs
<1>5. \A i \in DOMAIN weights : weights[i] \in Nat /\ weights[i] < Unsafe
  <2> DEFINE S == 0 .. Unsafe - 1
  <2>1. \A i \in DOMAIN weights : weights[i] \in S
    <3>1. weights \in Seq(S)
      BY <1>1
    <3> HIDE DEF S
    <3> QED  BY <1>2, <3>1
  <2> QED  BY <2>1, UnsafeIs
<1>6. \A i \in DOMAIN weights : weights[i] <= WholeWeight
  BY <1>3, <1>5, SumNat DEF WholeWeight
<1>7. Len(weights) > 0
  <2>1. SUFFICES ASSUME Len(weights) = 0 PROVE FALSE
    BY <1>2
  <2>2. DOMAIN weights = {}
    BY <1>2, <2>1
  <2> QED  BY <1>4, <2>2, SumEmpty DEF WholeWeight
<1> QED  BY <1>2, <1>3, <1>4, <1>5, <1>6, <1>7

(* Before is a strict total order of the indices, so that each has a place *)
(* of its own, an index before another the smaller one.                    *)
LEMMA PlaceIs ==
  ASSUME weights \in Weightings, \A i \in DOMAIN weights : Fraction(exact[i]) \in Nat
  PROVE  /\ \A i \in DOMAIN weights : Place(i) \in 0 .. Len(weights) - 1
         /\ \A i, j \in DOMAIN weights : Before(i, j) => Place(i) < Place(j)
         /\ \A i, j \in DOMAIN weights : i # j => Place(i) # Place(j)
<1> DEFINE D == DOMAIN weights
           earlier(i) == {j \in D : Before(j, i)}
<1>1. D \subseteq Nat /\ IsFiniteSet(D) /\ Cardinality(D) = Len(weights) /\ Len(weights) \in Nat
  BY WeightsAre
<1>2. \A i, j, k \in D : Before(i, j) /\ Before(j, k) => Before(i, k)
  BY <1>1 DEF Before
<1>3. \A i \in D : ~ Before(i, i)
  BY <1>1 DEF Before
<1>4. \A i, j \in D : i # j => Before(i, j) \/ Before(j, i)
  BY <1>1 DEF Before
<1>5. \A i \in D : Place(i) = Cardinality(earlier(i))
  BY DEF Place
<1>6. ASSUME NEW A \in SUBSET D, NEW B \in SUBSET A, NEW x \in A \ B
      PROVE  /\ Cardinality(A) \in Nat /\ Cardinality(B) \in Nat
             /\ Cardinality(B) < Cardinality(A)
  <2>1. IsFiniteSet(A)
    BY <1>1, FS_Subset
  <2>2. IsFiniteSet(B) /\ Cardinality(B) <= Cardinality(A)
    BY <2>1, FS_Subset
  <2>3. Cardinality(A) # Cardinality(B)
    BY <2>1, FS_Subset
  <2> QED  BY <2>1, <2>2, <2>3, FS_CardinalityType
<1>7. ASSUME NEW i \in D PROVE Place(i) \in 0 .. Len(weights) - 1
  <2>1. earlier(i) \in SUBSET D /\ i \in D \ earlier(i)
    BY <1>3
  <2>2. Cardinality(earlier(i)) \in Nat /\ Cardinality(earlier(i)) < Cardinality(D)
    <3> HIDE DEF earlier, D
    <3> QED  BY <1>6, <2>1, D \in SUBSET D
  <2> QED  BY <1>1, <1>5, <2>2
<1>8. ASSUME NEW i \in D, NEW j \in D, Before(i, j) PROVE Place(i) < Place(j)
  <2>1. earlier(i) \in SUBSET earlier(j)
    BY <1>2, <1>8
  <2>2. i \in earlier(j) \ earlier(i)
    BY <1>3, <1>8
  <2>3. earlier(j) \in SUBSET D
    OBVIOUS
  <2>4. Cardinality(earlier(i)) < Cardinality(earlier(j))
    <3> HIDE DEF earlier, D
    <3> QED  BY <1>6, <2>1, <2>2, <2>3
  <2> QED  BY <1>5, <2>4
<1>9. ASSUME NEW i \in D, NEW j \in D, i # j PROVE Place(i) # Place(j)
  <2>1. Place(i) \in Int /\ Place(j) \in Int
    BY <1>7
  <2>2. Place(i) < Place(j) \/ Place(j) < Place(i)
    BY <1>4, <1>8, <1>9
  <2> QED  BY <2>1, <2>2
<1> QED  BY <1>7, <1>8, <1>9

(* Every place is taken, by the index that Ordered names.                  *)
LEMMA OrderedIs ==
  ASSUME weights \in Weightings, \A i \in DOMAIN weights : Fraction(exact[i]) \in Nat,
         NEW place \in 0 .. Len(weights) - 1
  PROVE  Ordered(place) \in DOMAIN weights /\ Place(Ordered(place)) = place
<1> DEFINE D == DOMAIN weights
           T == 0 .. Len(weights) - 1
           f == [i \in D |-> Place(i)]
<1>1. f \in Injection(D, T)
  <2>1. f \in [D -> T]
    BY PlaceIs
  <2>2. \A i, j \in D : f[i] = f[j] => i = j
    BY PlaceIs
  <2> HIDE DEF f, D, T
  <2> QED  BY <2>1, <2>2 DEF Injection, IsInjective
<1>2. IsFiniteSet(T) /\ Cardinality(T) = Cardinality(D)
  <2>1. PICK n \in Nat : n = Len(weights) /\ n > 0 /\ Cardinality(D) = n
    BY WeightsAre
  <2>2. 0 \in Int /\ n - 1 \in Int /\ ~ (0 > n - 1) /\ (n - 1) - 0 + 1 = n
    BY <2>1
  <2>3. IsFiniteSet(0 .. n - 1)
    BY <2>2, FS_Interval
  <2>4. Cardinality(0 .. n - 1) = IF 0 > n - 1 THEN 0 ELSE (n - 1) - 0 + 1
    BY <2>2, FS_Interval
  <2> QED  BY <2>1, <2>2, <2>3, <2>4
<1>3. f \in Surjection(D, T)
  <2> HIDE DEF f, D, T
  <2> QED  BY <1>1, <1>2, FS_Injection
<1>4. \E i \in D : f[i] = place
  <2>1. place \in T
    OBVIOUS
  <2> HIDE DEF f, D, T
  <2> QED  BY <1>3, <2>1 DEF Surjection
<1>5. \E i \in DOMAIN weights : Place(i) = place
  BY <1>4
<1> QED  BY <1>5 DEF Ordered

-----------------------------------------------------------------------------
(* The floors, and what they leave over. *)

(* As many ones as members.                                                *)
LEMMA SumOfOnes ==
  ASSUME NEW S, IsFiniteSet(S), NEW f, \A x \in S : f[x] = 1
  PROVE  SumOver(f, S) = Cardinality(S)
<1> DEFINE X == {T \in SUBSET S : SumOver(f, T) = Cardinality(T)}
<1>1. {} \in X
  BY SumEmpty, FS_EmptySet
<1>2. ASSUME NEW T \in SUBSET S, T # {}, \A x \in T : T \ {x} \in X PROVE T \in X
  <2>1. PICK x \in T : TRUE
    BY <1>2
  <2>2. IsFiniteSet(T)
    BY FS_Subset
  <2>3. SumOver(f, T) = f[x] + SumOver(f, T \ {x})
    BY <2>2, SumRemove
  <2>4. Cardinality(T \ {x}) = Cardinality(T) - 1
    BY <2>2, FS_RemoveElement
  <2>5. SumOver(f, T \ {x}) = Cardinality(T \ {x})
    BY <1>2
  <2>6. Cardinality(T) \in Nat
    BY <2>2, FS_CardinalityType
  <2> QED  BY <2>3, <2>4, <2>5, <2>6
<1>3. \A T \in SUBSET S : T \in X
  <2> HIDE DEF X
  <2> QED  BY <1>1, <1>2, SubsetInduction
<1> QED  BY <1>3

LEMMA AmountIs ==
  ASSUME amount \in Amounts
  PROVE  amount \in Nat /\ amount < Unsafe
  BY MoneyAllocationAssumption, UnsafeIs

Floors == [i \in DOMAIN weights |-> Floor(Exact(weights[i]))]

LEMMA ExactIs ==
  ASSUME amount \in Amounts, weights \in Weightings, NEW i \in DOMAIN weights
  PROVE  /\ Exact(weights[i]) = Part(amount, weights[i], WholeWeight)
         /\ Exact(weights[i]) \in Nat
         /\ Floors[i] \in Nat /\ Floors[i] * Unit <= Exact(weights[i])
         /\ Fraction(Exact(weights[i])) \in Nat
<1>1. Exact(weights[i]) = Part(amount, weights[i], WholeWeight)
  BY DEF Exact, Part
<1>2. PICK v \in Nat : v = Exact(weights[i])
  BY <1>1, AmountIs, WeightsAre, PartNear
<1>3. PICK I \in Nat : I = Unit /\ I > 0
  BY UnsafeIs
<1>4. v \div I \in Nat /\ v % I \in Nat /\ I * (v \div I) + (v % I) = v
  BY <1>3, Division
<1>5. PICK q \in Nat : q = v \div I
  BY <1>4
<1>6. PICK r \in Nat : r = v % I
  BY <1>4
<1>7. q * I <= v
  <2>1. I * q + r = v
    BY <1>4, <1>5, <1>6
  <2>2. I * q = q * I /\ q * I \in Nat
    OBVIOUS
  <2> QED  BY <2>1, <2>2
<1>8. Floors[i] = q /\ Fraction(Exact(weights[i])) = r
  BY <1>2, <1>3, <1>5, <1>6 DEF Floors, Floor, Fraction
<1> QED  BY <1>1, <1>2, <1>3, <1>7, <1>8

(* The floors of an amount that leaves the last bit unused sum to no more  *)
(* than the amount: the relative errors of the parts, two roundings each,  *)
(* do not add up to one unit.                                              *)
LEMMA FloorsWithinAmount ==
  ASSUME amount \in Amounts, weights \in Weightings, amount < TwoTo[Precision - 1]
  PROVE  SumOver(Floors, DOMAIN weights) <= amount
<1> DEFINE D == DOMAIN weights
<1>1. PICK U \in Nat : U = Unsafe /\ U >= 2 /\ Unit = U * U
  BY UnsafeIs
<1>2. PICK I \in Nat : I = Unit /\ I = U * U /\ I > 0
  BY <1>1, UnsafeIs
<1>3. PICK a \in Nat : a = amount /\ a < U
  BY <1>1, AmountIs
<1>4. PICK W \in Nat : W = WholeWeight /\ W > 0
  BY WeightsAre
<1>5. IsFiniteSet(D)
  BY WeightsAre
<1>6. PICK B \in Nat : B = (U + 1) * (U + 1)
  OBVIOUS
<1>7. PICK k \in Nat : k = (I * I) * W
  OBVIOUS
<1>8. PICK m \in Nat : m = (B * I) * a
  OBVIOUS
<1> DEFINE g == [i \in D |-> k * Floors[i]]
           h == [i \in D |-> m * weights[i]]
<1>9. ASSUME NEW i \in D
      PROVE  /\ Floors[i] \in Nat /\ weights[i] \in Nat
             /\ g[i] \in Nat /\ h[i] \in Nat /\ g[i] <= h[i]
  <2>1. PICK w \in Nat : w = weights[i]
    BY WeightsAre
  <2>2. PICK q \in Nat : q = Floors[i]
    BY ExactIs
  <2>3. PICK v \in Nat : v = Exact(weights[i]) /\ q * I <= v
    BY <1>2, <2>2, ExactIs
  <2>4. I * (v * W) <= B * ((a * w) * I)
    <3>1. w <= W /\ W < Unsafe /\ a < Unsafe
      BY <1>1, <1>3, <1>4, <2>1, WeightsAre
    <3>2. v = Part(a, w, W)
      BY <1>3, <1>4, <2>1, <2>3, ExactIs
    <3> QED  BY <1>1, <1>2, <1>4, <1>6, <3>1, <3>2, PartNear
  <2>5. k * q = (q * I) * (I * W) /\ I * (v * W) = v * (I * W)
    BY <1>7
  <2>6. (q * I) * (I * W) <= v * (I * W)
    BY <2>3, TimesMonotone, q * I \in Nat, I * W \in Nat
  <2>7. B * ((a * w) * I) = m * w
    BY <1>8
  <2>8. k * q \in Nat /\ m * w \in Nat /\ v * (I * W) \in Nat
    OBVIOUS
  <2>9. k * q <= m * w
    BY <2>4, <2>5, <2>6, <2>7, <2>8
  <2>10. g[i] = k * q /\ h[i] = m * w
    BY <2>1, <2>2
  <2> HIDE DEF g, h
  <2> QED  BY <2>1, <2>2, <2>8, <2>9, <2>10
<1>10. SumOver(g, D) = k * SumOver(Floors, D)
  <2>1. \A i \in D : Floors[i] \in Int /\ g[i] = k * Floors[i]
    BY <1>9
  <2> HIDE DEF g, D
  <2> QED  BY <1>5, <2>1, SumScale, k \in Int
<1>11. SumOver(h, D) = m * SumOver(weights, D)
  <2>1. \A i \in D : weights[i] \in Int /\ h[i] = m * weights[i]
    BY <1>9
  <2> HIDE DEF h, D
  <2> QED  BY <1>5, <2>1, SumScale, m \in Int
<1>12. SumOver(g, D) <= SumOver(h, D)
  <2> HIDE DEF g, h, D
  <2> QED  BY <1>5, <1>9, SumMonotone, D \in SUBSET D
<1>13. PICK F \in Nat : F = SumOver(Floors, D)
  <2> HIDE DEF D
  <2> QED  BY <1>5, <1>9, SumNat
<1>14. k * F <= m * W
  <2> HIDE DEF g, h
  <2> QED  BY <1>4, <1>10, <1>11, <1>12, <1>13 DEF WholeWeight
<1>15. I * F <= B * a
  <2>1. k * F = (I * F) * (I * W) /\ m * W = (B * a) * (I * W)
    BY <1>7, <1>8
  <2>2. I * F \in Nat /\ B * a \in Nat /\ I * W \in Nat /\ I * W > 0
    BY <1>2, <1>4
  <2> QED  BY <1>14, <2>1, <2>2, Cancel
<1>16. ASSUME F > a PROVE FALSE
  <2>1. (a + 1) * I <= F * I
    BY <1>16, TimesMonotone, a + 1 \in Nat
  <2>2. (a + 1) * I = I * a + I /\ F * I = I * F
    OBVIOUS
  <2>3. B * a = I * a + 2 * (U * a) + a
    <3>1. B = U * U + 2 * U + 1
      BY <1>6
    <3>2. (U * U + 2 * U + 1) * a = (U * U) * a + 2 * (U * a) + a
      OBVIOUS
    <3> QED  BY <1>2, <3>1, <3>2
  <2>4. I * a \in Nat /\ U * a \in Nat /\ I * F \in Nat
    OBVIOUS
  <2>5. I <= 2 * (U * a) + a
    BY <1>15, <2>1, <2>2, <2>3, <2>4
  <2>6. 2 * a + 2 <= U
    BY <1>1, <1>3, UnsafeIs
  <2>7. (2 * a + 2) * U <= U * U
    BY <2>6, TimesMonotone, 2 * a + 2 \in Nat
  <2>8. (2 * a + 2) * U = 2 * (U * a) + 2 * U
    OBVIOUS
  <2> QED  BY <1>2, <1>3, <2>4, <2>5, <2>7, <2>8
<1> QED  BY <1>3, <1>13, <1>16

(* The floors of a small amount leave less than one unit a weight.         *)
LEMMA FloorsOfSmall ==
  ASSUME amount \in Amounts, weights \in Weightings, Small
  PROVE  /\ \A i \in DOMAIN weights : Floors[i] = (amount * weights[i]) \div WholeWeight
         /\ SumOver(Floors, DOMAIN weights) <= amount
         /\ amount - SumOver(Floors, DOMAIN weights) < Len(weights)
<1> DEFINE D == DOMAIN weights
<1>1. PICK a \in Nat : a = amount /\ a < Unsafe
  BY AmountIs
<1>2. PICK W \in Nat : W = WholeWeight /\ W > 0 /\ W < Unsafe
  BY WeightsAre
<1>3. PICK n \in Nat : n = Len(weights) /\ n > 0 /\ n = Cardinality(D) /\ IsFiniteSet(D)
  BY WeightsAre
<1> DEFINE r == [i \in D |-> (a * weights[i]) % W]
           p == [i \in D |-> a * weights[i]]
           s == [i \in D |-> W * Floors[i]]
           one == [i \in D |-> 1]
           c == [i \in D |-> (W - 1) * one[i]]
<1>4. ASSUME NEW i \in D
      PROVE  /\ Floors[i] \in Nat /\ weights[i] \in Nat
             /\ Floors[i] = (amount * weights[i]) \div WholeWeight
             /\ r[i] \in Nat /\ r[i] <= W - 1
             /\ p[i] \in Nat /\ s[i] \in Nat /\ p[i] = s[i] + r[i]
  <2>1. PICK w \in Nat : w = weights[i] /\ w <= W
    BY <1>2, WeightsAre
  <2>2. PICK x \in Nat : x = a * w
    OBVIOUS
  <2>3. 2 * x < Unsafe
    <3>1. x < TwoTo[Precision - 1]
      BY <1>1, <2>1, <2>2 DEF Small
    <3> QED  BY <3>1, UnsafeIs
  <2>4. Floors[i] = x \div W
    <3>1. Floors[i] = Floor(Part(a, w, W))
      BY <1>1, <1>2, <2>1, ExactIs DEF Floors
    <3> QED  BY <1>1, <1>2, <2>1, <2>2, <2>3, <3>1, PartExact
  <2>5. PICK q \in Nat : q = x \div W
    BY <1>2, Division
  <2>6. PICK y \in Nat : y = x % W /\ y < W /\ W * q + y = x
    BY <1>2, <2>5, Division
  <2>7. r[i] = y /\ p[i] = x /\ s[i] = W * q
    BY <2>1, <2>2, <2>4, <2>5, <2>6
  <2>8. W * q \in Nat
    OBVIOUS
  <2> HIDE DEF r, p, s
  <2> QED  BY <1>1, <1>2, <2>1, <2>2, <2>4, <2>5, <2>6, <2>7, <2>8
<1>5. \A i \in D : one[i] = 1 /\ one[i] \in Int /\ c[i] = (W - 1) * one[i] /\ c[i] = W - 1 /\ c[i] \in Nat
  BY <1>2
<1>6. SumOver(s, D) = W * SumOver(Floors, D)
  <2>1. \A i \in D : Floors[i] \in Int /\ s[i] = W * Floors[i]
    BY <1>4
  <2> HIDE DEF s, D
  <2> QED  BY <1>3, <2>1, SumScale, W \in Int
<1>7. SumOver(p, D) = a * SumOver(weights, D)
  <2>1. \A i \in D : weights[i] \in Int /\ p[i] = a * weights[i]
    BY <1>4
  <2> HIDE DEF p, D
  <2> QED  BY <1>3, <2>1, SumScale, a \in Int
<1> HIDE DEF r, p, s, one, c, D
<1>8. SumOver(p, D) = SumOver(s, D) + SumOver(r, D)
  <2>1. \A i \in D : s[i] \in Int /\ r[i] \in Int /\ p[i] = s[i] + r[i]
    BY <1>4
  <2> QED  BY <1>3, <2>1, SumAdd
<1>9. SumOver(one, D) = n
  BY <1>3, <1>5, SumOfOnes
<1>10. SumOver(c, D) = (W - 1) * SumOver(one, D)
  BY <1>3, <1>5, SumScale, W - 1 \in Int
<1>11. SumOver(r, D) <= SumOver(c, D)
  BY <1>3, <1>4, <1>5, SumMonotone, D \in SUBSET D
<1>12. PICK F \in Nat : F = SumOver(Floors, D)
  BY <1>3, <1>4, SumNat
<1>13. PICK R \in Nat : R = SumOver(r, D)
  BY <1>3, <1>4, SumNat
<1>14. a * W = W * F + R /\ R <= (W - 1) * n
  <2>1. SumOver(weights, D) = W
    BY <1>2 DEF WholeWeight, D
  <2> QED  BY <1>6, <1>7, <1>8, <1>9, <1>10, <1>11, <1>12, <1>13, <2>1
<1>15. F <= a
  <2>1. F * W <= a * W
    BY <1>14, W * F = F * W, a * W \in Nat, F * W \in Nat
  <2> QED  BY <1>2, <2>1, Cancel
<1>16. a - F < n
  <2>1. PICK d \in Nat : a = F + d
    <3>1. a - F \in Nat /\ a = F + (a - F)
      BY <1>15
    <3> QED  BY <3>1
  <2>2. d * W = R
    <3>1. (F + d) * W = W * F + d * W /\ W * F \in Nat /\ d * W \in Nat
      OBVIOUS
    <3> QED  BY <1>14, <2>1, <3>1
  <2>3. (W - 1) * n = n * W - n /\ n * W \in Nat
    OBVIOUS
  <2>4. d * W < n * W
    BY <1>3, <1>14, <2>2, <2>3
  <2>5. d < n
    BY <2>4, CancelStrict
  <2> QED  BY <2>1, <2>5
<1> QED  BY <1>1, <1>3, <1>4, <1>12, <1>15, <1>16 DEF D

-----------------------------------------------------------------------------
(* The loop. *)

(* Before the split nothing is left over and nothing handed out.           *)
Unsplit == result = <<>> => remainder = 0 /\ handed = 0

(* After it the remainder is what the parts do not hold, and never less    *)
(* than nothing when the amount leaves the last bit unused.                *)
RemainderIsWhatIsLeft ==
  result # <<>> =>
    /\ exact = [i \in DOMAIN weights |-> Exact(weights[i])]
    /\ result \in [DOMAIN weights -> Nat]
    /\ remainder = amount - SumOver(result, DOMAIN weights)
    /\ amount < TwoTo[Precision - 1] => remainder >= 0

(* The loop on a small amount goes less than once round, and has rounded   *)
(* up the indices of the places it has passed.                             *)
UnitsInOrder ==
  result # <<>> /\ Small =>
    /\ remainder >= 0 /\ handed + remainder < Len(weights)
    /\ \A i \in DOMAIN weights :
         result[i] = IF Place(i) < handed THEN Floors[i] + 1 ELSE Floors[i]

AllocateInv ==
  /\ amount \in Amounts /\ weights \in Weightings
  /\ handed \in Nat /\ remainder \in Int
  /\ Unsplit /\ RemainderIsWhatIsLeft /\ UnitsInOrder

LEMMA AllocateInitInv == AllocateInit => AllocateInv
  BY DEF AllocateInit, AllocateInv, Unsplit, RemainderIsWhatIsLeft, UnitsInOrder

LEMMA SplitInv == AllocateInv /\ Split => AllocateInv'
<1> SUFFICES ASSUME AllocateInv, Split PROVE AllocateInv'
  OBVIOUS
<1>1. amount \in Amounts /\ weights \in Weightings /\ handed = 0 /\ result = <<>>
  BY DEF AllocateInv, Unsplit, Split
<1>2. amount' = amount /\ weights' = weights /\ handed' = 0
  BY <1>1 DEF Split
<1> DEFINE D == DOMAIN weights
<1>3. exact' = [i \in D |-> Exact(weights[i])]
  BY DEF Split
<1>4. result' = Floors
  BY <1>3 DEF Split, Floors
<1>5. remainder' = amount - SumOver(Floors, D)
  BY <1>4 DEF Split
<1>6. Floors \in [D -> Nat]
  <2>1. \A i \in D : Floors[i] \in Nat
    BY <1>1, ExactIs
  <2>2. Floors = [i \in D |-> Floors[i]]
    BY DEF Floors
  <2> QED  BY <2>1, <2>2
<1>7. SumOver(Floors, D) \in Nat /\ amount \in Nat
  <2>1. IsFiniteSet(D) /\ \A i \in D : Floors[i] \in Nat
    BY <1>1, <1>6, WeightsAre
  <2> HIDE DEF D
  <2> QED  BY <1>1, <2>1, SumNat, AmountIs
<1>8. result' # <<>>
  <2>1. D # {}
    BY <1>1, WeightsAre
  <2>2. DOMAIN Floors = D
    BY <1>6
  <2> QED  BY <1>4, <2>1, <2>2
<1>9. RemainderIsWhatIsLeft'
  <2>1. exact' = [i \in DOMAIN weights |-> Exact(weights[i])]'
    BY <1>2, <1>3 DEF Exact, WholeWeight
  <2>2. amount < TwoTo[Precision - 1] => remainder' >= 0
    BY <1>1, <1>5, <1>7, FloorsWithinAmount
  <2> QED  BY <1>2, <1>4, <1>5, <1>6, <2>1, <2>2 DEF RemainderIsWhatIsLeft
<1>10. UnitsInOrder'
  <2>1. SUFFICES ASSUME Small
                 PROVE  /\ remainder' >= 0 /\ 0 + remainder' < Len(weights)
                        /\ \A i \in D : ~ (Place(i)' < 0)
    <3>1. Small' <=> Small
      BY <1>2 DEF Small
    <3>2. \A i \in D : Floors[i]' = Floors[i]
      BY <1>2 DEF Floors, Exact, WholeWeight
    <3> HIDE DEF Small
    <3> QED  BY <1>2, <1>4, <3>1, <3>2 DEF UnitsInOrder
  <2>2. remainder' >= 0 /\ remainder' < Len(weights)
    BY <1>1, <1>5, <1>7, <2>1, FloorsOfSmall
  <2>3. ASSUME NEW i \in D PROVE Place(i)' \in Nat
    <3> DEFINE S == {j \in D : Before(j, i)'}
    <3>1. Place(i)' = Cardinality(S)
      BY <1>2 DEF Place
    <3>2. IsFiniteSet(D) /\ S \in SUBSET D
      BY <1>1, WeightsAre
    <3> HIDE DEF S, D
    <3> QED  BY <3>1, <3>2, FS_Subset, FS_CardinalityType
  <2>4. \A i \in D : ~ (Place(i)' < 0)
    BY <2>3
  <2>5. 0 + remainder' = remainder'
    BY <1>5, <1>7
  <2> QED  BY <2>2, <2>4, <2>5
<1> QED
  BY <1>1, <1>2, <1>5, <1>7, <1>8, <1>9, <1>10 DEF AllocateInv, Unsplit

(* One more unit at one index is one more in the sum.                      *)
LEMMA SumBump ==
  ASSUME NEW S, IsFiniteSet(S), NEW f \in [S -> Nat], NEW t \in S
  PROVE  SumOver([f EXCEPT ![t] = @ + 1], S) = SumOver(f, S) + 1
<1> DEFINE g == [f EXCEPT ![t] = @ + 1]
<1>1. g[t] = f[t] + 1 /\ \A x \in S : g[x] \in Int /\ f[x] \in Int /\ (x # t => g[x] = f[x])
  OBVIOUS
<1> HIDE DEF g
<1>2. SumOver(g, S) = g[t] + SumOver(g, S \ {t})
  BY <1>1, SumRemove
<1>3. SumOver(f, S) = f[t] + SumOver(f, S \ {t})
  BY <1>1, SumRemove
<1>4. IsFiniteSet(S \ {t})
  BY FS_RemoveElement
<1>5. SumOver(g, S \ {t}) = SumOver(f, S \ {t})
  BY <1>1, <1>4, SumCong
<1>6. SumOver(f, S \ {t}) \in Int
  BY <1>1, <1>4, SumType, Int \in {Nat, Int}
<1> QED  BY <1>1, <1>2, <1>3, <1>5, <1>6 DEF g

LEMMA HandOutInv == AllocateInv /\ HandOut => AllocateInv'
<1> SUFFICES ASSUME AllocateInv, HandOut PROVE AllocateInv'
  OBVIOUS
<1>1. amount \in Amounts /\ weights \in Weightings /\ handed \in Nat /\ remainder \in Int /\ remainder > 0
  BY DEF AllocateInv, HandOut
<1>2. amount' = amount /\ weights' = weights /\ exact' = exact
      /\ handed' = handed + 1 /\ remainder' = remainder - 1
  BY DEF HandOut
<1>3. result # <<>>
  BY DEF AllocateInv, Unsplit, HandOut
<1> DEFINE D == DOMAIN weights
<1>4. /\ exact = [i \in D |-> Exact(weights[i])]
      /\ result \in [D -> Nat]
      /\ remainder = amount - SumOver(result, D)
  BY <1>3 DEF AllocateInv, RemainderIsWhatIsLeft
<1>5. \A i \in D : Fraction(exact[i]) \in Nat
  BY <1>1, <1>4, ExactIs
<1>6. PICK n \in Nat : n = Len(weights) /\ n > 0
  BY <1>1, WeightsAre
<1>7. PICK k \in Nat : k = handed % n /\ k < n /\ (handed < n => k = handed)
  <2>1. handed % n \in Nat /\ handed % n < n
    BY <1>1, <1>6, Division
  <2>2. handed < n => handed % n = handed
    BY <1>1, <1>6, SMTT(20)
  <2> QED  BY <2>1, <2>2
<1>8. PICK t \in D : t = Ordered(k) /\ Place(t) = k
  <2>1. k \in 0 .. Len(weights) - 1
    BY <1>6, <1>7
  <2> QED  BY <1>1, <1>5, <2>1, OrderedIs
<1>9. result' = [result EXCEPT ![t] = @ + 1]
  BY <1>6, <1>7, <1>8 DEF HandOut
<1>10. IsFiniteSet(D) /\ D # {} /\ amount \in Nat
  BY <1>1, AmountIs, WeightsAre
<1>11. SumOver(result', D) = SumOver(result, D) + 1 /\ SumOver(result, D) \in Nat
  <2>1. \A i \in D : result[i] \in Nat
    BY <1>4
  <2> HIDE DEF D
  <2>2. SumOver(result, D) \in Nat
    BY <1>10, <2>1, SumNat
  <2>3. SumOver([result EXCEPT ![t] = @ + 1], D) = SumOver(result, D) + 1
    BY <1>4, <1>10, SumBump
  <2> QED  BY <1>9, <2>2, <2>3
<1>12. result' \in [D -> Nat] /\ result' # <<>>
  <2>1. result' \in [D -> Nat]
    BY <1>4, <1>9
  <2>2. DOMAIN result' = D
    BY <2>1
  <2> QED  BY <1>10, <2>1, <2>2
<1>13. RemainderIsWhatIsLeft'
  <2>1. exact' = [i \in DOMAIN weights |-> Exact(weights[i])]'
    BY <1>2, <1>4 DEF Exact, WholeWeight
  <2>2. remainder' = amount - SumOver(result', D) /\ remainder' >= 0
    BY <1>1, <1>2, <1>4, <1>10, <1>11
  <2> QED  BY <1>2, <1>12, <2>1, <2>2 DEF RemainderIsWhatIsLeft
<1>14. UnitsInOrder'
  <2>1. \A i \in D : Place(i)' = Place(i) /\ Floors[i]' = Floors[i]
    BY <1>2 DEF Place, Before, Floors, Exact, WholeWeight
  <2>2. Small' <=> Small
    BY <1>2 DEF Small
  <2>3. SUFFICES ASSUME Small
                 PROVE  /\ remainder' >= 0 /\ handed' + remainder' < Len(weights)
                        /\ \A i \in D : result'[i] = IF Place(i) < handed' THEN Floors[i] + 1 ELSE Floors[i]
    <3> HIDE DEF Small
    <3> QED  BY <1>2, <2>1, <2>2 DEF UnitsInOrder
  <2>4. /\ remainder >= 0 /\ handed + remainder < n
        /\ \A i \in D : result[i] = IF Place(i) < handed THEN Floors[i] + 1 ELSE Floors[i]
    BY <1>3, <1>6, <2>3 DEF AllocateInv, UnitsInOrder
  <2>5. k = handed
    BY <1>1, <1>7, <2>4
  <2>6. ASSUME NEW i \in D
        PROVE  result'[i] = IF Place(i) < handed' THEN Floors[i] + 1 ELSE Floors[i]
    <3>1. Place(i) \in Int
      BY <1>1, <1>5, PlaceIs
    <3>2. CASE i = t
      <4>1. result[t] = Floors[t]
        BY <1>8, <2>4, <2>5
      <4>2. result'[t] = result[t] + 1
        BY <1>4, <1>9
      <4> QED  BY <1>1, <1>2, <1>8, <2>5, <3>2, <4>1, <4>2
    <3>3. CASE i # t
      <4>1. result'[i] = result[i]
        BY <1>4, <1>9, <3>3
      <4>2. Place(i) # handed
        BY <1>1, <1>5, <1>8, <2>5, <3>3, PlaceIs
      <4>3. Place(i) < handed' <=> Place(i) < handed
        BY <1>1, <1>2, <3>1, <4>2
      <4> QED  BY <2>4, <4>1, <4>3
    <3> QED  BY <3>2, <3>3
  <2>7. remainder' >= 0 /\ handed' + remainder' < Len(weights)
    BY <1>1, <1>2, <1>6, <2>4
  <2> QED  BY <2>6, <2>7
<1>15. handed' \in Nat /\ remainder' \in Int
  BY <1>1, <1>2
<1> QED
  BY <1>1, <1>2, <1>12, <1>13, <1>14, <1>15 DEF AllocateInv, Unsplit

LEMMA AllocateStutter == AllocateInv /\ UNCHANGED allocateVars => AllocateInv'
  BY DEF AllocateInv, Unsplit, RemainderIsWhatIsLeft, UnitsInOrder, allocateVars, Small, Place,
     Before, Floors, Exact, WholeWeight

(* What the loop keeps. *)
THEOREM AllocateInvariant == AllocateSpec => []AllocateInv
<1>1. AllocateInv /\ [AllocateNext]_allocateVars => AllocateInv'
  BY SplitInv, HandOutInv, AllocateStutter DEF AllocateNext
<1> QED  BY <1>1, AllocateInitInv, PTL DEF AllocateSpec

(* The parts of an amount that leaves the last bit unused sum to it.       *)
THEOREM AllocateSums == AllocateSpec => []SumsToAmount
<1>1. AllocateInv => SumsToAmount
  <2> SUFFICES ASSUME AllocateInv, Done, amount < TwoTo[Precision - 1]
               PROVE  SumOver(result, DOMAIN weights) = amount
    BY DEF SumsToAmount
  <2> DEFINE D == DOMAIN weights
  <2>1. amount \in Nat /\ IsFiniteSet(D) /\ remainder \in Int
    BY AmountIs, WeightsAre DEF AllocateInv
  <2>2. /\ result \in [D -> Nat] /\ remainder = amount - SumOver(result, D)
        /\ remainder >= 0 /\ remainder <= 0
    BY DEF AllocateInv, RemainderIsWhatIsLeft, Done
  <2>3. SumOver(result, D) \in Nat
    <3>1. \A i \in D : result[i] \in Nat
      BY <2>2
    <3> HIDE DEF D
    <3> QED  BY <2>1, <3>1, SumNat
  <2> QED  BY <2>1, <2>2, <2>3
<1> QED  BY <1>1, AllocateInvariant, PTL

(* The split of a small amount is a largest-remainder split, and equal     *)
(* weights are rounded up in order.                                        *)
THEOREM AllocateLargestRemainder == AllocateSpec => []LargestRemainder
<1>1. AllocateInv => LargestRemainder
  <2> SUFFICES ASSUME AllocateInv, Done, Small
               PROVE  /\ result \in AllocateMoney(amount, weights)
                      /\ \A i, j \in DOMAIN weights :
                           i < j /\ weights[i] = weights[j] => result[i] >= result[j]
    BY DEF LargestRemainder
  <2> DEFINE D == DOMAIN weights
  <2>1. amount \in Amounts /\ weights \in Weightings /\ remainder \in Int /\ handed \in Nat
    BY DEF AllocateInv
  <2>2. /\ exact = [i \in D |-> Exact(weights[i])]
        /\ result \in [D -> Nat]
        /\ remainder = amount - SumOver(result, D)
    BY DEF AllocateInv, RemainderIsWhatIsLeft, Done
  <2>3. /\ remainder >= 0 /\ remainder <= 0
        /\ \A i \in D : result[i] = IF Place(i) < handed THEN Floors[i] + 1 ELSE Floors[i]
    BY DEF AllocateInv, UnitsInOrder, Done
  <2>4. PICK a \in Nat : a = amount /\ a < Unsafe
    BY <2>1, AmountIs
  <2>5. PICK W \in Nat : W = WholeWeight /\ W > 0 /\ W < Unsafe
    BY <2>1, WeightsAre
  <2>6. IsFiniteSet(D) /\ D # {} /\ D \subseteq Nat
    BY <2>1, WeightsAre
  <2>7. \A i \in D : Fraction(exact[i]) \in Nat /\ exact[i] = Part(a, weights[i], W)
    BY <2>1, <2>2, <2>4, <2>5, ExactIs
  <2>8. \A i \in D : Place(i) \in Int
    BY <2>1, <2>7, PlaceIs
  <2>9. \A i, j \in D : Before(i, j) => Place(i) < Place(j)
    BY <2>1, <2>7, PlaceIs
  <2>10. \A i \in D : Floors[i] = (a * weights[i]) \div W /\ Floors[i] \in Nat
    BY <2>1, <2>4, <2>5, FloorsOfSmall, ExactIs
  <2>11. SumOver(result, D) = a /\ \A i \in D : result[i] \in 0 .. a
    <3>1. \A i \in D : result[i] \in Nat
      BY <2>2
    <3>2. SumOver(result, D) \in Nat /\ \A i \in D : result[i] <= SumOver(result, D)
      <4> HIDE DEF D
      <4> QED  BY <2>6, <3>1, SumNat
    <3>3. SumOver(result, D) = a
      BY <2>2, <2>3, <2>4, <3>2
    <3> QED  BY <3>1, <3>2, <3>3
  <2>12. ASSUME NEW i \in D, NEW j \in D, result[i] > Floors[i], result[j] = Floors[j]
         PROVE  (a * weights[i]) % W >= (a * weights[j]) % W
    <3>1. Place(i) < handed /\ ~ (Place(j) < handed)
      BY <2>3, <2>10, <2>12
    <3>2. ~ (Place(j) < Place(i))
      BY <2>1, <2>8, <3>1
    <3>3. PICK w \in Nat : w = weights[i] /\ w <= W
      BY <2>1, <2>5, WeightsAre
    <3>4. PICK z \in Nat : z = weights[j] /\ z <= W
      BY <2>1, <2>5, WeightsAre
    <3>5. 2 * (a * w) < Unsafe /\ 2 * (a * z) < Unsafe
      <4>1. a * w < TwoTo[Precision - 1] /\ a * z < TwoTo[Precision - 1]
        BY <2>4, <3>3, <3>4 DEF Small
      <4>2. a * w \in Nat /\ a * z \in Nat
        OBVIOUS
      <4> QED  BY <4>1, <4>2, UnsafeIs
    <3>6. (a * w) % W \in Nat /\ (a * z) % W \in Nat
      BY <2>5, Division, a * w \in Nat, a * z \in Nat
    <3>7. ASSUME (a * w) % W < (a * z) % W PROVE FALSE
      <4>1. Fraction(Part(a, w, W)) < Fraction(Part(a, z, W))
        BY <2>4, <2>5, <3>3, <3>4, <3>5, <3>7, FractionOrder
      <4>2. Fraction(exact[j]) > Fraction(exact[i])
        BY <2>7, <3>3, <3>4, <4>1
      <4>3. Before(j, i)
        BY <4>2 DEF Before
      <4> QED  BY <2>9, <3>2, <4>3
    <3> QED  BY <3>3, <3>4, <3>6, <3>7
  <2>13. result \in AllocateMoney(a, weights)
    <3>1. result \in [D -> 0 .. a]
      BY <2>2, <2>11
    <3>2. \A i \in D : result[i] \in {Floors[i], Floors[i] + 1}
      BY <2>3
    <3>3. W = SumOver(weights, D)
      BY <2>5 DEF WholeWeight
    <3> QED  BY <2>6, <2>10, <2>11, <2>12, <3>1, <3>2, <3>3 DEF AllocateMoney
  <2>14. ASSUME NEW i \in D, NEW j \in D, i < j, weights[i] = weights[j] PROVE result[i] >= result[j]
    <3>1. exact[i] = exact[j]
      BY <2>2, <2>14
    <3>2. Floors[i] = Floors[j]
      BY <2>10, <2>14
    <3>3. Before(i, j)
      BY <2>14, <3>1 DEF Before
    <3>4. Place(i) < Place(j)
      BY <2>9, <3>3
    <3>5. Place(j) < handed => Place(i) < handed
      BY <2>1, <2>8, <3>4
    <3> QED  BY <2>3, <2>10, <3>2, <3>5
  <2> QED  BY <2>4, <2>13, <2>14
<1> QED  BY <1>1, AllocateInvariant, PTL

-----------------------------------------------------------------------------
(* Settlement. *)

(* The fee is an amount and never more than what it is taken from. *)
LEMMA FeeWithinGross ==
  ASSUME NEW order \in Order
  PROVE  Fee(order.gross, order.fee) \in 0 .. order.gross
<1>1. order.gross \in Nat /\ order.fee.flat \in Nat /\ order.fee.bps \in Nat
  BY SettlementAssumption DEF Order
<1> DEFINE n == 2 * order.gross * order.fee.bps + Full
           d == 2 * Full
<1>2. n \in Nat /\ d \in Nat /\ d > 0
  BY <1>1, SettlementAssumption
<1> HIDE DEF n, d
<1>3. n \div d \in Nat
  BY <1>2
<1>4. ScaleMoney(order.gross, order.fee.bps, Full) \in Nat
  BY <1>3 DEF ScaleMoney, n, d
<1>5. QED
  BY <1>1, <1>4 DEF Fee

LEMMA InitInv == Init => Inv
<1> SUFFICES ASSUME Init PROVE Inv
  OBVIOUS
<1>1. TypeOK
  BY SettlementAssumption DEF Init, TypeOK, Idle, Pcs
<1>2. QED
  BY <1>1 DEF Init, Inv, RailsOnRecord, ConfirmedIsPaid, FailedSaysWhy, ToldIsKept, AuditTold,
     HandlersKnow, Knows, Idle, At, Exists, TransferMade

USE SettlementAssumption, RowAssumption

(***************************************************************************)
(* A handler touches one transaction.  What Inv says of that transaction,  *)
(* and what it says of a handler, is named, so that the lemma Frame leaves *)
(* each action only the transaction and the handler it is about.           *)
(***************************************************************************)
Sound(t) ==
  /\ TransferMade(t) =>
       /\ Exists(t) /\ row[t].status # "PENDING" /\ row[t].method # "STABLECOIN"
       /\ transfer[t] = row[t].net
       /\ workflow[t] = None
  /\ workflow[t] # None =>
       /\ Exists(t) /\ row[t].status # "PENDING" /\ row[t].method = "STABLECOIN"
       /\ workflow[t].net = row[t].net
  /\ t \in told => ~ Untouched(t)
  /\ Exists(t) /\ row[t].status = "CONFIRMED" =>
       \/ row[t].ref = "transfer" /\ TransferMade(t)
       \/ row[t].ref = "workflow" /\ WorkflowPaid(t)
       \/ row[t].ref = "simulated" /\ rails.fallback = "null-provider"
  /\ Exists(t) /\ row[t].status = "FAILED" =>
       \/ row[t].ref = "refused" /\ Untouched(t)
       \/ row[t].ref = "workflow" /\ workflow[t] # None
       \/ row[t].ref = "declined" /\ Asked(row[t]) /\ t \notin told
  /\ t \in told /\ Exists(t) /\ row[t].status \in {"CONFIRMED", "FAILED"} =>
       row[t].ref \in {"transfer", "workflow"}
  /\ <<"ALLOWED", t>> \in audit => Exists(t) /\ row[t].status = "CONFIRMED"
  /\ <<"DENIED", t>> \in audit => Exists(t) /\ row[t].status = "FAILED"

LEMMA InvBySound == Inv <=> TypeOK /\ HandlersKnow /\ \A t \in Transaction : Sound(t)
  BY DEF Inv, TypeOK, Sound, RailsOnRecord, ConfirmedIsPaid, FailedSaysWhy, ToldIsKept, AuditTold

(* The transaction t and the request r change; no other handler is at t.   *)
LEMMA Frame ==
  ASSUME Inv, TypeOK', NEW r \in Request, NEW t \in Transaction,
         rails' = rails,
         \A u \in Transaction \ {t} :
           /\ row'[u] = row[u] /\ transfer'[u] = transfer[u] /\ workflow'[u] = workflow[u]
           /\ u \in told' <=> u \in told
           /\ \A d \in {"ALLOWED", "DENIED"} : <<d, u>> \in audit' <=> <<d, u>> \in audit,
         \A s \in Request \ {r} : req'[s] = req[s],
         \A s \in Request \ {r} : req[s].pc # "idle" => req[s].id # t,
         req'[r].pc # "idle" => req'[r].id = t,
         Sound(t)', Knows(req[r])'
  PROVE  Inv'
<1>1. ASSUME NEW u \in Transaction PROVE Sound(u)'
  <2>1. CASE u = t
    BY <2>1
  <2>2. CASE u # t
    <3>1. Sound(u)
      BY InvBySound
    <3>2. QED
      BY <2>2, <3>1 DEF Sound, Untouched, Exists, TransferMade, WorkflowPaid, Asked, Route,
         StripeRefuses, FireblocksRefuses
  <2>3. QED
    BY <2>1, <2>2
<1>2. ASSUME NEW s \in Request PROVE Knows(req[s])'
  <2>1. CASE s = r
    BY <2>1
  <2>2. CASE s # r
    <3>1. Knows(req[s]) /\ req'[s] = req[s] /\ (req[s].pc # "idle" => req[s].id # t)
      BY <2>2 DEF Inv, HandlersKnow
    <3>2. CASE req[s].pc = "idle"
      BY <3>1, <3>2 DEF Knows
    <3>3. CASE req[s].pc # "idle"
      <4>1. req[s].id \in Transaction \ {t}
        BY <3>1, <3>3 DEF Knows
      <4> DEFINE u == req[s].id
      <4>2. /\ row'[u] = row[u] /\ transfer'[u] = transfer[u] /\ workflow'[u] = workflow[u]
            /\ req'[s] = req[s] /\ req'[s].id = u /\ u \in Transaction
            /\ u \in told' <=> u \in told
        BY <3>1, <4>1
      <4>3. Outcome(req[s]) => Outcome(req[s])'
        BY <4>2 DEF Outcome, Untouched, TransferMade, WorkflowPaid, Asked, Route,
           StripeRefuses, FireblocksRefuses
      <4>4. QED
        BY <3>1, <3>3, <4>2, <4>3 DEF Knows, Untouched, Exists, TransferMade
    <3>4. QED
      BY <3>2, <3>3
  <2>3. QED
    BY <2>1, <2>2
<1>3. ASSUME NEW a \in Request, NEW b \in Request, a # b,
             req'[a].pc # "idle", req'[b].pc # "idle"
      PROVE  req'[a].id # req'[b].id
  BY <1>3 DEF Inv, HandlersKnow, At
<1>4. HandlersKnow'
  BY <1>2, <1>3 DEF HandlersKnow, At
<1>5. (RailsOnRecord /\ ConfirmedIsPaid /\ FailedSaysWhy /\ ToldIsKept /\ AuditTold)'
  BY <1>1 DEF Sound, TypeOK, RailsOnRecord, ConfirmedIsPaid, FailedSaysWhy, ToldIsKept, AuditTold
<1>6. QED
  BY <1>4, <1>5 DEF Inv

-----------------------------------------------------------------------------
(* One lemma for each action. *)

LEMMA CreateInv ==
  ASSUME Inv, NEW r \in Request, NEW t \in Transaction, NEW order \in Orders, Create(r, t, order)
  PROVE  Inv'
<1>1. order \in Order /\ Fee(order.gross, order.fee) \in 0 .. order.gross
  BY FeeWithinGross
<1> DEFINE fee == Fee(order.gross, order.fee)
<1>2. PICK new : new = [status |-> "PENDING", method |-> order.method,
                        destination |-> order.destination, currency |-> order.currency,
                        gross |-> order.gross, fee |-> fee,
                        net |-> order.gross - fee, ref |-> None]
  OBVIOUS
<1>3. new \in Row /\ new # None
  <2>1. order.gross - fee \in Nat /\ fee \in Nat
    BY <1>1 DEF Order
  <2> HIDE DEF fee
  <2>2. QED
    BY <1>1, <1>2, <2>1 DEF Order, Row, Statuses
<1>4. PICK q : q = [pc |-> "created", id |-> t, succeeded |-> FALSE, ref |-> None]
  OBVIOUS
<1>6. /\ row[t] = None /\ row' = [row EXCEPT ![t] = new]
      /\ req' = [req EXCEPT ![r] = q] /\ req[r].pc = "idle"
      /\ UNCHANGED <<rails, audit, transfer, workflow, lost, told>>
  BY <1>2, <1>4 DEF Create, InsertTransaction, At
<1>7. TypeOK'
  BY <1>3, <1>4, <1>6 DEF Inv, TypeOK, Pcs
<1>8. /\ DOMAIN row = Transaction /\ DOMAIN req = Request
      /\ row'[t] = new /\ req'[r] = q
      /\ \A u \in Transaction \ {t} : row'[u] = row[u]
      /\ \A s \in Request \ {r} : req'[s] = req[s]
  BY <1>6 DEF Inv, TypeOK
<1>9. Sound(t) /\ transfer[t] = None /\ workflow[t] = None
  BY <1>6, InvBySound DEF Sound, Exists, TransferMade, Untouched
<1>10. Sound(t)'
  BY <1>2, <1>3, <1>6, <1>8, <1>9 DEF Sound, Exists, TransferMade, Untouched
<1>11. Knows(req[r])'
  BY <1>2, <1>3, <1>4, <1>6, <1>8, <1>9 DEF Knows, Untouched, TransferMade, Exists
<1>12. \A s \in Request \ {r} : req[s].pc # "idle" => req[s].id # t
  BY <1>6 DEF Inv, HandlersKnow, Knows, Exists
<1>13. QED
  BY <1>4, <1>6, <1>7, <1>8, <1>10, <1>11, <1>12, Frame

(* What is known when a handler that is not idle takes a step. *)
LEMMA AtWork ==
  ASSUME Inv, NEW r \in Request, req[r].pc # "idle"
  PROVE  \E t \in Transaction :
           /\ t = req[r].id /\ Knows(req[r]) /\ Sound(t) /\ row[t] \in Row
           /\ \A s \in Request \ {r} : req[s].pc # "idle" => req[s].id # t
<1>1. Knows(req[r])
  BY DEF Inv, HandlersKnow
<1>2. req[r].id \in Transaction /\ row[req[r].id] # None
  BY <1>1 DEF Knows, Exists
<1>3. QED
  BY <1>1, <1>2, InvBySound DEF Inv, TypeOK, HandlersKnow, At

ReqType == [pc : Pcs, id : Transaction \cup {None}, succeeded : BOOLEAN, ref : Refs \cup {None}]

LEMMA GotoDoes ==
  ASSUME TypeOK, NEW r \in Request, NEW pc \in Pcs, Goto(r, pc)
  PROVE  /\ req' \in [Request -> ReqType] /\ \A s \in Request \ {r} : req'[s] = req[s]
         /\ req'[r].pc = pc /\ req'[r].id = req[r].id
         /\ req'[r].succeeded = req[r].succeeded /\ req'[r].ref = req[r].ref
  BY DEF TypeOK, Goto, ReqType

LEMMA ReturnDoes ==
  ASSUME TypeOK, NEW r \in Request, NEW succeeded \in BOOLEAN, NEW ref \in Refs,
         Return(r, succeeded, ref)
  PROVE  /\ req' \in [Request -> ReqType] /\ \A s \in Request \ {r} : req'[s] = req[s]
         /\ req'[r].pc = "result" /\ req'[r].id = req[r].id
         /\ req'[r].succeeded = succeeded /\ req'[r].ref = ref
  BY DEF TypeOK, Return, ReqType, Pcs

LEMMA SetStatusDoes ==
  ASSUME TypeOK, NEW t \in Transaction, row[t] \in Row, NEW status \in Statuses,
         NEW ref \in Refs \cup {None}, SetStatus(t, status, ref)
  PROVE  /\ row' \in [Transaction -> Row \cup {None}] /\ row'[t] \in Row /\ row'[t] # None
         /\ row'[t].status = status /\ row'[t].ref = ref
         /\ row'[t].method = row[t].method /\ row'[t].net = row[t].net
         /\ row'[t].destination = row[t].destination /\ row'[t].currency = row[t].currency
         /\ \A u \in Transaction \ {t} : row'[u] = row[u]
<1>1. PICK new : new = [row[t] EXCEPT !.status = status, !.ref = ref]
  OBVIOUS
<1>2. /\ new \in Row /\ new.status = status /\ new.ref = ref
      /\ new.method = row[t].method /\ new.net = row[t].net
      /\ new.destination = row[t].destination /\ new.currency = row[t].currency
  BY <1>1 DEF Row
<1>3. row' = [row EXCEPT ![t] = new]
  BY <1>1 DEF SetStatus
<1>4. QED
  BY <1>2, <1>3 DEF TypeOK

(* The handler dies; what it has done stays. *)
LEMMA ThrowInv ==
  ASSUME Inv, NEW r \in Request, req[r].pc # "idle", Throw(r),
         UNCHANGED <<rails, row, audit, transfer, workflow, told>>
  PROVE  Inv'
<1>1. PICK t \in Transaction :
        /\ t = req[r].id /\ Sound(t)
        /\ \A s \in Request \ {r} : req[s].pc # "idle" => req[s].id # t
  BY AtWork
<1>2. req' = [req EXCEPT ![r] = Idle] /\ lost' = lost \cup {t}
  BY <1>1 DEF Throw
<1>3. TypeOK'
  BY <1>1, <1>2 DEF Inv, TypeOK, Idle, Pcs
<1>4. req'[r] = Idle /\ \A s \in Request \ {r} : req'[s] = req[s]
  BY <1>1, <1>2 DEF Inv, TypeOK
<1>5. Sound(t)'
  BY <1>1 DEF Sound, Untouched, Exists, TransferMade, WorkflowPaid, Asked, Route,
       StripeRefuses, FireblocksRefuses
<1>6. Knows(req[r])' /\ req'[r].pc = "idle"
  BY <1>4 DEF Knows, Idle
<1>7. QED
  BY <1>1, <1>3, <1>4, <1>5, <1>6, Frame

LEMMA SubmitInv ==
  ASSUME Inv, NEW r \in Request, Submit(r)
  PROVE  Inv'
<1>1. PICK t \in Transaction :
        /\ t = req[r].id /\ Knows(req[r]) /\ Sound(t) /\ row[t] \in Row
        /\ \A s \in Request \ {r} : req[s].pc # "idle" => req[s].id # t
  BY AtWork DEF Submit, At
<1>2. /\ row' \in [Transaction -> Row \cup {None}] /\ row'[t] \in Row /\ row'[t] # None
      /\ row'[t].status = "SUBMITTED"
      /\ \A u \in Transaction \ {t} : row'[u] = row[u]
  BY <1>1, SetStatusDoes DEF Submit, Inv, Statuses
<1>3. /\ req' \in [Request -> ReqType] /\ \A s \in Request \ {r} : req'[s] = req[s]
      /\ req'[r].pc = "send" /\ req'[r].id = t
  BY <1>1, GotoDoes DEF Submit, Inv, Pcs
<1>4. /\ UNCHANGED <<rails, audit, transfer, workflow, lost, told>>
      /\ row[t].status = "PENDING" /\ Untouched(t)
  BY <1>1 DEF Submit, At, Knows
<1>5. TypeOK'
  BY <1>2, <1>3, <1>4 DEF Inv, TypeOK, ReqType
<1>6. Sound(t)'
  BY <1>1, <1>2, <1>4 DEF Sound, Exists, TransferMade, Untouched
<1>7. Knows(req[r])'
  BY <1>2, <1>3, <1>4 DEF Knows, Exists, TransferMade, Untouched
<1>8. QED
  BY <1>1, <1>2, <1>3, <1>4, <1>5, <1>6, <1>7, Frame

LEMMA SendNullInv ==
  ASSUME Inv, NEW r \in Request, SendNull(r)
  PROVE  Inv'
<1>1. PICK t \in Transaction :
        /\ t = req[r].id /\ Knows(req[r]) /\ Sound(t) /\ row[t] \in Row
        /\ \A s \in Request \ {r} : req[s].pc # "idle" => req[s].id # t
  BY AtWork DEF SendNull, At
<1>2. /\ req' \in [Request -> ReqType] /\ \A s \in Request \ {r} : req'[s] = req[s]
      /\ req'[r].pc = "result" /\ req'[r].id = t
      /\ req'[r].succeeded /\ req'[r].ref = "simulated"
  BY <1>1, ReturnDoes DEF SendNull, Inv, Refs
<1>3. /\ UNCHANGED <<rails, row, audit, transfer, workflow, lost, told>>
      /\ Exists(t) /\ row[t].status = "SUBMITTED" /\ Untouched(t)
      /\ rails.fallback = "null-provider"
  BY <1>1 DEF SendNull, At, Knows, Route, Inv, TypeOK
<1>4. TypeOK'
  BY <1>2, <1>3 DEF Inv, TypeOK, ReqType
<1>5. Sound(t)'
  BY <1>1, <1>3 DEF Sound, Untouched, Exists, TransferMade, WorkflowPaid, Asked, Route,
       StripeRefuses, FireblocksRefuses
<1>6. Knows(req[r])'
  BY <1>1, <1>2, <1>3 DEF Knows, Exists, Outcome, Sound
<1>7. QED
  BY <1>1, <1>2, <1>3, <1>4, <1>5, <1>6, Frame

(* Stripe is called under the transaction's id and for its net amount, by  *)
(* a handler that finds nothing there yet.                                 *)
LEMMA SendStripeInv ==
  ASSUME Inv, NEW r \in Request, SendStripe(r)
  PROVE  Inv'
<1>1. PICK t \in Transaction :
        /\ t = req[r].id /\ Knows(req[r]) /\ Sound(t) /\ row[t] \in Row
        /\ \A s \in Request \ {r} : req[s].pc # "idle" => req[s].id # t
  BY AtWork DEF SendStripe, At
<1>2. /\ UNCHANGED <<rails, row, audit, workflow>> /\ req[r].pc = "send"
      /\ Exists(t) /\ row[t].status = "SUBMITTED" /\ Untouched(t)
  BY <1>1 DEF SendStripe, At, Knows
<1>3. CASE StripeRefuses(row[t])
  <2>1. Return(r, FALSE, "refused") /\ UNCHANGED <<transfer, lost, told>>
    BY <1>1, <1>3 DEF SendStripe, Mine
  <2>2. /\ req' \in [Request -> ReqType] /\ \A s \in Request \ {r} : req'[s] = req[s]
        /\ req'[r].pc = "result" /\ req'[r].id = t
        /\ ~ req'[r].succeeded /\ req'[r].ref = "refused"
    BY <1>1, <2>1, ReturnDoes DEF Inv, Refs
  <2>3. TypeOK'
    BY <1>2, <2>1, <2>2 DEF Inv, TypeOK, ReqType
  <2>4. Sound(t)'
    BY <1>1, <1>2, <2>1 DEF Sound, Untouched, Exists, TransferMade, WorkflowPaid, Asked, Route,
       StripeRefuses, FireblocksRefuses
  <2>5. Knows(req[r])'
    BY <1>2, <2>1, <2>2 DEF Knows, Exists, Outcome, Untouched, TransferMade
  <2>6. QED
    BY <1>1, <1>2, <2>1, <2>2, <2>3, <2>4, <2>5, Frame
<1>4. CASE ~ StripeRefuses(row[t])
  <2>1. /\ transfer' \in {transfer, [transfer EXCEPT ![t] = row[t].net]}
        /\ \/ /\ transfer'[t] # None /\ Return(r, TRUE, "transfer")
              /\ told' = told \cup {t} /\ UNCHANGED lost
           \/ Return(r, FALSE, "declined") /\ UNCHANGED <<lost, told>>
           \/ Throw(r) /\ UNCHANGED told
    BY <1>1, <1>4 DEF SendStripe, Mine
  <2>2. /\ transfer' \in [Transaction -> Nat \cup {None}]
        /\ transfer'[t] = None \/ transfer'[t] = row[t].net
        /\ \A u \in Transaction \ {t} : transfer'[u] = transfer[u]
    BY <1>1, <1>2, <2>1 DEF Inv, TypeOK, Row, Untouched, TransferMade
  <2>3. /\ told' \subseteq Transaction /\ t \notin told
        /\ t \in told' => transfer'[t] # None
        /\ \A u \in Transaction \ {t} : u \in told' <=> u \in told
    BY <1>1, <1>2, <2>1 DEF Inv, TypeOK, Sound
  <2>4. Sound(t)'
    BY <1>1, <1>2, <1>4, <2>2, <2>3 DEF Sound, Exists, TransferMade, WorkflowPaid, StripeRefuses,
       Untouched
  <2>5. CASE Throw(r) /\ UNCHANGED told
    <3>1. req' = [req EXCEPT ![r] = Idle] /\ lost' = lost \cup {t}
      BY <1>1, <2>5 DEF Throw
    <3>2. TypeOK'
      BY <1>2, <2>2, <2>3, <3>1 DEF Inv, TypeOK, Idle, Pcs
    <3>3. req'[r] = Idle /\ \A s \in Request \ {r} : req'[s] = req[s]
      BY <3>1 DEF Inv, TypeOK
    <3>4. Knows(req[r])' /\ req'[r].pc = "idle"
      BY <3>3 DEF Knows, Idle
    <3>5. QED
      BY <1>1, <1>2, <2>2, <2>3, <2>4, <3>2, <3>3, <3>4, Frame
  <2>6. CASE /\ transfer'[t] # None /\ Return(r, TRUE, "transfer")
             /\ told' = told \cup {t} /\ UNCHANGED lost
    <3>1. /\ req' \in [Request -> ReqType] /\ \A s \in Request \ {r} : req'[s] = req[s]
          /\ req'[r].pc = "result" /\ req'[r].id = t
          /\ req'[r].succeeded /\ req'[r].ref = "transfer"
      BY <1>1, <2>6, ReturnDoes DEF Inv, Refs
    <3>2. TypeOK'
      BY <1>2, <2>2, <2>3, <2>6, <3>1 DEF Inv, TypeOK, ReqType
    <3>3. Knows(req[r])'
      BY <1>2, <2>6, <3>1 DEF Knows, Exists, Outcome, TransferMade
    <3>4. QED
      BY <1>1, <1>2, <2>2, <2>3, <2>4, <3>1, <3>2, <3>3, Frame
  <2>7. CASE Return(r, FALSE, "declined") /\ UNCHANGED <<lost, told>>
    <3>1. /\ req' \in [Request -> ReqType] /\ \A s \in Request \ {r} : req'[s] = req[s]
          /\ req'[r].pc = "result" /\ req'[r].id = t
          /\ ~ req'[r].succeeded /\ req'[r].ref = "declined"
      BY <1>1, <2>7, ReturnDoes DEF Inv, Refs
    <3>2. TypeOK'
      BY <1>2, <2>2, <2>3, <2>7, <3>1 DEF Inv, TypeOK, ReqType
    <3>3. Asked(row[t])'
      <4>1. Asked(row[t])
        BY <1>1, <1>4 DEF SendStripe, Mine, Asked
      <4>2. QED
        BY <1>2, <4>1 DEF Asked, Route, StripeRefuses, FireblocksRefuses
    <3>4. Knows(req[r])'
      BY <1>2, <2>3, <2>7, <3>1, <3>3 DEF Knows, Exists, Outcome
    <3>5. QED
      BY <1>1, <1>2, <2>2, <2>3, <2>4, <3>1, <3>2, <3>4, Frame
  <2>8. QED
    BY <2>1, <2>5, <2>6, <2>7
<1>5. QED
  BY <1>3, <1>4

(* A workflow is started for the net amount, by a handler that finds none. *)
LEMMA StartWorkflowInv ==
  ASSUME Inv, NEW r \in Request, StartWorkflow(r)
  PROVE  Inv'
<1>1. PICK t \in Transaction :
        /\ t = req[r].id /\ Knows(req[r]) /\ Sound(t) /\ row[t] \in Row
        /\ \A s \in Request \ {r} : req[s].pc # "idle" => req[s].id # t
  BY AtWork DEF StartWorkflow, At
<1>2. /\ UNCHANGED <<rails, row, audit, transfer>> /\ req[r].pc = "send"
      /\ Exists(t) /\ row[t].status = "SUBMITTED" /\ Untouched(t)
      /\ row[t].method = "STABLECOIN"
  <2>1. UNCHANGED <<rails, row, audit, transfer>> /\ Route(row[t].method) = "openfireblocks"
    BY <1>1 DEF StartWorkflow, Mine
  <2>2. rails.fallback # "openfireblocks"
    BY DEF Inv, TypeOK
  <2>3. QED
    BY <1>1, <2>1, <2>2 DEF StartWorkflow, At, Knows, Route
<1>3. CASE FireblocksRefuses(row[t])
  <2>1. Return(r, FALSE, "refused") /\ UNCHANGED <<workflow, lost, told>>
    BY <1>1, <1>3 DEF StartWorkflow, Mine
  <2>2. /\ req' \in [Request -> ReqType] /\ \A s \in Request \ {r} : req'[s] = req[s]
        /\ req'[r].pc = "result" /\ req'[r].id = t
        /\ ~ req'[r].succeeded /\ req'[r].ref = "refused"
    BY <1>1, <2>1, ReturnDoes DEF Inv, Refs
  <2>3. TypeOK'
    BY <1>2, <2>1, <2>2 DEF Inv, TypeOK, ReqType
  <2>4. Sound(t)'
    BY <1>1, <1>2, <2>1 DEF Sound, Untouched, Exists, TransferMade, WorkflowPaid, Asked, Route,
       StripeRefuses, FireblocksRefuses
  <2>5. Knows(req[r])'
    BY <1>2, <2>1, <2>2 DEF Knows, Exists, Outcome, Untouched, TransferMade
  <2>6. QED
    BY <1>1, <1>2, <2>1, <2>2, <2>3, <2>4, <2>5, Frame
<1>4. CASE ~ FireblocksRefuses(row[t])
  <2>1. PICK new : new = [net |-> row[t].net, result |-> "running"]
    OBVIOUS
  <2>2. new \in Workflow /\ new # None /\ new.net = row[t].net
    <3>1. new \in Workflow /\ new.net = row[t].net
      BY <1>1, <2>1 DEF Workflow, Row
    <3>2. QED
      BY <3>1
  <2>3. /\ workflow' \in {workflow, [workflow EXCEPT ![t] = new]}
        /\ \/ /\ workflow'[t] # None /\ Goto(r, "poll")
              /\ told' = told \cup {t} /\ UNCHANGED lost
           \/ Return(r, FALSE, "declined") /\ UNCHANGED <<lost, told>>
           \/ Throw(r) /\ UNCHANGED told
    BY <1>1, <1>4, <2>1 DEF StartWorkflow, Mine
  <2>4. /\ workflow' \in [Transaction -> Workflow \cup {None}]
        /\ workflow'[t] = None \/ workflow'[t] = new
        /\ \A u \in Transaction \ {t} : workflow'[u] = workflow[u]
    BY <1>1, <1>2, <2>2, <2>3 DEF Inv, TypeOK, Untouched
  <2>5. /\ told' \subseteq Transaction /\ t \notin told
        /\ t \in told' => workflow'[t] # None
        /\ \A u \in Transaction \ {t} : u \in told' <=> u \in told
    BY <1>1, <1>2, <2>3 DEF Inv, TypeOK, Sound
  <2>6. Sound(t)'
    BY <1>1, <1>2, <2>2, <2>4, <2>5 DEF Sound, Exists, TransferMade, WorkflowPaid, Untouched
  <2>7. CASE Throw(r) /\ UNCHANGED told
    <3>1. req' = [req EXCEPT ![r] = Idle] /\ lost' = lost \cup {t}
      BY <1>1, <2>7 DEF Throw
    <3>2. TypeOK'
      BY <1>2, <2>4, <2>5, <3>1 DEF Inv, TypeOK, Idle, Pcs
    <3>3. req'[r] = Idle /\ \A s \in Request \ {r} : req'[s] = req[s]
      BY <3>1 DEF Inv, TypeOK
    <3>4. Knows(req[r])' /\ req'[r].pc = "idle"
      BY <3>3 DEF Knows, Idle
    <3>5. QED
      BY <1>1, <1>2, <2>4, <2>5, <2>6, <3>2, <3>3, <3>4, Frame
  <2>8. CASE /\ workflow'[t] # None /\ Goto(r, "poll")
             /\ told' = told \cup {t} /\ UNCHANGED lost
    <3>1. /\ req' \in [Request -> ReqType] /\ \A s \in Request \ {r} : req'[s] = req[s]
          /\ req'[r].pc = "poll" /\ req'[r].id = t
      BY <1>1, <2>8, GotoDoes DEF Inv, Pcs
    <3>2. TypeOK'
      BY <1>2, <2>4, <2>5, <2>8, <3>1 DEF Inv, TypeOK, ReqType
    <3>3. Knows(req[r])'
      BY <1>2, <2>8, <3>1 DEF Knows, Exists
    <3>4. QED
      BY <1>1, <1>2, <2>4, <2>5, <2>6, <3>1, <3>2, <3>3, Frame
  <2>9. CASE Return(r, FALSE, "declined") /\ UNCHANGED <<lost, told>>
    <3>1. /\ req' \in [Request -> ReqType] /\ \A s \in Request \ {r} : req'[s] = req[s]
          /\ req'[r].pc = "result" /\ req'[r].id = t
          /\ ~ req'[r].succeeded /\ req'[r].ref = "declined"
      BY <1>1, <2>9, ReturnDoes DEF Inv, Refs
    <3>2. TypeOK'
      BY <1>2, <2>4, <2>5, <2>9, <3>1 DEF Inv, TypeOK, ReqType
    <3>3. Asked(row[t])'
      <4>1. Asked(row[t])
        BY <1>1, <1>4 DEF StartWorkflow, Mine, Asked
      <4>2. QED
        BY <1>2, <4>1 DEF Asked, Route, StripeRefuses, FireblocksRefuses
    <3>4. Knows(req[r])'
      BY <1>2, <2>5, <2>9, <3>1, <3>3 DEF Knows, Exists, Outcome
    <3>5. QED
      BY <1>1, <1>2, <2>4, <2>5, <2>6, <3>1, <3>2, <3>4, Frame
  <2>10. QED
    BY <2>3, <2>7, <2>8, <2>9
<1>5. QED
  BY <1>3, <1>4

(* A workflow goes from running to a result: whoever counts on it still    *)
(* finds it there, and who counts on it being paid has seen its result.    *)
LEMMA WorkflowEndsInv ==
  ASSUME Inv, NEW t \in Transaction, WorkflowEnds(t)
  PROVE  Inv'
<1>1. /\ workflow[t] # None /\ workflow[t].result = "running"
      /\ UNCHANGED <<rails, row, audit, req, transfer, lost, told>>
  BY DEF WorkflowEnds
<1>2. workflow[t] \in Workflow
  BY <1>1 DEF Inv, TypeOK
<1>3. PICK answer \in Results : workflow' = [workflow EXCEPT ![t].result = answer]
  BY DEF WorkflowEnds
<1>4. PICK new : new = [workflow[t] EXCEPT !.result = answer]
  OBVIOUS
<1>5. new \in Workflow /\ new # None /\ new.net = workflow[t].net
  <2>1. new \in Workflow /\ new.net = workflow[t].net
    BY <1>2, <1>4 DEF Workflow
  <2>2. QED
    BY <2>1
<1>6. workflow' = [workflow EXCEPT ![t] = new]
  BY <1>3, <1>4
<1>7. /\ workflow' \in [Transaction -> Workflow \cup {None}]
      /\ workflow'[t] = new /\ \A u \in Transaction \ {t} : workflow'[u] = workflow[u]
  BY <1>5, <1>6 DEF Inv, TypeOK
<1>8. TypeOK'
  BY <1>1, <1>7 DEF Inv, TypeOK
<1>9. \A u \in Transaction :
        /\ WorkflowPaid(u) => WorkflowPaid(u)'
        /\ workflow'[u] = None <=> workflow[u] = None
        /\ workflow[u] # None => workflow'[u].net = workflow[u].net
  BY <1>1, <1>5, <1>7 DEF WorkflowPaid
<1>10. ASSUME NEW u \in Transaction PROVE Sound(u)'
  <2>1. Sound(u)
    BY InvBySound
  <2>2. QED
    BY <1>1, <1>9, <2>1 DEF Sound, Exists, TransferMade, Untouched, Asked, Route,
       StripeRefuses, FireblocksRefuses
<1>11. ASSUME NEW r \in Request PROVE Knows(req[r])'
  <2>1. Knows(req[r]) /\ req' = req
    BY <1>1 DEF Inv, HandlersKnow
  <2>2. CASE req[r].pc = "idle"
    BY <2>1, <2>2 DEF Knows
  <2>3. CASE req[r].pc # "idle"
    <3>1. req[r].id \in Transaction
      BY <2>1, <2>3 DEF Knows
    <3>2. Outcome(req[r]) => Outcome(req[r])'
      BY <1>1, <1>9, <3>1 DEF Outcome, Untouched, TransferMade, Exists, Asked, Route,
         StripeRefuses, FireblocksRefuses
    <3>3. QED
      BY <1>1, <1>9, <2>1, <3>1, <3>2 DEF Knows, Untouched, Exists, TransferMade
  <2>4. QED
    BY <2>2, <2>3
<1>12. HandlersKnow'
  BY <1>1, <1>11 DEF Inv, HandlersKnow, At
<1>13. (RailsOnRecord /\ ConfirmedIsPaid /\ FailedSaysWhy /\ ToldIsKept /\ AuditTold)'
  BY <1>8, <1>10 DEF Sound, TypeOK, RailsOnRecord, ConfirmedIsPaid, FailedSaysWhy, ToldIsKept, AuditTold
<1>14. QED
  BY <1>8, <1>12, <1>13 DEF Inv

(* Both ends of the poll: what it reports is what the workflow has done,   *)
(* or it names the workflow.                                               *)
LEMMA PollInv ==
  ASSUME Inv, NEW r \in Request, PollAnswered(r) \/ PollTimesOut(r)
  PROVE  Inv'
<1>1. PICK t \in Transaction :
        /\ t = req[r].id /\ Knows(req[r]) /\ Sound(t) /\ row[t] \in Row
        /\ \A s \in Request \ {r} : req[s].pc # "idle" => req[s].id # t
  BY AtWork DEF PollAnswered, PollTimesOut, At
<1>2. /\ UNCHANGED <<rails, row, audit, transfer, workflow, lost, told>>
      /\ Exists(t) /\ row[t].status = "SUBMITTED" /\ workflow[t] # None
  BY <1>1 DEF PollAnswered, PollTimesOut, At, Knows
<1>3. PICK succeeded \in BOOLEAN :
        Return(r, succeeded, "workflow") /\ (succeeded => WorkflowPaid(t))
  <2>1. CASE PollAnswered(r)
    <3> DEFINE succeeded == Successful(workflow[t].result)
    <3>1. succeeded \in BOOLEAN /\ (succeeded => WorkflowPaid(t))
      BY <1>2 DEF Successful, WorkflowPaid
    <3>2. Return(r, succeeded, "workflow")
      BY <1>1, <2>1 DEF PollAnswered
    <3> HIDE DEF succeeded
    <3>3. QED
      BY <3>1, <3>2, Zenon
  <2>2. CASE PollTimesOut(r)
    BY <2>2 DEF PollTimesOut
  <2>3. QED
    BY <2>1, <2>2
<1>4. /\ req' \in [Request -> ReqType] /\ \A s \in Request \ {r} : req'[s] = req[s]
      /\ req'[r].pc = "result" /\ req'[r].id = t
      /\ req'[r].succeeded = succeeded /\ req'[r].ref = "workflow"
  BY <1>1, <1>3, ReturnDoes DEF Inv, Refs
<1>5. TypeOK'
  BY <1>2, <1>4 DEF Inv, TypeOK, ReqType
<1>6. Sound(t)'
  BY <1>1, <1>2 DEF Sound, Untouched, Exists, TransferMade, WorkflowPaid, Asked, Route,
       StripeRefuses, FireblocksRefuses
<1>7. Knows(req[r])'
  BY <1>2, <1>3, <1>4 DEF Knows, Exists, Outcome, WorkflowPaid
<1>8. QED
  BY <1>1, <1>2, <1>4, <1>5, <1>6, <1>7, Frame

LEMMA ConcludeInv ==
  ASSUME Inv, NEW r \in Request, Conclude(r)
  PROVE  Inv'
<1>1. PICK t \in Transaction :
        /\ t = req[r].id /\ Knows(req[r]) /\ Sound(t) /\ row[t] \in Row
        /\ \A s \in Request \ {r} : req[s].pc # "idle" => req[s].id # t
  BY AtWork DEF Conclude, At
<1>2. /\ UNCHANGED <<rails, audit, transfer, workflow, lost, told>>
      /\ row[t].status = "SUBMITTED" /\ Outcome(req[r])
  BY <1>1 DEF Conclude, At, Knows
<1> DEFINE status == IF req[r].succeeded THEN "CONFIRMED" ELSE "FAILED"
<1>3. /\ row' \in [Transaction -> Row \cup {None}] /\ row'[t] \in Row /\ row'[t] # None
      /\ row'[t].status = status /\ row'[t].ref = req[r].ref
      /\ row'[t].method = row[t].method /\ row'[t].net = row[t].net
      /\ row'[t].destination = row[t].destination /\ row'[t].currency = row[t].currency
      /\ \A u \in Transaction \ {t} : row'[u] = row[u]
  <2>1. status \in Statuses /\ req[r].ref \in Refs \cup {None}
    BY DEF Inv, TypeOK, Statuses
  <2>2. SetStatus(t, status, req[r].ref)
    BY <1>1 DEF Conclude
  <2> HIDE DEF status
  <2>3. QED
    BY <1>1, <2>1, <2>2, SetStatusDoes DEF Inv
<1>4. /\ req' \in [Request -> ReqType] /\ \A s \in Request \ {r} : req'[s] = req[s]
      /\ req'[r].pc = "audit" /\ req'[r].id = t
      /\ req'[r].succeeded = req[r].succeeded
  BY <1>1, GotoDoes DEF Conclude, Inv, Pcs
<1>5. TypeOK'
  BY <1>2, <1>3, <1>4 DEF Inv, TypeOK, ReqType
<1>6. Sound(t)'
  <2>1. Asked(row[t]) => Asked(row[t])'
    BY <1>2, <1>3 DEF Asked, Route, StripeRefuses, FireblocksRefuses
  <2>2. QED
    BY <1>1, <1>2, <1>3, <2>1 DEF Sound, Untouched, Exists, TransferMade, WorkflowPaid, Outcome
<1>7. Knows(req[r])'
  BY <1>3, <1>4 DEF Knows, Exists
<1>8. QED
  BY <1>1, <1>2, <1>3, <1>4, <1>5, <1>6, <1>7, Frame

LEMMA RecordInv ==
  ASSUME Inv, NEW r \in Request, Record(r)
  PROVE  Inv'
<1>1. PICK t \in Transaction :
        /\ t = req[r].id /\ Knows(req[r]) /\ Sound(t) /\ row[t] \in Row
        /\ \A s \in Request \ {r} : req[s].pc # "idle" => req[s].id # t
  BY AtWork DEF Record, At
<1>2. /\ UNCHANGED <<rails, row, transfer, workflow, lost, told>> /\ Exists(t)
      /\ row[t].status = IF req[r].succeeded THEN "CONFIRMED" ELSE "FAILED"
  BY <1>1 DEF Record, At, Knows
<1>3. PICK d \in {"ALLOWED", "DENIED"} :
        /\ audit' = audit \cup {<<d, t>>}
        /\ d = IF req[r].succeeded THEN "ALLOWED" ELSE "DENIED"
  BY <1>1 DEF Record
<1>4. req'[r] = Idle /\ \A s \in Request \ {r} : req'[s] = req[s]
  BY DEF Record, Inv, TypeOK
<1>5. TypeOK'
  <2>1. req' = [req EXCEPT ![r] = Idle]
    BY DEF Record
  <2>2. audit' \subseteq {"ALLOWED", "DENIED"} \X Transaction
    BY <1>3 DEF Inv, TypeOK
  <2>3. QED
    BY <1>2, <2>1, <2>2 DEF Inv, TypeOK, Idle, Pcs
<1>6. Sound(t)'
  BY <1>1, <1>2, <1>3 DEF Sound, Untouched, Exists, TransferMade, WorkflowPaid, Asked, Route,
       StripeRefuses, FireblocksRefuses
<1>7. Knows(req[r])' /\ req'[r].pc = "idle"
  BY <1>4 DEF Knows, Idle
<1>8. \A u \in Transaction \ {t} : \A e \in {"ALLOWED", "DENIED"} :
        <<e, u>> \in audit' <=> <<e, u>> \in audit
  BY <1>3
<1>9. QED
  BY <1>1, <1>2, <1>4, <1>5, <1>6, <1>7, <1>8, Frame

LEMMA StutterInv ==
  ASSUME Inv, UNCHANGED vars
  PROVE  Inv'
<1>1. TypeOK'
  BY DEF vars, Inv, TypeOK
<1>2. (RailsOnRecord /\ ConfirmedIsPaid /\ FailedSaysWhy /\ ToldIsKept /\ AuditTold)'
  BY DEF vars, Inv, RailsOnRecord, ConfirmedIsPaid, FailedSaysWhy, ToldIsKept, AuditTold, Exists,
     Untouched, TransferMade, WorkflowPaid, Asked, Route, StripeRefuses, FireblocksRefuses
<1>3. HandlersKnow'
  BY DEF vars, Inv, HandlersKnow, Knows, Outcome, Untouched, Exists, TransferMade, WorkflowPaid, At,
     Asked, Route, StripeRefuses, FireblocksRefuses
<1>4. QED
  BY <1>1, <1>2, <1>3 DEF Inv

LEMMA NextInv ==
  ASSUME Inv, [Next]_vars
  PROVE  Inv'
<1>1. CASE UNCHANGED vars
  BY <1>1, StutterInv
<1>2. ASSUME NEW t \in Transaction, WorkflowEnds(t) PROVE Inv'
  BY <1>2, WorkflowEndsInv
<1>3. ASSUME NEW r \in Request, Call(r) PROVE Inv'
  BY <1>3, CreateInv DEF Call
<1>4. ASSUME NEW r \in Request, Step(r) PROVE Inv'
  BY <1>4, SubmitInv, SendNullInv, SendStripeInv, StartWorkflowInv, PollInv, ConcludeInv,
     RecordInv DEF Step
<1>5. ASSUME NEW r \in Request, PollThrows(r) \/ Crash(r) PROVE Inv'
  BY <1>5, ThrowInv DEF PollThrows, Crash, At
<1>6. QED
  BY <1>1, <1>2, <1>3, <1>4, <1>5 DEF Next

(***************************************************************************)
(* For any transactions, orders, fees and concurrent requests, with        *)
(* answers lost, polls that time out and processes that die at any await:  *)
(* the rails are only ever asked for what is on record as submitted, for   *)
(* its net amount and by one rail; CONFIRMED is paid; FAILED says whether  *)
(* no rail was asked, a workflow is to be looked up, or a rail answered    *)
(* with an error and the money may have moved; an id that a rail told is   *)
(* on the concluded row; and the audit trail says what the rows say.       *)
(***************************************************************************)
THEOREM SettlementCorrect == Spec => []Inv
<1>1. Init => Inv
  BY InitInv
<1>2. Inv /\ [Next]_vars => Inv'
  BY NextInv
<1>3. QED
  BY <1>1, <1>2, PTL DEF Spec

LEMMA RowsGoForward ==
  ASSUME Inv, [Next]_vars, NEW t \in Transaction, Exists(t), row'[t].status # row[t].status
  PROVE  row'[t].status \in Transitions[row[t].status]
<1>1. row' # row
  OBVIOUS
<1>2. Transitions["PENDING"] = {"SUBMITTED", "FAILED"}
      /\ Transitions["SUBMITTED"] = {"CONFIRMED", "FAILED"}
  BY DEF Transitions, Statuses
<1>3. ASSUME NEW r \in Request, NEW u \in Transaction, NEW order \in Orders, Create(r, u, order)
      PROVE  FALSE
  BY <1>3 DEF Create, InsertTransaction, Exists, Inv, TypeOK
<1>4. ASSUME NEW r \in Request, Submit(r) \/ Conclude(r)
      PROVE  row'[t].status \in Transitions[row[t].status]
  <2>1. PICK u \in Transaction : u = req[r].id /\ Knows(req[r]) /\ row[u] \in Row
    BY <1>4, AtWork DEF Submit, Conclude, At
  <2>2. CASE Submit(r)
    <3>1. SetStatus(u, "SUBMITTED", None) /\ row[u].status = "PENDING"
      BY <2>1, <2>2 DEF Submit, Knows, At
    <3>2. row'[u].status = "SUBMITTED" /\ \A v \in Transaction \ {u} : row'[v] = row[v]
      BY <2>1, <3>1, SetStatusDoes DEF Inv, Statuses
    <3>3. QED
      BY <1>2, <3>1, <3>2
  <2>3. CASE Conclude(r)
    <3>1. row[u].status = "SUBMITTED"
      BY <2>1, <2>3 DEF Conclude, Knows, At
    <3>2. PICK status \in {"CONFIRMED", "FAILED"} : SetStatus(u, status, req[r].ref)
      BY <2>1, <2>3 DEF Conclude
    <3>3. req[r].ref \in Refs \cup {None} /\ status \in Statuses
      BY DEF Inv, TypeOK, Statuses
    <3>4. row'[u].status = status /\ \A v \in Transaction \ {u} : row'[v] = row[v]
      BY <2>1, <3>2, <3>3, SetStatusDoes DEF Inv
    <3>5. QED
      BY <1>2, <3>1, <3>4
  <2>4. QED
    BY <1>4, <2>2, <2>3
<1>5. QED
  BY <1>1, <1>3, <1>4 DEF Next, vars, Call, Step, SendNull, SendStripe, StartWorkflow, PollAnswered,
     PollTimesOut, Record, PollThrows, Crash, WorkflowEnds

(* What a transaction has been told is final: CONFIRMED and FAILED stand,  *)
(* although setStatus overwrites whatever is there.                        *)
THEOREM SettlementForward == Spec => StatusForward
<1>1. Inv /\ [Next]_vars =>
        [\A t \in Transaction : Exists(t) /\ row'[t].status # row[t].status
           => row'[t].status \in Transitions[row[t].status]]_vars
  BY RowsGoForward
<1>2. QED
  BY <1>1, SettlementCorrect, PTL DEF Spec, StatusForward
-----------------------------------------------------------------------------
(* The in-memory repository.  setStatus of the database stores the         *)
(* reference it is given, also none; that of the memory keeps the one it   *)
(* has.  They agree because there is none before the outcome.              *)
ReferredByOutcome ==
  \A t \in Transaction : Exists(t) /\ row[t].status \in {"PENDING", "SUBMITTED"} => row[t].ref = None

(* The detail of the lemmas below: one status is set in both. *)
LEMMA StatusInBoth ==
  ASSUME TypeOK, MemoryAgrees, NEW t \in Transaction, row[t] \in Row, row[t].ref = None,
         NEW status \in Statuses, NEW ref \in Refs \cup {None},
         SetStatus(t, status, ref), MemSetStatus(t, status, ref)
  PROVE  MemoryAgrees'
<1>1. (IF ref = None THEN row[t].ref ELSE ref) = ref
  OBVIOUS
<1>2. [row[t] EXCEPT !.status = status, !.ref = IF ref = None THEN row[t].ref ELSE ref]
        = [row[t] EXCEPT !.status = status, !.ref = ref]
  BY <1>1
<1>3. row' = [row EXCEPT ![t] = [row[t] EXCEPT !.status = status, !.ref = ref]]
  BY DEF SetStatus
<1>4. mem' = [row EXCEPT ![t] =
               [row[t] EXCEPT !.status = status, !.ref = IF ref = None THEN row[t].ref ELSE ref]]
  BY DEF MemSetStatus, MemoryAgrees
<1>5. QED
  BY <1>2, <1>3, <1>4 DEF MemoryAgrees

LEMMA WriteBothAgrees ==
  ASSUME Inv, MemoryAgrees, ReferredByOutcome, NEW r \in Request, WriteBoth(r)
  PROVE  MemoryAgrees' /\ ReferredByOutcome'
<1>1. ASSUME NEW t \in Transaction, NEW order \in Orders, Create(r, t, order),
             MemCreate(t, order, Fee(order.gross, order.fee))
      PROVE  MemoryAgrees' /\ ReferredByOutcome'
  <2> DEFINE new == [status |-> "PENDING", method |-> order.method,
                     destination |-> order.destination, currency |-> order.currency,
                     gross |-> order.gross, fee |-> Fee(order.gross, order.fee),
                     net |-> order.gross - Fee(order.gross, order.fee), ref |-> None]
  <2>1. row' = [row EXCEPT ![t] = new] /\ mem' = [mem EXCEPT ![t] = new]
    BY <1>1 DEF Create, InsertTransaction, MemCreate
  <2>2. new.ref = None
    OBVIOUS
  <2> HIDE DEF new
  <2>3. QED
    BY <2>1, <2>2 DEF Inv, TypeOK, MemoryAgrees, ReferredByOutcome, Exists
<1>2. ASSUME Submit(r), MemSetStatus(req[r].id, "SUBMITTED", None)
      PROVE  MemoryAgrees' /\ ReferredByOutcome'
  <2>1. PICK t \in Transaction : t = req[r].id /\ Knows(req[r]) /\ row[t] \in Row
    BY <1>2, AtWork DEF Submit, At
  <2>2. row[t].ref = None /\ SetStatus(t, "SUBMITTED", None) /\ "SUBMITTED" \in Statuses
    BY <1>2, <2>1 DEF Submit, At, Knows, ReferredByOutcome, Exists, Statuses
  <2>3. row'[t].ref = None /\ \A u \in Transaction \ {t} : row'[u] = row[u]
    BY <2>1, <2>2, SetStatusDoes DEF Inv
  <2>4. QED
    BY <1>2, <2>1, <2>2, <2>3, StatusInBoth DEF Inv, ReferredByOutcome, Exists
<1>3. ASSUME Conclude(r),
             MemSetStatus(req[r].id, IF req[r].succeeded THEN "CONFIRMED" ELSE "FAILED", req[r].ref)
      PROVE  MemoryAgrees' /\ ReferredByOutcome'
  <2>1. PICK t \in Transaction : t = req[r].id /\ Knows(req[r]) /\ row[t] \in Row
    BY <1>3, AtWork DEF Conclude, At
  <2> DEFINE status == IF req[r].succeeded THEN "CONFIRMED" ELSE "FAILED"
  <2>2. status \in {"CONFIRMED", "FAILED"} /\ status \in Statuses /\ req[r].ref \in Refs \cup {None}
    BY DEF Statuses, Inv, TypeOK
  <2>3. row[t].ref = None /\ SetStatus(t, status, req[r].ref)
    BY <1>3, <2>1 DEF Conclude, At, Knows, ReferredByOutcome, Exists
  <2>4. MemSetStatus(t, status, req[r].ref)
    BY <1>3, <2>1
  <2> HIDE DEF status
  <2>5. row'[t].status = status /\ \A u \in Transaction \ {t} : row'[u] = row[u]
    BY <2>1, <2>2, <2>3, SetStatusDoes DEF Inv
  <2>6. QED
    BY <2>1, <2>2, <2>3, <2>4, <2>5, StatusInBoth DEF Inv, ReferredByOutcome, Exists
<1>4. QED
  BY <1>1, <1>2, <1>3 DEF WriteBoth

LEMMA MemNextIsNext == [MemNext]_memVars => [Next]_vars
  BY DEF MemNext, Next, memVars, WriteBoth, OnTheRails, Call, Step

(* The repository the tests run on holds the transactions that the         *)
(* database holds, for any orders, rails, overlaps, timeouts and crashes.  *)
THEOREM SettlementMemory == MemSpec => []MemoryAgrees
<1> DEFINE Agree == Inv /\ MemoryAgrees /\ ReferredByOutcome
<1>1. MemStart => Agree
  BY InitInv DEF MemStart, MemInit, Init, MemoryAgrees, ReferredByOutcome, Exists
<1>2. Agree /\ [MemNext]_memVars => Agree'
  <2> SUFFICES ASSUME Agree, [MemNext]_memVars PROVE Agree'
    OBVIOUS
  <2>1. Inv'
    BY NextInv, MemNextIsNext
  <2>2. ASSUME row' = row, mem' = mem PROVE MemoryAgrees' /\ ReferredByOutcome'
    BY <2>2 DEF MemoryAgrees, ReferredByOutcome, Exists
  <2>3. MemoryAgrees' /\ ReferredByOutcome'
    BY <2>2, WriteBothAgrees DEF MemNext, memVars, vars, OnTheRails, SendNull, SendStripe,
       StartWorkflow, PollAnswered, PollTimesOut, Record, PollThrows, Crash, WorkflowEnds
  <2>4. QED
    BY <2>1, <2>3
<1>3. Agree => MemoryAgrees
  OBVIOUS
<1>4. QED
  BY <1>1, <1>2, <1>3, PTL DEF MemSpec
=============================================================================

-------------------------- MODULE MoneyAllocation --------------------------
(***************************************************************************)
(* The loop of allocateMoney in packages/domain/src/money.ts, on the       *)
(* numbers it runs on: doubles, here with Precision significant bits in    *)
(* place of 53.  A safe integer is below 2^Precision.  Signs are left out: *)
(* the source splits the magnitude and puts the sign back.                 *)
(***************************************************************************)
EXTENDS Money, Sequences

CONSTANTS
  Precision,  \* the bits of a significand
  Amounts,    \* the amounts that are split
  Weightings  \* the weights they are split by, as sequences

(* 2^n *)
TwoTo[n \in Nat] == IF n = 0 THEN 1 ELSE 2 * TwoTo[n - 1]

(* The integers below it are safe. *)
Unsafe == TwoTo[Precision]

(* The amounts, the weights and the sum of the weights are safe integers;  *)
(* allocateMoney refuses weights whose sum is not positive.                *)
ASSUME MoneyAllocationAssumption ==
  /\ Precision \in Nat \ {0}
  /\ Amounts \subseteq 0 .. Unsafe - 1
  /\ Weightings \subseteq Seq(0 .. Unsafe - 1)
  /\ \A w \in Weightings : SumOver(w, DOMAIN w) \in 1 .. Unsafe - 1

VARIABLES
  amount, weights,  \* the input
  exact,            \* exact[i]: magnitude * w / totalWeight, as the double it is
  result,           \* the parts so far
  remainder,        \* what is still to be handed out
  handed            \* i, the number of units handed out

allocateVars == <<amount, weights, exact, result, remainder, handed>>

-----------------------------------------------------------------------------
(* A double is a whole number of Unit-ths, fine enough for any quotient.   *)
Unit == TwoTo[2 * Precision]

HalfEven(n, d) ==
  LET q == n \div d
      twice == 2 * (n % d)
  IN  IF twice > d \/ (twice = d /\ q % 2 = 1) THEN q + 1 ELSE q

(* n / d rounded to Precision significant bits: to a multiple of the least *)
(* power of two that leaves no more.                                       *)
Ulps == {TwoTo[e] : e \in 0 .. 2 * Precision + 1}
Ulp(n, d) == Min({u \in Ulps : n < d * Unsafe * u})
Double(n, d) == HalfEven(n, d * Ulp(n, d)) * Ulp(n, d)

(* Mutant of Floor: Math.round instead of Math.floor. *)
Rounded(double) == (double + Unit \div 2) \div Unit

Floor(double) == double \div Unit
Fraction(double) == double % Unit

WholeWeight == SumOver(weights, DOMAIN weights)
Exact(w) == Double(Double(amount * w, 1) * Unit, WholeWeight)

(* The comparator of the sort: by falling fraction, equal ones by index. *)
Before(a, b) ==
  \/ Fraction(exact[a]) > Fraction(exact[b])
  \/ Fraction(exact[a]) = Fraction(exact[b]) /\ a < b

(* order[place] of the sorted indices: place others come before it. *)
Place(i) == Cardinality({j \in DOMAIN weights : Before(j, i)})
Ordered(place) == CHOOSE i \in DOMAIN weights : Place(i) = place

-----------------------------------------------------------------------------
AllocateInit ==
  /\ amount \in Amounts
  /\ weights \in Weightings
  /\ exact = <<>> /\ result = <<>> /\ remainder = 0 /\ handed = 0

(* The floors of the exact parts, and what they leave over. *)
Split ==
  /\ result = <<>>
  /\ exact' = [i \in DOMAIN weights |-> Exact(weights[i])]
  /\ result' = [i \in DOMAIN weights |-> Floor(exact'[i])]
  /\ remainder' = amount - SumOver(result', DOMAIN weights)
  /\ UNCHANGED <<amount, weights, handed>>

(* Mutant of HandOut: the units go round in the order of the weights. *)
HandOutInOrder ==
  /\ remainder > 0
  /\ result' = [result EXCEPT ![1 + (handed % Len(weights))] = @ + 1]
  /\ remainder' = remainder - 1
  /\ handed' = handed + 1
  /\ UNCHANGED <<amount, weights, exact>>

(* One more unit, to the next index in the order. *)
HandOut ==
  /\ remainder > 0
  /\ result' = [result EXCEPT ![Ordered(handed % Len(weights))] = @ + 1]
  /\ remainder' = remainder - 1
  /\ handed' = handed + 1
  /\ UNCHANGED <<amount, weights, exact>>

AllocateNext == Split \/ HandOut

AllocateSpec == AllocateInit /\ [][AllocateNext]_allocateVars

-----------------------------------------------------------------------------
Done == result # <<>> /\ remainder <= 0

(* No product of an amount and a weight needs the last bit of a double, so *)
(* that rounding cannot swap two fractions: in the code, amounts below     *)
(* 2^52 / 10 000 minor units.                                              *)
Small == \A i \in DOMAIN weights : amount * weights[i] < TwoTo[Precision - 1]

(* The split of a small amount is the largest-remainder split that Money   *)
(* defines, and of two equal weights the first is rounded up first.        *)
LargestRemainder ==
  Done /\ Small => /\ result \in AllocateMoney(amount, weights)
                   /\ \A i, j \in DOMAIN weights :
                        i < j /\ weights[i] = weights[j] => result[i] >= result[j]

(* The parts sum to the amount when the amount itself leaves the last bit  *)
(* unused, though products and fractions are rounded.  It fails for larger *)
(* safe integers, where an exact part may be rounded up past a whole: the  *)
(* remainder is negative and the loop does not take it back.               *)
SumsToAmount ==
  Done /\ amount < TwoTo[Precision - 1] => SumOver(result, DOMAIN weights) = amount
=============================================================================

------------------------------- MODULE Money -------------------------------
(***************************************************************************)
(* The arithmetic of packages/domain/src/money.ts that the components use. *)
(* An amount is an integer number of minor units; every amount of a model  *)
(* has one currency, so the currency checks of the source never fire and   *)
(* are left out.                                                           *)
(***************************************************************************)
EXTENDS Integers, FiniteSets, FiniteSetsExt

(* The sum of the amounts f[x], x in S. *)
SumOver(f, S) == MapThenSumSet(LAMBDA x : f[x], S)

(* scaleMoney(m, num / den): Math.round, that is, half a unit goes up. *)
ScaleMoney(amount, num, den) == (2 * amount * num + den) \div (2 * den)

(***************************************************************************)
(* What allocateMoney(total, weights) may return for a total that is not   *)
(* negative, whatever the order of the weights: the largest-remainder      *)
(* split.  Every part is its exact share rounded down or up, the parts sum *)
(* to the total, and a part that was rounded up had a fraction at least as *)
(* large as one that was not.  With no weights it throws: no split.        *)
(* MoneyAllocation.tla models the loop that computes it and checks it      *)
(* against this definition.                                                *)
(***************************************************************************)
AllocateMoney(total, weights) ==
  LET W == DOMAIN weights
      whole == SumOver(weights, W)
      floor(i) == (total * weights[i]) \div whole
      fraction(i) == (total * weights[i]) % whole
  IN  {parts \in [W -> 0 .. total] :
         /\ W # {}
         /\ \A i \in W : parts[i] \in {floor(i), floor(i) + 1}
         /\ SumOver(parts, W) = total
         /\ \A i, j \in W : parts[i] > floor(i) /\ parts[j] = floor(j)
                              => fraction(i) >= fraction(j)}
=============================================================================

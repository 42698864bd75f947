------------------------- MODULE MCMoneyAllocation -------------------------
(* Values of the constants of MoneyAllocation for TLC. *)
EXTENDS MoneyAllocation

CONSTANT MaxWeight

(* Up to three weights; weights that sum to a power of ten in the code are *)
(* here any that are small, so that sums are mostly not powers of two.     *)
MCWeightings ==
  {w \in UNION {[1 .. n -> 0 .. MaxWeight] : n \in 1 .. 3} : SumOver(w, DOMAIN w) > 0}

(* Every safe integer. *)
MCAmounts == 0 .. Unsafe - 1
=============================================================================

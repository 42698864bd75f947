CONSTANTS
  Precision = 8
  MaxWeight = 7
  Amounts <- MCAmounts
  Weightings <- MCWeightings
SPECIFICATION AllocateSpec
INVARIANTS LargestRemainder SumsToAmount
\* allocateMoney returns: a behaviour ends with the split.
CHECK_DEADLOCK FALSE

CONSTANTS
  Transaction = {t1, t2}
  Request = {r1, r2}
  Orders <- MCOrders
  Full = 2
  Crashes = TRUE
  None = None
SPECIFICATION MemFairSpec
INVARIANTS Inv MemoryAgrees
PROPERTIES Concluded
\* The ids of transactions run out.
CHECK_DEADLOCK FALSE

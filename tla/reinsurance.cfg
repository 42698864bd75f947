CONSTANTS
  Organisation = {o1, o2}
  Program = {p1}
  Cession = {c1, c2, c3}
  Request = {r1, r2}
  Placements <- MCPlacements
  Losses = {3, 8}
  Full = 2
  Crashes = TRUE
  None = None
SPECIFICATION MCFairSpec
INVARIANTS Inv StateIsSumOfCessions MemoryAgrees
PROPERTIES CessionIsRecorded
\* The ids of cessions run out.
CHECK_DEADLOCK FALSE

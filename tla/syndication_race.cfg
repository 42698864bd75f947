CONSTANTS
  Listing = {l1}
  Provider = {p1, p2}
  Request = {r1, r2}
  RowId = {1, 2, 3}
  FullAllocation = 4
  Shares = {1, 3}
  Ceilings = {9}
  Exposures = {}
  Capacity <- MCCapacity
  Operations = {"propose", "withdraw", "bind", "withdrawListing"}
  Crashes = FALSE
  Owner = Owner
  None = None
SPECIFICATION MCFairSpec
INVARIANTS HistoryExplainsRows BoundIsExact BoundByConsent
PROPERTIES BoundFrozen BoundIsMatched
CHECK_DEADLOCK FALSE

CONSTANTS
  Listing = {l1}
  Holder = holder
  Late = late
  MCStatus = {"VERIFIED"}
  Provider <- MCProvider
  FullAllocation = 2
  Shares = {1, 2}
  Capacity <- MCCapacity
  None = None
  Claim = {c1, c2}
  Request = {r1}
  Losses = {2, 3, 4}
  AutoCeiling = 2
  Targets = {"EVIDENCE_COLLECTED", "VERIFIED", "COVERAGE_CONFIRMED"}
  Operations = {"report", "addEvidence", "advance", "calculateLoss", "decide", "settle", "syndication"}
  Crashes = {c1}
SPECIFICATION MCMemSpec
INVARIANTS ChecksHold MemoryAgrees
PROPERTIES AutoApprovalCovered ApprovedIsPaid
\* Claims come to an end: nothing more is asked of one that is settled.
CHECK_DEADLOCK FALSE

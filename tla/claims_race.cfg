CONSTANTS
  Listing = {l1}
  Holder = holder
  Late = late
  MCStatus = {"VERIFIED"}
  Provider <- MCProvider
  FullAllocation = 1
  Shares = {1}
  Capacity <- MCCapacity
  None = None
  Claim = {c1}
  Request = {r1, r2}
  Losses = {1, 2, 4}
  AutoCeiling = 1
  Targets = {"EVIDENCE_COLLECTED", "VERIFIED", "COVERAGE_CONFIRMED", "LOSS_CALCULATED", "AWAITING_APPROVAL", "APPROVED", "REJECTED"}
  Operations = {"report", "addEvidence", "advance", "calculateLoss", "decide", "settle", "syndication"}
  Crashes = {}
SPECIFICATION MCSpec
INVARIANTS PaidAfterTests HoldersPay LossIsCovered
PROPERTIES PaidOnce
SYMMETRY MCSymmetry
\* Claims come to an end: nothing more is asked of one that is settled.
CHECK_DEADLOCK FALSE

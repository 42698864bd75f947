CONSTANTS
  Listing = {l1}
  Provider = {p1}
  Request = {r1, r2}
  RowId = {i1, i2}
  FullAllocation = 4
  Shares = {2, 4}
  Ceilings = {6}
  Exposures = {3}
  Capacity <- MCCapacity
  Operations = {"open", "propose", "withdraw", "bind", "expressInterest",
    "withdrawInterest", "withdrawListing", "setAppetite", "setCommitment"}
  Crashes = TRUE
  Owner = Owner
  None = None
SYMMETRY MCSymmetry
SPECIFICATION Spec
INVARIANTS AuditTruthful
PROPERTIES KeepsPromise

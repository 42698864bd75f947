CONSTANTS
  Listing = {l1, l2}
  Provider = {p1, p2}
  Request = {r1}
  RowId = {i1, i2, i3}
  FullAllocation = 4
  Shares = {1, 3}
  Ceilings = {6, 9}
  Exposures = {3}
  Capacity <- MCCapacity
  Operations = {"propose", "withdraw", "bind", "expressInterest", "withdrawListing", "withdrawInterest", "setAppetite", "setCommitment"}
  Crashes = FALSE
  Late = p2
  LateListing = l2
  Owner = Owner
  None = None
SYMMETRY MCSymmetry
SPECIFICATION MCMemSpec
INVARIANTS ChecksHold MemoryAgrees
PROPERTIES CeilingHeld
CHECK_DEADLOCK FALSE

CONSTANTS
  s1 = s1
  risk1 = risk1
  Submission = {s1}
  Risk = {risk1}
  RiskOf <- MCRiskOf
  Inputs <- MCInputs
  Request = {r1, r2}
  MaxAssessments = 2
  MaxApprovals = 2
  MaxVersion = 2
  Crashes = TRUE
  None = None
SPECIFICATION MCSpec
INVARIANTS Inv AssessedPrudently
PROPERTIES ListedWhenClear
SYMMETRY MCSymmetry

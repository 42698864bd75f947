CONSTANTS
  e1 = e1
  e2 = e2
  a1 = a1
  a2 = a2
  a3 = a3
  x = x
  k = k
  v = v
  l = l
  cov = cov
  syn = syn
  cap = cap
  acme = acme
  other = other
  Organisation = {acme, other}
  Node <- MCNode
  TypeOf <- MCTypeOf
  OwnerOf <- MCOwnerOf
  Candidates <- MCCandidates
  AskedDepth = {0, 1, 2}
  Request = {r1, r2}
  None = None
SPECIFICATION MCSpec
INVARIANTS Inv QueriesAgree ScenariosAgree

CONSTANTS
  p = p
  q = q
  Bundle = {b1, b2}
  Participant = {p, q}
  Governance = {g}
  Relayer = {r1}
  Signer = {s1, s2}
  Funds = 3
  LockInputs <- MCLockInputs
  Payouts = {2, 4}
  Fees <- MCFees
  Denominator = 10000
  MaxSigned = 2
  MaxTime = 1
  Unset = Unset
SPECIFICATION VaultSpec
INVARIANTS VaultInv PaidOut
PROPERTIES EndsOnce

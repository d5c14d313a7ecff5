SPECIFICATION CreditSpec
CONSTANTS
  MaxUint = 3
  MaxAge = 1
  MaxEpoch = 2
  MaxLedgerVersion = 2
  MaxNow = 2
  Accounts = {owner}
  GateOwner = owner
  Commitments = {c1, c2}
  ProofIds = {p1, p2, p3}
  NoUse = nouse
  InitialLimit = 3
  PolicyLimits = {2}
  MaxPolicyVersion = 3
  MaxReservationVersion = 4
  Holders = {h}
  NoDecision = nodecision
SYMMETRY MCSymmetry
INVARIANTS VersionsPinDecision CreditAddsUp IInv
PROPERTIES SupersededIsFrozen KeepsCommitments
CHECK_DEADLOCK FALSE

SPECIFICATION ExposureSpec
CONSTANTS
  Sources = {a, b}
  Registered = {a, b}
  LoanIds = {x}
  Parties = {p}
  NoParties = none
  Principals = {1}
  SharedDebts = {}
  RelationTargets = {}
  MaxEpoch = 2
  Unset = unset
  EffectiveEpoch <- MCEffectiveEpoch
  MaxUint = 2
  MaxAge = 1
  MaxTxs = 4
  MaxTxLogs = 2
  MaxTime = 2
  MaxNow = 3
SYMMETRY MCSymmetry
INVARIANTS SealedNeverUnderstated SnapshotCoversSources
CHECK_DEADLOCK FALSE

SPECIFICATION FairSpec
CONSTANTS
  MaxUint = 2
  MaxBlock = 2
  MaxTxPerBlock = 2
  MaxLogs = 2
  InitialLimit = 2
  MaxPolicyVersion = 2
  NoDecision = NoDecision
  Quotes = {q1}
  PolicyLimits = {1, 2}
INVARIANTS
  NeverUnderstated
  AdmittedWhole
  VersionsPinDecision
  IInv
PROPERTIES
  CatchesUp
  MirrorsAPrefix
  CommitsCoverTrueDebt

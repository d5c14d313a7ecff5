SPECIFICATION FairSpec
CONSTANTS
  Sources = {"A", "B"}
  Registered = {"A", "B"}
  LoanIds = {"A", "B"}
  Parties = {signer}
  NoParties = none
  Principals = {20, 30}
  SharedDebts = {}
  RelationTargets = {}
  MaxEpoch = 2
  Unset = unset
  EffectiveEpoch <- ScenarioEpochs
  MaxUint = 60
  MaxAge = 1
  MaxTxs = 9
  MaxTxLogs = 1
  MaxTime = 9
  MaxNow = 9
  Accounts = {signer}
  GateOwner = signer
  Commitments = {"missing", "over-limit", "reservation", "competitor", "additional-one"}
  ProofIds = {}
  NoUse = nouse
  InitialLimit = 60
  PolicyLimits = {60}
  MaxPolicyVersion = 1
  MaxReservationVersion = 3
  MaxMishaps = 3
INVARIANTS CompleteRunPassesAudit
PROPERTIES RunCompletes
CHECK_DEADLOCK FALSE

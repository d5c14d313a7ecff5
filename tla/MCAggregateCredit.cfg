SPECIFICATION SystemSpec
CONSTANTS
  Sources = {a}
  Registered = {a}
  LoanIds = {x}
  Parties = {p}
  NoParties = none
  Principals = {1}
  SharedDebts = {}
  RelationTargets = {}
  Unset = unset
  EffectiveEpoch <- MCEffectiveEpoch
  MaxUint = 3
  MaxAge = 1
  MaxEpoch = 2
  MaxTxs = 3
  MaxTxLogs = 2
  MaxTime = 1
  MaxNow = 3
  Accounts = {owner}
  GateOwner = owner
  Commitments = {c1, c2}
  ProofIds = {p1, p2}
  NoUse = nouse
  InitialLimit = 3
  PolicyLimits = {2}
  MaxPolicyVersion = 3
  MaxReservationVersion = 2
  Holders = {h}
  MaxLedgerVersion = 6
  NoDecision = nodecision
INVARIANTS PageShowsEveryReport
PROPERTIES KeepsThePromise ReservationsCoverTrueDebt CreditOnFreshCoverage
CHECK_DEADLOCK FALSE

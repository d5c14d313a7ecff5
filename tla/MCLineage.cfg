SPECIFICATION FairExposureSpec
CONSTANTS
  Sources = {a, b}
  Registered = {a, b}
  LoanIds = {x}
  Parties = {p}
  NoParties = none
  Principals = {1, 2}
  SharedDebts = {shared}
  RelationTargets = {shared}
  MaxEpoch = 2
  Unset = unset
  EffectiveEpoch <- MCEffectiveEpoch
  MaxUint = 2
  MaxAge = 1
  MaxTxs = 3
  MaxTxLogs = 2
  MaxTime = 1
  MaxNow = 1
INVARIANTS CountsEachDebtOnce
PROPERTIES MirrorsEverySource EverySourceCatchesUp
CHECK_DEADLOCK FALSE

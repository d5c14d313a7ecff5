SPECIFICATION FairSpec
CONSTANTS
  NSteps = 3
  MaxNonce = 5
  MaxDrops = 2
  MaxForeign = 2
  Processes = {p, q, r}
  ConcurrentStarts = FALSE
  MaxMishaps = 3
  KilledWhileLocking = TRUE
INVARIANTS OneProcess AtMostOneTransaction IntentBeforeBroadcast StepsInOrder
PROPERTIES ConfirmedIsFinal RunCompletes

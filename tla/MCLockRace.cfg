SPECIFICATION Spec
CONSTANTS
  NSteps = 1
  MaxNonce = 1
  MaxDrops = 0
  MaxForeign = 0
  Processes = {p, q, r}
  ConcurrentStarts = TRUE
  MaxMishaps = 1
  KilledWhileLocking = FALSE
INVARIANTS OneProcess

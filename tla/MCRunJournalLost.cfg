SPECIFICATION Spec
CONSTANTS
  MaxSourceNonce = 3
  MaxDestNonce = 1
  MaxMishaps = 1
  NTerminals = 1
CHECK_DEADLOCK FALSE
INVARIANTS AtMostOneTransaction

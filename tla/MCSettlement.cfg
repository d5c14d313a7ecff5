SPECIFICATION FairSettlementSpec
CONSTANTS
  MaxUint = 1
  OriginationIds <- MCOriginationIds
  Borrowers = {b1, b2}
  NoObligation = noobligation
  Adapters = {d, z1, z2}
  NoAdapter = noadapter
  Vaults = {v1, v2}
  TransportIds = {t1, t2}
  NoTransport = notransport
  NoPayment = nopayment
  MaxSends = 2
  Direct = d
  DirectVault = v1
  OApps = {z1, z2}
  VaultOf <- MCVaultOf
  Digests = {g}
  Controller = controller
  Operator = operator
  Deployments <- MCDeployments
  v1 = v1
  v2 = v2
  z1 = z1
  z2 = z2
  c1 = c1
  c2 = c2
  l = l
INVARIANTS PaidAsOriginated
PROPERTIES PaysOnce RequestsFunded
CHECK_DEADLOCK FALSE

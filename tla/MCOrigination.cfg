SPECIFICATION OriginationSpec
CONSTANTS
  MaxUint = 2
  Commitments = {c1, c2}
  Institutions = {owner, i}
  ControllerOwner = owner
  SourceKeys = {s1, s2}
  Registered = {s1, s2}
  Loans = {l1, l2}
  Borrowers = {b}
  OriginationProofs = {p1, p2}
  NoOrigination = noorigination
  OriginationIds <- MCOriginationIds
  QuotaLimits = {1, 2}
  MaxQuotaVersion = 7
SYMMETRY MCSymmetry
INVARIANTS QuotasAddUp
PROPERTIES RecordsOnce
CHECK_DEADLOCK FALSE

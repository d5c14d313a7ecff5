SPECIFICATION FairSpec
CONSTANTS
  MaxSourceNonce = 4
  MaxDestNonce = 6
  MaxMishaps = 2
  NTerminals = 2
CHECK_DEADLOCK FALSE
INVARIANTS ManifestIsCoherent PlanIsAdmitted CompleteRunPassesAudit OneUnlessOverlooked
PROPERTIES EvidenceIsKept RunCompletes

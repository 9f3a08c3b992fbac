SPECIFICATION FairSpec
CONSTANTS
  Label <- MCLabel
  Length <- MCLength
  Fits <- MCFits
  Source = {"crt.sh", "Cert Spotter", "ctlogs.dev"}
  Entry <- MCEntry
  Logged = {1, 2, 3, 4, 5}
  Named <- MCNamed
  Own = {1, 2, 3, 4}
  Domain <- MCDomain
  Listings <- MCListings
  Estates <- MCEstates
  NoTarget = NoTarget
  Patterns <- MCPatterns
  Limit = 3
  Parallel = 2
  MaxEvidence = 2
  ReportUnknown = TRUE
INVARIANTS
  CoverageSaid
  TailDropped
  LeadsExact
PROPERTY Returns
CHECK_DEADLOCK FALSE

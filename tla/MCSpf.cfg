SPECIFICATION FairSpec
CONSTANTS
  Host <- MCHost
  Root = "acme.example"
  Publications <- MCPublications
  NoRecord = NoRecord
  SpfMaxLookups = 2
  Known = {"a.example"}
  Own = {"acme.example"}
  ReportUnknown = TRUE
INVARIANTS
  WalkBounded
  ReportExact
PROPERTY WalkEnds
CHECK_DEADLOCK FALSE

SPECIFICATION FairSpec
CONSTANTS
  NumSigs = 3
  SigConfidence <- MCSigConfidence
  Candidate = {"abh", "acmecorp"}
  Short = {"abh"}
  CandidateLists <- MCCandidateLists
  Address = {"t1", "t2", "w1"}
  Zones <- MCZones
  Parallel = 2
INVARIANTS
  NoPhantoms
  HighIsProof
  Accounted
PROPERTY Returns
CHECK_DEADLOCK FALSE

SPECIFICATION FairSpec
CONSTANTS
  Signatures <- MCSignatures
  Candidates <- MCCandidates
  Name <- MCName
  FirstLabel <- MCFirstLabel
  Letter <- MCLetter
  Upper <- MCUpper
  Lower <- MCLower
  Blank = " "
  Mark = "|"
  Connectors <- MCConnectors
  GenericTitleWords <- MCGenericTitleWords
  Brief <- MCBrief
  Titles <- MCTitles
  Odd = {"odd"}
  Misread <- MCMisread
  Short = {"abh"}
  Unparsable = {"acme%corp"}
  Status = {200, 403, 404}
  Sites <- MCSites
  BodyCap = 2
  Parallel = 2
  Slots = 1
INVARIANTS
  InFlight
  NoPhantoms
  Accounted
  HighIsProof
PROPERTY Returns
CHECK_DEADLOCK FALSE

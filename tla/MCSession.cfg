SPECIFICATION Spec
CONSTANTS
  Domain <- MCDomain
  Answer <- MCAnswer
  Answers <- MCAnswers
  Pages <- MCPages
  Occurs <- MCOccurs
  Failed = Failed
  Label <- MCLabel
  Length <- MCLength
  Fits <- MCFits
  Text <- MCText
  NoText = ""
  Lower <- MCLower
  All <- MCAll
  Name <- MCName
  NoDetectors = NoDetectors
  Commands <- MCCommands
  Packs <- MCPacks
  Embedded = "world"
  NoDirectory = NoDirectory
  Clean <- MCClean
  FormatOf <- MCFormatOf
INVARIANTS
  LoadExact
  FlagsDecide
  FoundIsShown
  LossTold
  PostureAccounted
  PostureBacked
PROPERTY Ends
CHECK_DEADLOCK FALSE

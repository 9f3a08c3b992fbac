SPECIFICATION FairSpec
CONSTANTS
  Caller = {p1, p2, p3}
  Question = {q1, q2}
  Records = {"all", "some", "none"}
  NumServers = 2
  Attempts = 2
  Concurrency = 1
  Replies <- MCReplies
  MaxLookups = 1
  NoCaller = NoCaller
  NoQuestion = NoQuestion
  NoAnswer = NoAnswer
INVARIANTS
  SlotsHeld
  NoRepeatedExchange
  Agreement
  CacheHoldsAnswers
  FailureIsExhaustive
  HitsCoverSaved
PROPERTIES
  ImplementsService
  EveryLookupReturns
CHECK_DEADLOCK FALSE

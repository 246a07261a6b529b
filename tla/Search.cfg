\* Two concurrent searches that share their breakers, every service may fail.
CONSTANTS
  s1 = s1
  s2 = s2
  Searches <- Two
  Queries <- MCQueries
  Modes = {"demo", "hybrid"}
  Limit = 2
  Keys = {TRUE}
  Replies <- MCReplies
  ProviderThreshold = 2
  MockThreshold = 2
SPECIFICATION FairSpec
INVARIANTS
  TypeOK
  RealAnswerWins
  AskedAtMostTwice
  MockIsDeclared
PROPERTIES
  ProbesReport
  SearchesEnd
CHECK_DEADLOCK TRUE

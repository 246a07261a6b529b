CONSTANTS
  r1 = r1
  r2 = r2
  w1 = w1
  w2 = w2
  s1 = s1
  p1 = p1
  Runs <- MCRuns
  Workers <- OneWorker
  Sessions <- MCSessions
  Prompts <- MCPrompts
  SessionOf <- SameSession
  PromptOf <- SamePrompt
  Engine = "orchestrator"
  MaxEvents = 1
  MaxFaults = 1
  MaxBoots = 2
SPECIFICATION FairSpec
INVARIANTS
  OwnAnswer
  SessionFollowsRun
PROPERTIES
  StreamCloses
  RunsEnd
CHECK_DEADLOCK FALSE

CONSTANTS
  r1 = r1
  r2 = r2
  w1 = w1
  w2 = w2
  s1 = s1
  p1 = p1
  Runs <- MCRuns
  Workers <- OneWorker
  Sessions <- MCSessions
  Prompts <- MCPrompts
  SessionOf <- SameSession
  PromptOf <- SamePrompt
  Engine = "mock"
  MaxEvents = 0
  MaxFaults = 0
  MaxBoots = 1
SPECIFICATION FairSpec
PROPERTY WaitsForResume
CHECK_DEADLOCK FALSE

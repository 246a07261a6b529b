CONSTANTS
  r1 = r1
  r2 = r2
  w1 = w1
  w2 = w2
  s1 = s1
  p1 = p1
  Runs <- MCRuns
  Workers <- TwoWorkers
  Sessions <- MCSessions
  Prompts <- MCPrompts
  SessionOf <- SameSession
  PromptOf <- SamePrompt
  Engine = "mock"
  MaxEvents = 0
  MaxFaults = 2
  MaxBoots = 2
SPECIFICATION Spec
SYMMETRY Symmetry
INVARIANTS
  TypeOK
  OneServer
  OutcomeAgrees
  WaitingIsResumable
  StreamedIsPersisted
PROPERTIES
  SettledIsFinal
  ImplementsLifecycle
CHECK_DEADLOCK FALSE

CONSTANTS
  e1 = e1
  e2 = e2
  a = a
  b = b
  c = c
  d = d
  search = search
  synth = synth
  Executions <- TwoExecutions
  Nodes <- TwoNodes
  Deps <- TwoDeps
  Priority <- TwoPriority
  IdOrder <- TwoIdOrder
  Skills <- TwoSkills
  Skill <- TwoSkill
  Rejected <- NoNodes
  Bypass <- TwoBypass
  MaxConcurrency = 2
  Retries = 0
  FailThreshold = 2
  HalfOpenMaxCalls = 1
SPECIFICATION Spec
SYMMETRY Alike
INVARIANTS
  Accounted
  BreakersSound
  CachedFitsInputs
  CircularVerdict

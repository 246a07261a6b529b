CONSTANTS
  e1 = e1
  e2 = e2
  a = a
  b = b
  c = c
  d = d
  search = search
  synth = synth
  Executions <- OneExecutions
  Nodes <- OneNodes
  Deps <- OneDeps
  Priority <- OnePriority
  IdOrder <- OneIdOrder
  Skills <- OneSkills
  Skill <- OneSkill
  Rejected <- OneRejected
  Bypass <- NoNodes
  MaxConcurrency = 2
  Retries = 1
  FailThreshold = 1
  HalfOpenMaxCalls = 1
SPECIFICATION FairSpec
INVARIANTS
  TypeOK
  NoSlotWasted
PROPERTIES
  ImplementsDag
  ExecutionsEnd
  HalfOpenIsLeft

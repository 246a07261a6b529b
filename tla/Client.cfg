\* Two tabs, two prompts per page of one of them, and a reload.
CONSTANTS
  t1 = t1
  t2 = t2
  Tabs <- TwoTabs
  MaxEvents = 2
  MaxTurns <- MCTurns
  MaxLoads <- MCLoads
SPECIFICATION Spec
INVARIANTS
  TypeOK
  EachTurnIsTold
  OnlyTheGapIsLost
CHECK_DEADLOCK FALSE

CONSTANTS
  t1 = t1
  t2 = t2
  t3 = t3
  w1 = w1
  w2 = w2
  Tasks <- MCTasks
  Handled <- MCHandled
  Workers <- MCWorkers
SPECIFICATION FairSpec
INVARIANTS
  TypeOK
  OnePlace
  MetricsAddUp
  StopDrains
  PillPerLoop
PROPERTIES
  QueuedIsServed

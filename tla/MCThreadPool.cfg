SPECIFICATION FairSpec
CONSTANTS
  Workers = {w1, w2}
  Clients = {c1, c2}
  t1 = t1
  t2 = t2
  t3 = t3
  Tasks <- MCTasks
  Size <- MCSize
  None = None
INVARIANTS FirstInFirstOut NothingStranded QueuedWorkIsNoticed MetricsAddUp
PROPERTIES ImplementsTaskPool CleanShutdown
CHECK_DEADLOCK FALSE

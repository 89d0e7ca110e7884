SPECIFICATION FairSpec
CONSTANTS
  Workers = {w1}
  Clients = {c1}
  t1 = t1
  t2 = t2
  t3 = t3
  Tasks <- MCTasks
  Size <- MCSize
  None = None
PROPERTIES MetricsArePrinted
CHECK_DEADLOCK FALSE

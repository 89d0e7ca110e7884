SPECIFICATION FairSpec
CONSTANTS
  Workers = {w1, w2}
  Callers = {w1, w2}
  Tasks <- MCTasks
  N = 4
  None = None

PROPERTIES AllLinesSaved
CHECK_DEADLOCK FALSE

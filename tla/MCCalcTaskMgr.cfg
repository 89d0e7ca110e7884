SPECIFICATION FairSpec
CONSTANTS
  Workers = {w1, w2}
  Callers = {w1, w2}
  Tasks <- MCTasks
  N = 4
  None = None
INVARIANTS FileInOrder SavedFromLiveMemory SubscribersOutliveCallers
PROPERTIES DisjointStrides ImplementsOrderedOutput AllLinesCalculated AwakeSaverFinishes
CHECK_DEADLOCK FALSE

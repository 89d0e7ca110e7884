SPECIFICATION FairSpec
CONSTANTS
  h1 = h1
  h2 = h2
  Threads = {t1, t2}
  Contexts <- MCContexts
  BulkSize = 2
  Chunks <- MCChunks
  MaxCalls <- MCMaxCalls
  None = None
INVARIANTS BulksByTheBook EveryBulkIsOutput
PROPERTIES CallsReturnOrJoin
CHECK_DEADLOCK FALSE

SPECIFICATION FairSpec
CONSTANTS
  h1 = h1
  h2 = h2
  Clients <- MCClients
  Scripts <- MCScripts
  Pieces = 1
  MaxRead = 4
  PoolSize = 2
  None = None
INVARIANTS AnswersByBatch OneWriteAtATime HandlerOutlivesBatches
PROPERTIES NoRowFreedInUse ServerDrains
CHECK_DEADLOCK FALSE

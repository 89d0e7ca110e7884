SPECIFICATION Spec
CONSTANTS
  h1 = h1
  h2 = h2
  Clients <- MCClients
  Scripts <- OneInsertEach
  Pieces = 2
  MaxRead = 4
  PoolSize = 2
  None = None
INVARIANTS OneAnswerPerCommand
CHECK_DEADLOCK FALSE

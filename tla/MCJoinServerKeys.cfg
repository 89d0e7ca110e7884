SPECIFICATION Spec
CONSTANTS
  h1 = h1
  h2 = h2
  Clients <- MCClients
  Scripts <- OneInsertEach
  Pieces = 1
  MaxRead = 4
  PoolSize = 2
  None = None
INVARIANTS KeysAreUnique
CHECK_DEADLOCK FALSE

SPECIFICATION FairSpec
CONSTANTS
  a = a
  b = b
  Clients <- MCClients
  MaxLines <- MCMaxLines
  BulkSize = 2
  None = None
INVARIANTS NothingDropped ClientOrder BlocksAreWhole EveryBulkIsOutput LastOneFlushes
PROPERTIES HandlersReturnOrJoin
CHECK_DEADLOCK FALSE

SPECIFICATION Spec
CONSTANTS
  a = a
  b = b
  Clients <- MCClients
  MaxLines <- MCMaxLines
  BulkSize = 2
  None = None
INVARIANTS NothingLeftBehind
CHECK_DEADLOCK FALSE

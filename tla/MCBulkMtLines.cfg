SPECIFICATION MtSpec
CONSTANTS
  BulkSize = 2
  MaxInput = 3
  None = None
INVARIANTS LinesAreWhole
CHECK_DEADLOCK FALSE

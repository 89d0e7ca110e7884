SPECIFICATION ExercisesSpec
CONSTANTS
  MaxRow = 2
  MaxColumn = 1
  CellValues = {1, 2}
  Lists = {1, 2}
  BlockNodes = 2
  MaxNodes = 3
  MaxBlocks = 3
  NodeValues = {1, 2}
  Words <- MCWords
  MaxWords = 4
  BlockSize = 2
  Contents <- MCContents
  Hashes <- MCHashes
  MaxFiles = 3
  IpLines <- MCIpLines
  MaxLines = 3
  Chars = {1, 2}
  MaxFile = 5
  MaxTasks = 3
  MaxRnum = 2
  Ids = {1, 2, 3}
  RowNames = {1, 2}
  OfferLines <- MCOfferLines
  QueryLines <- MCQueryLines
  Digits = 2
  MaxOffers = 3
  MaxClusters = 2
  BulkSize = 2
  MaxInput = 4
  None = None
INVARIANTS MatricesAgree ListsAreSound NicknamesByTheBook DuplicatesByTheBook FiltersByTheBook EveryLineMapped PrefixSizeByTheBook JoinsByTheBook OffersByTheBook BulksByTheBook MetricsAgree OutputComplete
CHECK_DEADLOCK FALSE

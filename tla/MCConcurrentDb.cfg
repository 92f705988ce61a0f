SPECIFICATION FairSpec
CONSTANTS
  Base = 2
  MaxDepth = 4
  MaxLength = 6
  Threads = {t1, t2}
  Keys <- MCKeys
  Size <- MCSize
  MaxFileSize = 2
  Depth <- MCDepth
  Concurrency = 2
  MaxPuts = 4
  MaxTorn = 1
  MayRepeat = FALSE
INVARIANTS
  RangesPartition
  LevelSorted
  CurrentLast
PROPERTIES
  StoreSpec
  CloseReturns
CHECK_DEADLOCK FALSE

SPECIFICATION Spec
CONSTANTS
  Base = 2
  MaxDepth = 4
  MaxLength = 5
  Threads = {t1, t2}
  Keys <- MCKeys
  Size <- MCSize
  MaxFileSize = 2
  Depth <- MCDepth
  Concurrency = 2
  MaxPuts = 4
  MaxTorn = 1
  MayRepeat = TRUE
INVARIANT TablesSorted
CHECK_DEADLOCK FALSE

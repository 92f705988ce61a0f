SPECIFICATION FairSpec
CONSTANTS
  pig = pig
  knot = knot
  cow = cow
  horse = horse
  ghast = ghast
  A = A
  B = B
  N = N
  Regions <- MCRegions
  ChunksOf <- MCChunksOf
  Full <- MCFull
  Entities <- MCEntities
  Attached = {horse}
  From <- MCFrom
  Home <- MCHome
  Concurrency = 2
  MaxFaults = 2
  MaxMissing = 2
INVARIANTS
  OkMeansWhole
  NothingDangles
  CancelAnswered
PROPERTIES
  RunReturns

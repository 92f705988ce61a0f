SPECIFICATION FairSpec
CONSTANTS
  Concurrency = 4
  Regions <- MCRegions
  Weight <- MCWeight
INVARIANTS
  SourcesWhole
  ReleasesValid
  FilesComplete
  ResultExact
  DirOutlivesThreads
PROPERTIES
  DispatcherSpec
  RunReturns

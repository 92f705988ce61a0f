SPECIFICATION FairSpec
CONSTANTS
  N = 4
  Concurrency = 3
INVARIANTS
  EachWorkOnce
  ResultsAccounted
PROPERTIES
  ContractSpec
  CallReturns

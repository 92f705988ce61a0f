SPECIFICATION FairSpec
CONSTANTS
  w1 = w1
  w2 = w2
  w3 = w3
  Owner = Owner
  Regions <- MCRegions
  Workers <- MCWorkers
  Weight <- MCWeight
INVARIANTS
  ActiveExact
  NothingLost
  FinishVerdict
PROPERTIES
  NoWorkAfterError
  FinishReturns
  DestructorReturns

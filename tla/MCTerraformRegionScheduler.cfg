SPECIFICATION SchedulerSpec
CONSTANTS
  Regions <- MCRegions
  Strangers <- MCStrangers
INVARIANTS
  CountersExact
PROPERTIES
  RefusalChangesNothing
  FrontierSpec

SPECIFICATION FairSpec
CONSTANTS
  west = west
  east = east
  rim = rim
  Width = 4
  Height = 1
  Concurrency = 2
  Inner = {west, east}
  RegionOf <- MCRegionOf
  Outer = {rim}
  MaxFaults = 2
INVARIANTS
  NeighboursWhole
  WorldExact
PROPERTIES
  ConvertReturns

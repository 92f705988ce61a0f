SPECIFICATION Spec
CONSTANTS
  camel = camel
  boat = boat
  cow = cow
  knot = knot
  p = p
  q = q
  north = north
  south = south
  n1 = n1
  n2 = n2
  s1 = s1
  Entities = {camel, boat, cow, knot}
  Knots = {knot}
  Players = {p, q}
  Regions = {north, south}
  ChunksOf <- MCChunksOf
  Outside = outside
  None = none
  Worlds <- MCWorldsHere
INVARIANTS
  LeashesTied

SPECIFICATION Spec
CONSTANTS
  Jobs = {j1, j2, j3, j4}
  PRIORITY_ORDER <- MCOrder
  Low = "low"
  weights <- MCWeights
  Scale = 300
  maxSize = 1
  MaxOpen = 2
  MaxFaults = 2
SYMMETRY Symmetry
INVARIANTS
  BoundedLag
  RedisAgrees
  OvershootBounded
  ClosedIsKnown
CHECK_DEADLOCK FALSE

SPECIFICATION FairSpec
CONSTANTS
  Jobs = {j1, j2, j3}
  PRIORITY_ORDER <- TwoClasses
  Low = "low"
  weights <- TwoWeights
  Scale = 300
  maxSize = 1
  MaxOpen = 1
  MaxFaults = 0
PROPERTIES
  ResumesAutomatically
CHECK_DEADLOCK FALSE

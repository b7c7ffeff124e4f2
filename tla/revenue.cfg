SPECIFICATION RevenueSpec
CONSTANTS
  Subs = {s1, s2}
  Rules <- MCRules
  Totals = {2, 7}
  Times = {0, 2}
  Lengths = {1, 5}
  Periods = {2, 4}
  Horizon = 7
INVARIANTS
  SplitConserves
  CloseToStraightLine
  AnalyticsExact
PROPERTIES
  RecognitionMonotone
CHECK_DEADLOCK FALSE

SPECIFICATION FairSpec
CONSTANTS
  v1 = v1
  v2 = v2
  v2b = v2b
  bad = bad
  Impls = {v1, v2, v2b, bad}
  NoImpl = none
  FirstImpl = v1
  VersionOf <- MCVersionOf
  BadImpls = {bad}
  UpgradeDelay = 2
  RollbackDelay = 1
  ExtraDelays = {0, 1}
  TTL = 3
  DirectTargets = {v1}
  MaxHistory = 5
  MaxSubs = 1
INVARIANTS
  RollForwardPossible
  VersionCovers
  IndexCompleteUnlessRolledBack
PROPERTIES
  TimelockEnforced
  ScheduleSlotFreed
CHECK_DEADLOCK FALSE

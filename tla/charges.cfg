SPECIFICATION Spec
CONSTANTS
  Jobs = {j1, j2, j3}
  Subscriptions = {s1, s2}
  NoSubscription = none
  retryAttempts = 2
  failureThreshold = 2
  successThreshold = 2
PROPERTIES
  ImplementsExclusiveUse
  ChargeEnds
  TransitionsEarned

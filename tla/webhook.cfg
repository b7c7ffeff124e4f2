SPECIFICATION Spec
CONSTANTS
  Webhooks = {w1}
  Deliveries = {1, 2}
  Keys = {k1}
  NoKey = NoKey
  Worker = Worker
  maxRetries = 1
  MaxCalls = 1
INVARIANTS
  SkippedOnlyIfAccepted
  DeadLettersMatch
PROPERTIES
  Settles
CHECK_DEADLOCK FALSE

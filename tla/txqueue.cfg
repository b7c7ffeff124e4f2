SPECIFICATION Spec
CONSTANTS
  Txs <- MCTxs
  conflictKey <- MCConflictKey
  MAX_ATTEMPTS = 2
  MaxRequests = 2
  MaxRestarts = 1
INVARIANTS
  SentOnceUnlessUncertain
  ProcessingIsInHand
PROPERTIES
  Drains
CHECK_DEADLOCK FALSE

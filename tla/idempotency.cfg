SPECIFICATION Spec
CONSTANTS
  Requests = {r1, r2, r3, r4}
  NoRequest = none
  Keys = {k1, k2}
  Payloads = {p1, p2, p3}
  Alike = {p1, p2}
  Hashes = {0, 1}
  hashRequest <- Hash
  MAX_KEYS = 2
  EvictCount = 1
  WINDOW = 0
  MaxTime = 1
SYMMETRY Symmetry
INVARIANTS
  PendingIsRunning
  SingleFlight
  AtMostOnce
  ReplayFaithful
CHECK_DEADLOCK FALSE

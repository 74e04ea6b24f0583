SPECIFICATION Spec
CONSTANTS
  j1 = j1
  j2 = j2
  w1 = w1
  w2 = w2
  o1 = o1
  o2 = o2
  Ids = {j2}
  Settings <- MCSettings
  Workers = {w1, w2}
  Operators = {o1, o2}
  Unroutable = {}
  Middleware = {"release", "fail"}
  Waits = {0}
  Lease = 1
  Concurrency = 1
  MaxTries = 1
  MaxClock = 3
  FaultHorizon = 3
  MaxIncidents = 2
INVARIANTS TypeOK HeldUnderLease NoOverlap NoLostJob RecordedAfterParked
PROPERTIES AttemptsOnlyGrowWhileHeld ImplementsLifecycle
SYMMETRY MCSymmetry
CHECK_DEADLOCK FALSE

SPECIFICATION FairSpec
CONSTANTS
  j1 = j1
  j2 = j2
  w1 = w1
  w2 = w2
  o1 = o1
  o2 = o2
  Ids = {j1, j2}
  Settings <- MCSettings
  Workers = {w1}
  Operators = {}
  Unroutable = {j2}
  Middleware = {"release", "fail"}
  Waits = {0, 1}
  Lease = 1
  Concurrency = 2
  MaxTries = 2
  MaxClock = 4
  FaultHorizon = 3
  MaxIncidents = 2
PROPERTY EventuallySettled
CHECK_DEADLOCK FALSE

SPECIFICATION FairSpec
CONSTANTS
  j1 = j1
  w1 = w1
  w2 = w2
  o1 = o1
  o2 = o2
  Ids = {j1}
  Workers = {w1, w2}
  Operators = {}
  Commands = {"retry", "rebuild", "clear"}
  Waits = {0}
  Lease = 1
  Concurrency = 1
  MaxTries = 2
  MaxClock = 4
  FaultHorizon = 3
  MaxIncidents = 2
PROPERTY EventuallySettled
CHECK_DEADLOCK FALSE

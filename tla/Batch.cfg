SPECIFICATION FairSpec
CONSTANTS
  a = a
  b = b
  d = d
  w1 = w1
  w2 = w2
  request = request
  Jobs = {a, b, d}
  Links <- MCLinks
  Setups <- MCSetups
  Workers = {w1, w2}
  Request = request
  MaxTries = 2
  MaxCopies = 2
  MaxIncidents = 1
INVARIANTS CountersExact FinishedMeansSucceeded CallbacksOnce LinkAfterBatch
PROPERTY BatchCloses
CHECK_DEADLOCK FALSE

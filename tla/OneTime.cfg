SPECIFICATION Spec
CONSTANTS
    c1 = c1
    c2 = c2
    c3 = c3
    i1 = i1
    Consumers = {c1, c2, c3}
    Issuers = {i1}
    Ttl = 2
    Cooldown = 1
    MaxAttempts = 2
    MaxFailures = 1
    FailureWindow = 2
    MaxIssues = 2
    MaxCalls = 3
    MaxErrors = 1
INVARIANTS
    SpentOnce
    AttemptsLimited
    FailuresLimited
SYMMETRY MCSymmetry
CHECK_DEADLOCK FALSE

SPECIFICATION FairSpec
CONSTANTS
    d1 = d1
    w1 = w1
    w2 = w2
    o1 = o1
    None = None
    Deliveries = {d1}
    Workers = {w1, w2}
    Operators = {o1}
    MaxAttempts = 2
    DisableAfter = 1
    Lease = 1
    Waits = {0, 1}
    MaxCommands = 2
    MaxIncidents = 1
    Copies = 3
INVARIANTS
    TypeOK
    SettledOnce
    OneSender
    OpenHasJob
PROPERTY
    EventuallySettled
CHECK_DEADLOCK FALSE

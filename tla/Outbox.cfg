SPECIFICATION FairSpec
CONSTANTS
    s1 = s1
    r1 = r1
    r2 = r2
    Services <- MCServices
    Replicas <- MCReplicas
    N = 2
    Listeners <- MCListeners
    Setups <- MCSetups
    MaxAttempts = 2
    LockTtl = 1
INVARIANTS
    TypeOK
    PublishedMeansReceived
    OldestFirst
    NoDuplicate
    
PROPERTY
    EventuallySettled
CHECK_DEADLOCK FALSE

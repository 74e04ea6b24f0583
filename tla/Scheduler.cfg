SPECIFICATION FairSpec
CONSTANTS
    r1 = r1
    r2 = r2
    op = op
    Replicas <- MCReplicas
    Operators <- MCOperators
    Setups <- MCSetups
    Day = 3
    MutexTtl = 2
    ClaimTtl = 2
INVARIANTS
    OncePerWindow
    NoOverlap
PROPERTY
    KeepsRunning

SPECIFICATION Spec
CONSTANTS
    c1 = c1
    c2 = c2
    c3 = c3
    t1 = t1
    t2 = t2
    t3 = t3
    t4 = t4
    Clients <- MCClients
    Tokens <- MCTokens
    Drivers <- AllDrivers
    Ttl = 2
SYMMETRY MCSymmetry
INVARIANTS
    TypeOK
    HolderKeepsLock
PROPERTY
    ImplementsLock

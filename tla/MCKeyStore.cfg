SPECIFICATION FairSpec
CONSTANTS
    g1 = g1
    g2 = g2
    h1 = h1
    h2 = h2
    NoRec = NoRec
    Keys = {k1, k2, k3}
    Gateways = {g1, g2}
    Handlers = {h1, h2}
    Home <- Apart
    Uses <- Both
    MaxWrites = 3
    MaxFaults = 1
CHECK_DEADLOCK FALSE
INVARIANTS
    TypeOK
    NoLockout
    SeenAtHome
    DeletedAloneStaysDeleted
PROPERTY
    CachesConverge

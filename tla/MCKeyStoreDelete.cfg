SPECIFICATION Spec
CONSTANTS
    g1 = g1
    g2 = g2
    h1 = h1
    h2 = h2
    NoRec = NoRec
    Keys = {k1, k2}
    Gateways = {g1, g2}
    Handlers = {h1, h2}
    Home <- Apart
    Uses <- DeletingOnly
    MaxWrites = 1
    MaxFaults = 0
INVARIANT
    DeletedStaysDeleted

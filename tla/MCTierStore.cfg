SPECIFICATION Spec
CONSTANTS
    t1 = t1
    k1 = k1
    g1 = g1
    g2 = g2
    h1 = h1
    h2 = h2
    v1 = v1
    v2 = v2
    Default = Default
    None = None
    Tiers = {t1}
    Keys = {k1}
    TierOf <- MCTierOf
    Versions = {v1, v2}
    Gateways = {g1, g2}
    Handlers = {h1, h2}
    Home <- MCHome
    TTL = 1
    Lag = 0
    MaxWrites = 1
    MaxFaults = 1
SYMMETRY Symmetry
INVARIANTS
    TypeOK
    ChangesTakeHold
    TierCachesHear

SPECIFICATION FairSpec
CONSTANTS
    g1 = g1
    h1 = h1
    h2 = h2
    p1 = p1
    NoRoute = NoRoute
    Prefixes = {p1, p2}
    Known = {p1}
    Versions = {1, 2}
    Gateways = {g1}
    Handlers = {h1, h2}
    Home <- AllInOne
    MaxWrites = 2
    MaxFaults = 2
CHECK_DEADLOCK FALSE
INVARIANTS
    TypeOK
    RoutesStay
PROPERTY
    TablesConverge

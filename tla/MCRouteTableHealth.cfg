SPECIFICATION Spec
CONSTANTS
    g1 = g1
    h1 = h1
    h2 = h2
    p1 = p1
    NoRoute = NoRoute
    Prefixes = {p1}
    Known = {p1}
    Versions = {1, 2}
    Gateways = {g1}
    Handlers = {h1, h2}
    Home <- AllInOne
    MaxWrites = 0
    MaxFaults = 2
CHECK_DEADLOCK FALSE
INVARIANT
    HealthCheckRuns

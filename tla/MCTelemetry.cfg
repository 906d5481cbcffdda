SPECIFICATION FairTelemetry
CONSTANTS
    g1 = g1
    g2 = g2
    e1 = e1
    e2 = e2
    e3 = e3
    e4 = e4
    a1 = a1
    Gateways = {g1, g2}
    Events = {e1, e2, e3, e4}
    Audits = {a1}
    Home <- Homes
    MaxQueue = 2
    MaxFailures = 1
CHECK_DEADLOCK FALSE
INVARIANTS
    TelemetryTypeOK
    EventsSettled
    UsageCounts
    AuditKept
PROPERTIES
    ShutdownEnds

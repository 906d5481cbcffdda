SPECIFICATION FairSpec
CONSTANTS
    Callers = {c1, c2}
    Threshold = 2
    Window = 1
    OpenDuration = 2
    Slack = 1
    MaxRetries = 2
    MaxAbandons = 1
INVARIANTS
    TypeOK
    TripsWhenDue
PROPERTIES
    OpenKeepsCallersOut
    TripsOnlyWhenDue
    RecoversWhenUp

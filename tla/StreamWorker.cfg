SPECIFICATION FairSpec
CONSTANTS
    Total = 2
    Anomalies = {1}
    Webhooks = {1, 2}
    Workers = {x1, x2}
    Count = 2
    Attempts = 2
    MaxCrashes = 1
    MaxFaults = 1
INVARIANTS
    TypeOK
    HandledOnce
PROPERTIES
    DeliversAtLeastOnce
    EveryEntryEnds

SPECIFICATION FairSpec
CONSTANTS
    Total = 1
    Anomalies = {1}
    Webhooks = {1}
    Workers = {x1, x2}
    Count = 1
    Attempts = 1
    MaxCrashes = 1
    MaxFaults = 0
PROPERTY
    FailsOver

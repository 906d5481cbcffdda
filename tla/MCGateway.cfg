SPECIFICATION FairSpec
CONSTANTS
    r1 = r1
    r2 = r2
    k1 = k1
    NoKey = NoKey
    Requests = {r1, r2}
    Anonymous = {}
    Limit <- OneEach
    MaxLimit = 1
    IdemKey <- SameKey
    MaxMonth = 1
    MaxForgiven = 1
    MaxRetries = 2
INVARIANTS
    TypeOK
    LedgerAgrees
    OveruseIsForgiven
    QuotaHeld
    RepeatIsNotForwarded
PROPERTIES
    StreamSentOnce
    EveryRequestEnds

SPECIFICATION Spec
CONSTANTS
    Token = 7
    Capacity = 14
    Rate = 1
    Second = 3
    Slack = 0
    MaxTime = 23
INVARIANTS
    TypeOK
    WindowBound
    WaitIsEnough
PROPERTIES
    RefusesOnlyWhenDue

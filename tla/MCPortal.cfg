SPECIFICATION Spec
CONSTANTS
    u1 = u1
    u2 = u2
    k1 = k1
    k2 = k2
    k3 = k3
    k4 = k4
    k5 = k5
    k6 = k6
    NoKey = NoKey
    Nobody = Nobody
    Keys = {k1, k2, k3, k4, k5, k6}
    Users = {u1, u2}
    First <- OneEach
    Calls = {c1, c2}
    MaxClicks = 4
    MaxFaults = 2
SYMMETRY Spares
CHECK_DEADLOCK FALSE
INVARIANTS
    TypeOK
    FieldWorks
    CustomerHasKey
    OneKeyAtRest

SPECIFICATION ThreadSpec
CONSTANTS
    Parts = {"readd"}
    d1 = d1
    d2 = d2
    Worker = Worker
    Nobody = Nobody
    Requests = {"r1"}
    Convs = {"c1", "c2"}
    Users = {"u1", "u2"}
    Asked <- BothAsk
    From <- EachAt
    Capacity = 1
    Expiring = {"r1"}
    Snapshot = TRUE
    MaxCrashes = 0
    MaxGaps = 0
    MaxMoves = 0
PROPERTY
    ReaddedBaselineFirst
CHECK_DEADLOCK FALSE

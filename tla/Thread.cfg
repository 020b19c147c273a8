SPECIFICATION ThreadSpec
CONSTANTS
    Parts = {"turn", "evidence", "turns", "zen", "baseline", "joined", "recovery", "removal",
             "actions", "foreground", "races", "restart", "moves", "gaps"}
    d1 = d1
    d2 = d2
    Worker = Worker
    Nobody = Nobody
    Requests = {"r1"}
    Convs = {"c1", "c2"}
    Users = {"u1", "u2"}
    Asked <- BothAsk
    From <- EachAt
    Capacity = 1
    Expiring = {"r1"}
    Snapshot = TRUE
    MaxCrashes = 0
    MaxGaps = 0
    MaxMoves = 0
SYMMETRY Symmetry
INVARIANTS
    TurnOrder
    QueueEvidence
    NoLostWakeup
    ProjectedInOrder
    
PROPERTY
    NothingIsUndone
CHECK_DEADLOCK FALSE

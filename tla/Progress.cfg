SPECIFICATION FairSpec
CONSTANTS
    Parts = {"inbound", "effect", "turn", "gap", "request", "zen", "t3", "telegram", "qq", "feishu"}
    Count = 3
    Denied = {2}
    AdmittedLimit = 1
    MaxFaults = 1
    QueueLimit = 1
    MaxSessions = 2
    MaxRestarts = 1
    MaxDrops = 1
INVARIANT
    SessionIsKept
PROPERTIES
    EveryCallEnds
    NothingIsLeft
CHECK_DEADLOCK FALSE

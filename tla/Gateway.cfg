SPECIFICATION GatewaySpec
CONSTANTS
    Parts = {"native", "profile", "content", "binding", "workflow", "lifecycle", "feishu"}
    t1 = t1
    t2 = t2
    Count = 4
    Denied = {2}
    AdmittedLimit = 1
    MaxFaults = 1
    QueueLimit = 2
    MaxRestarts = 1
    MaxDrops = 1
SYMMETRY Twins
INVARIANTS
    SentAsChecked
    AnswersAreOwn
    TeardownIsOrderly
    InboundIsAccounted
CHECK_DEADLOCK FALSE

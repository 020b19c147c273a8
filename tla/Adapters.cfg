SPECIFICATION AdaptersSpec
CONSTANTS
    Count = 3
    Denied = {2}
    AdmittedLimit = 1
    MaxFaults = 2
    Provider = "telegram"
    BatchLimit = 2
    MaxRestarts = 2
    Parts = {"telegram", "weixin", "quota", "orphans", "message", "input", "resume", "close",
             "created", "touched", "recreated", "queueing", "stream", "races", "cache", "shapes",
             "polling", "activities", "capacity", "replay"}
INVARIANTS
    ConfirmedIsHandled
    SpoolIsBounded
    ClientIsHonest
    RequestsAnsweredOnce
    T3KeepsItems
CHECK_DEADLOCK FALSE

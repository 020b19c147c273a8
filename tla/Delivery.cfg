SPECIFICATION DeliverySpec
CONSTANTS
    Parts = {"plan", "coord", "busy", "external", "internal", "ingress", "tracked", "observed",
             "qq", "telegram", "weixin", "feishu", "split"}
    Letter = Letter
    Wide = Wide
    Space = Space
    Newline = Newline
    Mark = Mark
    NoLimit = NoLimit
    h1 = h1
    h2 = h2
    h3 = h3
    h4 = h4
    Calls = {"x1", "x2", "x3", "d1", "i1", "i2", "i3"}
    IdOf <- CallIds
    OriginOf <- Origins
    PrincipalOf <- Principals
    PayloadOf <- Payloads
    TargetOf <- Targets
    Thread = "thread"
    Dests = {"a", "b"}
    ViaIngress <- Handled
    Refused = {"refused"}
    MaxKeys = 1
    MaxRecords = 2
    MaxMoves = 1
    MaxCrashes = 2
    MaxFailures = 1
    MaxCancels = 1
SYMMETRY HookSymmetry
INVARIANTS
    PlanIsFaithful
    CoordinatorIsHonest
    DeliveredAtMostOnce
    HooksAreBounded
    NativeReceiptsAreTrue
    SplitIsFaithful
CHECK_DEADLOCK FALSE

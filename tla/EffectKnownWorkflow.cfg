SPECIFICATION MCSpec
CONSTANTS
    Parts = {"workflow"}
    a1 = a1
    a2 = a2
    a3 = a3
    c1 = c1
    t1 = t1
    Keys = {a1, a2, a3}
    Conversations = {c1}
    Threads = {t1}
    Deletable = {}
    NoThread = NoThread
    Unbound = Unbound
    MaxEpoch = 2
    MaxReceipts = 2
    Calls = {k1, k2, k3}
    Reconcilable = {a1}
    Faults = {"error"}
    Requests <- WorkflowRequests
SYMMETRY CallSymmetry
CHECK_DEADLOCK FALSE
INVARIANT NoInternalError

SPECIFICATION MCSpec
CONSTANTS
    Parts = {"native"}
    a1 = a1
    a2 = a2
    a3 = a3
    c1 = c1
    t1 = t1
    Keys = {a1}
    Conversations = {c1}
    Threads = {}
    Deletable = {}
    NoThread = NoThread
    Unbound = Unbound
    MaxEpoch = 2
    MaxReceipts = 1
    Calls = {k1, k2}
    Reconcilable = {a1}
    Faults = {}
    Requests <- NativeRequests
SYMMETRY CallSymmetry
CHECK_DEADLOCK FALSE
PROPERTY FenceErrorNeverHidesTheFence

SPECIFICATION Spec
CONSTANTS
    Parts = {"lease", "claims", "routes", "rows", "correlations", "sends", "mutations", "effects", "workflows"}
    None = None
INVARIANTS
    BackendsAgree
    StoreIsConsistent
PROPERTIES
    HistoryIsKept
CHECK_DEADLOCK FALSE

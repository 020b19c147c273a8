SPECIFICATION FairSpec
CONSTANTS
    Parts = {"lifecycle", "client", "request", "recovery", "queue"}
PROPERTIES
    CloseAndCallsReturn
    SidesConverge
CHECK_DEADLOCK FALSE

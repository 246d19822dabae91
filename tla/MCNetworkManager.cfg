SPECIFICATION Spec
CONSTANTS
    Names <- MCNames
    Ports = {"p", "q"}
    Plans <- MCPlans
    MaxQueue = 1
    Faults = 2
INVARIANTS TypeOK NothingStrays AppliedOrVisible ReconcileHeals ShutdownReleases
CHECK_DEADLOCK FALSE

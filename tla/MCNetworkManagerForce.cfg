SPECIFICATION Spec
CONSTANTS
    Names <- MCNames
    Ports = {"p", "q"}
    Plans <- MCPlans
    MaxQueue = 1
    Faults = 0
INVARIANT ForcedStaysReleased
CHECK_DEADLOCK FALSE

SPECIFICATION Spec
CONSTANTS
    Uins = {u1, u2}
    NoUin = NoUin
    MaxQueue = 2
    MaxCmds = 1
    MaxReqs = 1
    Kinds = {"heartbeat", "receipt", "other"}
INVARIANT HealthOnlyWhenBound
CHECK_DEADLOCK FALSE

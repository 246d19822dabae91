SPECIFICATION Spec
CONSTANTS
    Uins = {u1, u2}
    NoUin = NoUin
    MaxQueue = 2
    MaxCmds = 1
    MaxReqs = 1
    Kinds = {"heartbeat", "receipt", "other"}
INVARIANT ShownHealthAgrees
CHECK_DEADLOCK FALSE

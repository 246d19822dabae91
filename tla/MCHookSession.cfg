SPECIFICATION Spec
CONSTANTS
    Uins = {u1, u2}
    NoUin = NoUin
    MaxQueue = 2
    MaxCmds = 1
    MaxReqs = 1
    Kinds = {"heartbeat", "receipt", "other"}
INVARIANTS TypeOK HeldWhileLoggedIn LoginIsBacked DeadlineEndsOnConnect ReconcileWhileAwaitingLogin OnePipeUp StaleOnlyWhenArmed
PROPERTY ContractKept
CHECK_DEADLOCK FALSE

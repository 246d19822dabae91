SPECIFICATION Spec
CONSTANTS
    Uins = {u1}
    NoUin = NoUin
    MaxQueue = 2
    MaxCmds = 2
    MaxReqs = 0
    Kinds = {}
PROPERTIES CommandsRun KeepsConnecting
CHECK_DEADLOCK FALSE

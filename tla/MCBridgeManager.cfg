SPECIFICATION Spec
CONSTANTS
    Pids = {p1, p2}
    Uins = {u1, u2}
    NoUin = NoUin
    Bridges = {b1, b2, b3}
    NoBridge = NoBridge
INVARIANTS PidOwnership NoInvariantThrown BridgesAreAttached MappedWhileLoggedIn ExclusiveDatabase
PROPERTY GateOpens

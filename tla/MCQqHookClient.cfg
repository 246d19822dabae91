SPECIFICATION FairSpec
CONSTANTS
    Calls = {r1, r2, r3}
    IdMod = 3
    MaxConns = 2
INVARIANTS OwnAnswer TablesMatchCalls
PROPERTY CallsSettle
CHECK_DEADLOCK FALSE

CONSTANTS
    GroupIds <- MCGroupIds
    PrivateIds <- MCPrivateIds
    Workers = 2
    BatchSize = 2
    MediaRows = 1
    Faults = 2
    Writes = 1
SPECIFICATION FairSpec
CHECK_DEADLOCK FALSE
INVARIANT TypeOK CompleteMeansDone ClassifiedByContent UsableMeansPrepared
PROPERTY MigrationCompletes

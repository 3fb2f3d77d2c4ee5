\* Two calls, two files and three environments, one failure.
\* A pod ends, so the system may stop.
CONSTANTS
    Files <- MCFiles
    Envs <- MCEnvs
    Calls = {c1, c2}
    Headers <- MCHeaders
    Tables <- MCTables
    MaxTrouble = 1
SPECIFICATION FairSpec
CHECK_DEADLOCK FALSE
INVARIANTS
    WiredAsConfigured
    SchemaReady
    HandledAuthorised
PROPERTIES
    Starts
    UploadRecorded

SPECIFICATION FairSpec
CONSTANTS
    Requests = 4
    TestTime = FALSE
    ConfigFile = FALSE
    ReconnectInterval = 3
    Pipeline = 1
    Authenticate = TRUE
    SelectDb = TRUE
    Paced = TRUE
    MemcacheText = FALSE
    UninitValues <- Zeroed
    Faults <- Refusals
    MaxGenerated = 6
CHECK_DEADLOCK FALSE
INVARIANTS
    NoAssertFails
    SetupFirst
PROPERTIES
    Completes

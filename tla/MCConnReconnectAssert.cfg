SPECIFICATION Spec
CONSTANTS
    Requests = 5
    TestTime = FALSE
    ConfigFile = FALSE
    ReconnectInterval = 3
    Pipeline = 2
    Authenticate = FALSE
    SelectDb = FALSE
    Paced = FALSE
    MemcacheText = FALSE
    UninitValues <- Zeroed
    Faults <- NoFaults
    MaxGenerated = 6
CHECK_DEADLOCK FALSE
INVARIANTS
    NoAssertFails

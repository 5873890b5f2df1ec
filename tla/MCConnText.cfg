SPECIFICATION FairSpec
CONSTANTS
    Requests = 0
    TestTime = TRUE
    ConfigFile = FALSE
    ReconnectInterval = 0
    Pipeline = 2
    Authenticate = FALSE
    SelectDb = FALSE
    Paced = TRUE
    MemcacheText = TRUE
    UninitValues <- Zeroed
    Faults <- TextFaults
    MaxGenerated = 5
CHECK_DEADLOCK FALSE
PROPERTIES
    NothingAfterEnd
    EndsOrStarves

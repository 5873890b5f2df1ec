SPECIFICATION Spec
CONSTANTS
    Requests = 4
    TestTime = FALSE
    ConfigFile = TRUE
    ReconnectInterval = 3
    Pipeline = 2
    Authenticate = TRUE
    SelectDb = TRUE
    Paced = TRUE
    MemcacheText = FALSE
    UninitValues <- Garbage
    Faults <- AllFaults
    MaxGenerated = 7
CHECK_DEADLOCK FALSE
INVARIANTS
    Accounting
    RequestsBound
    WireInOrder
PROPERTIES
    ImplementsClosedLoop

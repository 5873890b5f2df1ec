SPECIFICATION FairSpec
CONSTANTS
    Configs <- MCConfigs
CHECK_DEADLOCK FALSE
INVARIANTS
    ResponsesInOrder
    NothingOwed
PROPERTIES
    AllReturned

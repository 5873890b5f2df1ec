SPECIFICATION MixSpec
CONSTANTS
    Configs <- MCConfigs
    MaxRequests = 40
INVARIANTS
    SomeRequestDue
    RatioExact
    WaitsFollowSets
CHECK_DEADLOCK FALSE

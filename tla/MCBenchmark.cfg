SPECIFICATION FairSpec
CONSTANTS
    Configs <- MCConfigs
    Workers = 2
    MaxEntries = 2
    MaxOps = 2
    MaxSamples = 1
CHECK_DEADLOCK FALSE
INVARIANTS
    SchedulePlayed
    TotalsComplete
    LabelFits
    LogComplete
PROPERTIES
    RunEnds

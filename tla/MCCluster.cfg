SPECIFICATION FairSpec
CONSTANTS
    Slots = {1, 2}
    Nodes = {a, b}
    Configs <- MCConfigs
    QueueMax = 1
    MaxGenerated = 3
CHECK_DEADLOCK FALSE
INVARIANTS
    KeysAccounted
    OneConnectionPerNode
    PoolsRouted
    MapKnown
PROPERTIES
    Completes

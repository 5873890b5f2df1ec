SPECIFICATION PacedFairSpec
CONSTANTS
    ServerThreads = 3
    SkewLevel = 2
    Clients = 6
    Runs = 3
    Reconnects = 1
    intervals <- MCIntervals
    Garbage <- MCGarbage
CHECK_DEADLOCK FALSE
INVARIANTS
    PileUpExact
    TrueUntilReconnect
    LoadAsScheduled
PROPERTIES
    AllPrepared
    RatesAdopted

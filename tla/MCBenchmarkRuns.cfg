SPECIFICATION Spec
CONSTANTS
    Configs <- TwoScheduledRuns
    Workers = 2
    MaxEntries = 3
    MaxOps = 2
    MaxSamples = 1
CHECK_DEADLOCK FALSE
INVARIANTS
    SchedulePlayed

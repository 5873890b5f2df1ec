SPECIFICATION Spec
CONSTANTS
    GroupSizes <- ThreeClients
    Sharded <- OneSharded
    Kinds = {get, set}
    TicksPerSecond = 2
    MaxStart = 3
    MaxTick = 6
    MaxOps = 2
SYMMETRY KindSymmetry
CHECK_DEADLOCK FALSE
INVARIANTS
    RowsInOrder
    Ledger
    MergedBySecond
    ReportComplete
    DurationSane

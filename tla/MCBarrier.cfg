SPECIFICATION FairSpec
CONSTANTS
    NumCores = 3
    Period <- MCPeriod
    SyncInterval = 2
    FirstCores = {0}
    Leavers = {0, 1, 2}
    Reactivates = FALSE
INVARIANTS
    MinIsLeastActive
PROPERTIES
    ImplementsLockstep
    BarrierOpens

SPECIFICATION FairSpec
CONSTANTS
    Capacity = 3
    Workloads <- Separate
    Overlap = FALSE
    MaxHandshakes = 8
INVARIANTS
    BuffersSound
PROPERTIES
    ImplementsChannel
    WaitsDrain
    FeederReturns

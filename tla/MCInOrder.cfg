CONSTANTS
    Programs <- AllPrograms
    LateAnswers = FALSE
    LineSize = 4
    ROB_size = 6
    LDQ_size = 3
    STQ_size = 2
    NPorts = 2
    port_binding <- Binding
    fu_latency <- Latency
    issue_rate <- Rate
    DL1_latency = 2
    alloc_width = 2
    alloc_depth = 2
    commit_width = 2
    pre_commit_depth = 4
    branch_limit = 1
    Delays = {0, 1, 3}
    throttle_partial = TRUE
    MissLatencies = {4}
    MaxRefusals = 1
    MaxMisses = 1
    MaxFlushes = 1
SPECIFICATION FairSpec
INVARIANTS
    NoAbort
    InOrder
    NothingLost
PROPERTIES
    Drains

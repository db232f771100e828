CONSTANTS
    Programs <- AllPrograms
    LineSize = 4
    ROB_size = 5
    RS_size = 4
    LDQ_size = 2
    STQ_size = 2
    Ports = {1, 2}
    port_binding <- Binding
    fu_latency <- Ones
    issue_rate <- Ones
    payload_depth = 1
    DL1_latency = 3
    alloc_width = 3
    alloc_depth = 1
    commit_width = 2
    branch_limit = 1
    jeclear_delay = 2
    drain_flush = FALSE
    throttle_partial = TRUE
    light_fence = FALSE
    Memdeps = {"blind", "none", "oracle", "lwt"}
    MissLatencies = {4}
    MaxRefusals = 1
    MaxMisses = 1
    MaxFlushes = 1
SPECIFICATION FairSpec
INVARIANTS
    NoAbort
    Bookkeeping
    LoadsOrdered
PROPERTIES
    Drains

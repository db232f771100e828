CONSTANTS
    Programs <- AllPrograms
    ROB_size = 8
    RS_size = 7
    LDQ_size = 2
    STQ_size = 2
    byteQ_size = 2
    MopQ_size = 4
    NPorts = 2
    port_binding <- Binding
    fu_latency <- Latency
    issue_rate <- Rate
    DL1_latency = 2
    decode_width = 2
    decode_depth = 3
    target_stage = 1
    alloc_width = 2
    commit_width = 2
    drain_flush = TRUE
    MaxFaults = 1
SPECIFICATION FairSpec
INVARIANTS
    NoAbort
    Bookkeeping
    LoadsOrdered
PROPERTIES
    Drains

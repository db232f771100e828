CONSTANTS
    c1 = c1
    c2 = c2
    L1s = {c1, c2}
    NoTag = NoTag
    Assoc <- TwoAtLLC
    Blocks = {0, 1}
    Sets <- One
    MSHR_banks <- One
    MSHR_size <- Three
    MSHR_WB_size <- One
    latency <- One
    Policy <- AllLRU
    write_back <- WriteThroughC2
    write_alloc <- Yes
    cmd_order <- ByCommand
    write_combining = TRUE
    prefetch_on_miss = TRUE
    PF_filter = FALSE
    PF_buffer_size <- AtL1
    PFF_size <- AtL1
    prefetch_max = 1
    prefetch_threshold = 2
    lookup <- NextLine
    sharing_penalty = 1
    line_cycles <- LineCycles
    RQ_size = 2
    FIFO_scheduling = FALSE
    PageBlocks = 2
    DramLatency = {1}
    Accesses <- Shared
    MaxRequests = 2
    Late = {1}
    Doomed = {2}
SPECIFICATION FairSpec
INVARIANTS
    ArraysSound
    AnsweredOnce
    WorkSeen
PROPERTIES
    Answered

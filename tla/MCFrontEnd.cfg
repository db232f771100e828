SPECIFICATION FairSpec
CONSTANTS
    Configs <- MCConfigs
    Programs <- MCPrograms
    JeclearDelays = {0, 2}
    history_length = 2
    num_entries = 2
    num_ways = 2
    RAS_size = 2
    pool_size = 1
    MopQ_size = 5
    line_size = 4
    byteQ_size = 2
    fetch_width = 2
    fetch_depth = 2
    IQ_size = 2
    decode_width = 2
    decode_depth = 3
    target_stage = 1
    max_uops <- MCmax_uops
    branch_decode_limit = 1
    MS_latency = 1
    uopQ_size = 2
    alloc_width = 2
    commit_width = 2
    Stalls = 2
INVARIANTS
    OnlyTheTrace
    FlowInOrder
    Doomed
    CachesOwned
    AlwaysAThree
PROPERTIES
    Drains

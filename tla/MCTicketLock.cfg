SPECIFICATION FairSpec
CONSTANTS
    p1 = p1
    p2 = p2
    p3 = p3
    Procs <- MCProcs
    Modulus = 3
INVARIANTS
    MutualExclusion
PROPERTIES
    FirstComeFirstServed
    EveryLockReturns

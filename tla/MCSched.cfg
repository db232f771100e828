SPECIFICATION Spec
CONSTANTS
    t1 = t1
    t2 = t2
    t3 = t3
    INVALID_THREADID = INVALID_THREADID
    NumCores = 2
    NumProcesses = 2
    Threads = {t1, t2, t3}
    Process <- TwoProcesses
    Joins <- OneJoin
    Resumes = {0, 1}
    LateErase = FALSE
    Emits <- Mixed
INVARIANTS
    RunQueuesSound
    SleepersAccounted
PROPERTIES
    JoinReturnsAfterExit

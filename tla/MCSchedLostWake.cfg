SPECIFICATION FairSpec
CONSTANTS
    t1 = t1
    t2 = t2
    t3 = t3
    INVALID_THREADID = INVALID_THREADID
    NumCores = 2
    NumProcesses = 1
    Threads = {t1, t2}
    Process <- OneProcess
    Joins <- OneJoin
    Resumes = {0}
    LateErase = FALSE
    Emits <- ExitOnly
PROPERTIES
    BlockedUntilExit
CHECK_DEADLOCK FALSE

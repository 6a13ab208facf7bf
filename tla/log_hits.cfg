CONSTANTS
    Proc = {1, 2}
    NoProc = 0
    Block = {1, 2}
    Val = {0, 1}
    InitVal = 0
    LOGSIZE = 6
    MAXOPBLOCKS = 2
    Nlog = 6
    Recycle = TRUE
    MaxOps = 2
    MaxCrash = 0
    HitPoints = {"begin", "begun", "end", "ended", "commit", "erase", "finish", "write", "other"}
    MaxHit = 2
SPECIFICATION RecSpec
PROPERTIES
    RecoveryEnds
CHECK_DEADLOCK FALSE

CONSTANTS
    Proc = {1, 2}
    NoProc = 0
    Block = {1, 2}
    Val = {0, 1}
    InitVal = 0
    LOGSIZE = 6
    MAXOPBLOCKS = 2
    Nlog = 6
    Recycle = FALSE
    MaxOps = 3
    MaxCrash = 2
    HitPoints = {"begun", "end", "commit", "finish", "write"}
    MaxHit = 1
SPECIFICATION RecSpec
INVARIANTS
    OutstandingExact
    ReplicasInSync
PROPERTIES
    ImplementsAtomicDisk
CHECK_DEADLOCK FALSE

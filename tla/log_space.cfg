CONSTANTS
    Proc = {1, 2, 3}
    Block = {1, 2}
    Val = {0, 1}
    InitVal = 0
    LOGSIZE = 3
    MAXOPBLOCKS = 1
    Nlog = 3
    Recycle = TRUE
    MaxOps = 4
    MaxCrash = 1
SPECIFICATION FairSpec
INVARIANTS
    LogInv
    SpaceReserved
PROPERTIES
    BeginProceeds
CHECK_DEADLOCK FALSE

SPECIFICATION Spec
CONSTANTS
    NPROC = 3
    W = 5
    NPAGE = 50
    Taken <- MCTaken
    NSLOT = 10
    MaxSz = 6
    SbrkBy = {1, 2}
    MaxSeg = 2
    MaxOps = 4
    MaxFault = 1
    Conservative = FALSE
INVARIANTS
    TablesInv
    NoDoubleUse
PROPERTY RecoverySound
CHECK_DEADLOCK FALSE

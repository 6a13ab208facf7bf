SPECIFICATION MCSpec
CONSTANTS
    NPROC = 2
    NOFILE = 2
    NFILE = 3
    NINODE = 1
    PIPESIZE = 2
    NPIPE = 2
    MaxWrite = 2
    MaxBytes = 6
    MaxOps = 4
    MaxFault = 1
PROPERTY HandlerGoesOn
INVARIANTS
    CountsExact
    InOrder
    SleepsForReason
CHECK_DEADLOCK FALSE

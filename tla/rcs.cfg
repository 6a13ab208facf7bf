CONSTANTS
    Proc = {3, 4, 5}
    NBUF = 2
    NFILE = 2
    NINODE = 1
    Flag <- Flags
    Paths <- LogFilePaths
    Handlers <- MCHandlers
    Broken <- LogFileBroken
    HistorySize = 5
    MaxNmi = 2
    MaxCalls = 0
SPECIFICATION MCSpec
INVARIANTS
    OneIntruder
    OnlyLateEntrants
    FtableDrained
CHECK_DEADLOCK FALSE

CONSTANTS
    Proc = {3, 4}
    NBUF = 2
    NFILE = 2
    NINODE = 1
    Flag <- Flags
    Paths <- NestedPaths
    Handlers <- MCHandlers
    Broken <- NestedBroken
    HistorySize = 5
    MaxNmi = 2
    MaxCalls = 3
SPECIFICATION FairSpec
INVARIANTS
    TypeOK
    NoUndercount
PROPERTIES
    RecoveryCompletes
CHECK_DEADLOCK FALSE

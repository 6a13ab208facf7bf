CONSTANTS
    Proc = {1, 2, 3}
    FreePages <- Free4
    UsedPages = {14}
    HitWaiters = FALSE
    HitAgain = FALSE
    MaxNmi = 2
    MaxOps = 4
SPECIFICATION Spec
INVARIANTS
    RunListExact NoDoubleUse
CHECK_DEADLOCK FALSE

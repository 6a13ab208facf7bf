CONSTANTS
    Proc = {1, 2, 3}
    Addr = {1}
    QueueSize = 3
    MaxNmi = 3
SPECIFICATION FairSpec
INVARIANTS
    SoleTracker
    QueueOwned
PROPERTIES
    OwnResult
    Recovered
CHECK_DEADLOCK FALSE

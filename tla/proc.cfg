CONSTANTS
    NPROC = 4
    MaxCalls = 3
SPECIFICATION FairSpec
INVARIANTS NoSleepOverZombie ParentInUse NoMissedWakeup KilledLeavesWait NoCircularWait
PROPERTY ExitEnds
CHECK_DEADLOCK FALSE

SPECIFICATION Spec
CONSTANTS
    Proc = {11, 12}
    NINUM = 5
    NBLOCK = 8
    NINODE = 4
    UNITS = 4
    NDIRECT = 1
    Starts <- MCStarts
    PathCalls <- MCPathCalls
    WriteN = {5}
    MaxFault = 1
INVARIANTS
    IcacheInv
    IputFree
    FsckOK
    CallsGoOn
CHECK_DEADLOCK FALSE

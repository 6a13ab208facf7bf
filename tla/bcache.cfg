SPECIFICATION Spec
CONSTANTS
    Proc = {p1, p2}
    Recovering = {p2}
    Block = {a, b, c}
    NoProc = NoProc
    NoNode = NoNode
    NoBlock = NoBlock
    NBUF = 2
    NUM = 6
    MaxOps = 5
    MaxShared = 3
    MaxFault = 1
INVARIANTS
    CacheInv
    ExclusiveUse
    CoherentRead
    NoMissedCompletion
CHECK_DEADLOCK FALSE
SYMMETRY BlockSymmetry

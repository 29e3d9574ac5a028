\* Two pages, two contents, three reads and writes, every interleaving.
CONSTANTS
    p0 = p0
    p1 = p1
    a = a
    b = b
    Offsets <- MCOffsets
    Data <- MCData
    Garbage = Garbage
    NoOffset = NoOffset
    MaxCalls = 3
SPECIFICATION FairSpec
INVARIANTS
    RegionExclusive
    NoLostWakeup
    CallerConnLive
    DisconnectClean
    OutstandingBound
PROPERTIES
    ImplementsMemory
    CallsReturn
CHECK_DEADLOCK FALSE

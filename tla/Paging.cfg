CONSTANTS
    a = a
    b = b
    PageNr = 3
    Offsets <- MCPages
    Data <- MCData
    Garbage = Garbage
    NoOffset = NoOffset
    MaxCalls = 6
SPECIFICATION PFairSpec
INVARIANTS
    PagedOutIsRemote
    AssertHolds
PROPERTY ReachesDone
CHECK_DEADLOCK FALSE

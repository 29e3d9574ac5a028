SPECIFICATION FairSpec
CONSTANTS
    t1 = t1
    t2 = t2
    Threads <- MCThreads
    NoThread = NoThread
    GrowSize = 2
    MaxPages = 8
    IntPages = 4
    MapLimit = 4
    MaxRefs = 2
    BigSize = 2
    MaxPins = 1
    RefMod = 8
    Leftover = 5
    Sharing = FALSE
INVARIANTS
    FreePagesUnused
    NoPageLost
PROPERTY LockIsReleased
CHECK_DEADLOCK FALSE

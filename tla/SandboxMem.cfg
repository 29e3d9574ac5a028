SPECIFICATION FairSpec
CONSTANTS
    Threads = {t1, t2}
    PGSIZE = 2
    BigPages = 2
    SpacePages = 7
    StackPages = 2
    Lengths = {1, 3}
    Places <- MCPlaces
    MaxCalls = 3
    None = None
INVARIANTS
    GivenKept
    NoStrayEntries
PROPERTY MutexReleased
CHECK_DEADLOCK FALSE

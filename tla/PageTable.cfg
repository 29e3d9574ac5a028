SPECIFICATION Spec
CONSTANTS
    W = 2
    PoolSize = 12
    MaxRoots = 2
    MaxFrees = 1
    MaxCalls = 5
    Ranges <- MCRanges
    BigRanges <- MCBigRanges
    GiantRanges <- MCGiantRanges
    PoolRange <- MCPoolRange
    PoolFirst = 6
    Perms <- MCPerms
    None = None
INVARIANTS
    FlatAgrees
    NothingDangles
    CountsMatch
CHECK_DEADLOCK FALSE

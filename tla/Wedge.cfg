SPECIFICATION FairSpec
CONSTANTS
    Keys = {k1, k2}
    MaxSthreads = 2
    MaxLaunches = 4
    MaxReads = 2
    AtOnce = 3
INVARIANTS
    OnlyLiveRun
    StartsClean
    JoinsOwnLaunch
PROPERTY JoinReturns
CHECK_DEADLOCK FALSE

SPECIFICATION Spec
CONSTANTS
    f1 = f1
    f2 = f2
    d1 = d1
    h1 = h1
    g1 = g1
    Fanout = 2
    FramesOf <- MCFrames
    PfnFrames = {d1}
    None = None
    Table = Table
    phys_end = 4
    GPA_STACK_SIZE = 1
    GPA_MAP_SIZE = 1
    LgSize = 2
    mm_mmap_base = 5
    mm_start_stack = 9
    MaxVa = 12
SYMMETRY Symmetry
CONSTRAINT FewRanges
INVARIANTS
    RefsExact
    TreeSound
    Synchronized
    FaultReachesPage
    NotifierFindsEntry

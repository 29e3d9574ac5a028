\* rdma_done never returns when the server's DONE overtakes the completion.
CONSTANTS
    p0 = p0
    p1 = p1
    a = a
    b = b
    Offsets <- MCOffsets
    Data <- MCData
    Garbage = Garbage
    NoOffset = NoOffset
    MaxCalls = 0
SPECIFICATION FairSpec
PROPERTY DoneReturns
CHECK_DEADLOCK FALSE

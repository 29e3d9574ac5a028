SPECIFICATION FairSpec
CONSTANTS
    t1 = t1
    t2 = t2
    c1 = c1
    c2 = c2
    v1 = v1
    v2 = v2
    r1 = r1
    r2 = r2
    Threads <- MCThreads
    Cpus <- MCCpus
    Vcpus <- MCVcpus
    Regions <- MCRegions
    Notifiers = {}
    None = None
    VMX_NR_VPIDS = 3
    NUM_SYSCALLS = 3
    SyscallNrs = {0, 1}
    NR_exit = 1
    Unsupported = {2}
    SigKinds = {"kill"}
    MaxEptFails = 0
PROPERTY DestroyCompletes

SPECIFICATION Spec
CONSTANTS
    t1 = t1
    t2 = t2
    c1 = c1
    c2 = c2
    v1 = v1
    v2 = v2
    r1 = r1
    r2 = r2
    Threads <- MCThreads
    Cpus <- MCCpus
    Vcpus <- MCVcpus
    Regions <- MCRegions
    Notifiers = {n1}
    None = None
    VMX_NR_VPIDS = 3
    NUM_SYSCALLS = 3
    SyscallNrs = {0, 1, 2, 4}
    NR_exit = 1
    Unsupported = {2}
    SigKinds = {"none", "kill", "other"}
    MaxEptFails = 1
SYMMETRY Symmetry
CONSTRAINT AfterFailure
INVARIANTS
    VpidsExact
    OwnVmcs
    LaunchStateKnown
    ActiveOnce
    NoStaleTlb

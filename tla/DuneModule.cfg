SPECIFICATION ModuleSpec
CONSTANTS
    Cpus = {c1, c2, c3, c4}
    Online = {c1, c2, c3}
    MaxLoads = 2
INVARIANT OutMeansOff
INVARIANT DeviceMeansVmx
PROPERTY OthersKept
\* The attempts to load the module are bounded, so it may stop.
CHECK_DEADLOCK FALSE

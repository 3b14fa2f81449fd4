CONSTANTS
    w1 = w1
    w2 = w2
    w3 = w3
    v1 = v1
    v2 = v2
    v3 = v3
    None = None
    Workers = {w1, w2, w3}
    VmThreads = {v1, v2, v3}
    Entry = v1
    GcPeriod = 3
    Faults = {"broken", "exception"}
SYMMETRY Symmetry
SPECIFICATION Spec
INVARIANTS
    ExclusiveExecution
    PlacesSound
    RunningCount
    WakesBlockedThread
    OwnershipSoonFree
    DeadlockReportSound
PROPERTIES
    GcExclusive
CHECK_DEADLOCK FALSE

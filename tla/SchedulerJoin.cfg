CONSTANTS
    w1 = w1
    w2 = w2
    w3 = w3
    v1 = v1
    v2 = v2
    v3 = v3
    None = None
    Workers = {w1, w2}
    VmThreads = {v1, v2}
    Entry = v1
    GcPeriod = 3
    Faults = {}
SPECIFICATION FairSpec
PROPERTY ShutdownJoins
CHECK_DEADLOCK FALSE

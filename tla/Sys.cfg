CONSTANTS
    t1 = t1
    t2 = t2
    a1 = a1
    a2 = a2
    a3 = a3
    f1 = f1
    Threads = {t1, t2}
    Adts = {a1, a2, a3}
    MaxFiles = 5
    MaxNumbers = 5
    MaxRefs = 4
    Calls = {"open", "fildes", "dup", "print", "use"}
    Fds = {f1}
    Modes = {{"ORDWR"}, {"ORDWR", "OTRUNC"}, {"OTRUNC"}, {"OWRITE", "OEXCL", "ORCLOSE"}}
    FileCalls = {"open", "create", "close", "remove", "read", "write", "seek"}
    Inputs = {}
    Outputs <- NoOutputs
    Source = 0
    BufSize = 1
    MaxPaths = 1
    MaxBytes = 2
    MaxInodes = 2
    MaxFaults = 1
SYMMETRY Interchangeable
SPECIFICATION SysSpec
INVARIANTS FilesCounted SecondTableSound PrintsWhole
PROPERTY StreamsObey
CHECK_DEADLOCK FALSE

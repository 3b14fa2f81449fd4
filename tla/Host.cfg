CONSTANTS
    Nil = Nil
    w1 = w1
    w2 = w2
    t1 = t1
    t2 = t2
    Workers = {w1}
    Outside = {}
    PCs = {1, 2}
    Calls <- AllCalls
    MaxCookie = 3
    MaxSubs = 2
    MaxCalls = 4
    Options <- TwoOptions
    Entry = 1
    MaxIds = 2
    MaxCmds = 3
    MaxCount = 2
    DataSizes = {0, 4}
    Elements = {0}
    Indices <- ItemIndices
    MaxArrays = 2
    Depth = 2
SPECIFICATION HostSpec
INVARIANTS BreakpointsTransparent DebuggerObeys ReaderSound
CHECK_DEADLOCK FALSE

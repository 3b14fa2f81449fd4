CONSTANTS
    Nobody = Nobody
    Main = Main
    t1 = t1
    t2 = t2
    t3 = t3
    Threads = {t1, t2, t3}
    Initial = {t1, t2}
    Forkers = {}
    Preloaded = FALSE
    MaxLoads = 1
    MaxUnloads = 1
    NewPaths = 2
    f1 = f1
    f2 = f2
    f3 = f3
SPECIFICATION ProgressSpec
INVARIANTS BytesConserved ToolsAttached
PROPERTIES ToolsProgress CallsReturn
CHECK_DEADLOCK FALSE

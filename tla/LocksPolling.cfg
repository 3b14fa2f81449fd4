CONSTANTS
    t1 = t1
    t2 = t2
    t3 = t3
    c1 = c1
    c2 = c2
    Nil = Nil
    Threads = {t1, t2}
    Channels = {c1, c2}
    Program <- MCPolling
    MaxOps = 1
SPECIFICATION FairSpec
PROPERTY NbaltReturns
CHECK_DEADLOCK FALSE

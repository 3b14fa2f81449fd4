CONSTANTS
    w1 = w1
    w2 = w2
    Nil = Nil
    main = main
    Workers = {w1, w2}
    Outside = {}
    PCs = {1}
    Calls <- MCSuspend
    MaxCookie = 3
    MaxSubs = 2
    MaxCalls = 3
SPECIFICATION FairSpec
PROPERTY SuspendReturns
CHECK_DEADLOCK FALSE

CONSTANTS
    t1 = t1
    t2 = t2
    t3 = t3
    c1 = c1
    c2 = c2
    Nil = Nil
    Threads = {t1, t2, t3}
    Channels = {c1, c2}
    Program <- MCProgram
    MaxOps = 2
SPECIFICATION Spec
PROPERTY ImplementsRendezvous
CHECK_DEADLOCK FALSE

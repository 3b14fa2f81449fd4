CONSTANTS
    Threads = {"t1", "t2"}
    Objs = {"o1", "o2"}
    Shared = {}
    Own <- MCOwn
    Nil = Nil
    s1 = s1
    s2 = s2
SYMMETRY SlotSymmetry
SPECIFICATION MemorySpec
INVARIANTS CountsExact RaceSound
PROPERTY CollectorSound
CHECK_DEADLOCK FALSE

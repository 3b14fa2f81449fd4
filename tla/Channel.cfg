CONSTANTS
    t1 = t1
    t2 = t2
    t3 = t3
    c1 = c1
    c2 = c2
    Nil = Nil
    Threads = {t1, t2, t3}
    Channels = {c1, c2}
    BufferLen <- MCBufferLen
    Instructions <- MCInstructions
    MaxOps = 2
SYMMETRY ThreadSymmetry
SPECIFICATION Spec
INVARIANTS
    TypeOK
    NoMissedMatch
    NoRevivedRequest
    NoLeftover
    NoLostWakeup
    AltAnswer
    ChannelInv
PROPERTY ImplementsFifo
CHECK_DEADLOCK FALSE

SPECIFICATION Spec
CONSTANTS
    t1 = t1  t2 = t2
    Threads <- MCThreads
    Nobody = Nobody
    Pieces = TRUE
    MidTimeouts = FALSE
    MaxCalls = 3
CHECK_DEADLOCK FALSE
INVARIANTS StreamAligned

SPECIFICATION MCSpec
CONSTANTS
    t1 = t1  t2 = t2
    Threads <- MCThreads
    Nobody = Nobody
    Pieces = TRUE
    MidTimeouts = TRUE
    MaxCalls = 4
    OpenTimeouts = {0, 1, 2500, 5000, 60000}
    Networks = {n1, n2}
    Hosts = {i1, i2, i3}
    Bad = {"zero", "denied", "foreign", "garbled"}
    MaxReplies = 1
    MaxRecv = 2
    SockCounts = {1, 3}
    Lengths = {3}
    ChunkSize = 2
    MaxSent = 3
    MaxReads = 2
    MaxOthers = 1
CHECK_DEADLOCK FALSE
INVARIANTS Inv OpenIsTrue ConnectInTime ListsWhoAnswered
PROPERTIES ImplementsRemoteCall SocketStreams ClientCallsEnd

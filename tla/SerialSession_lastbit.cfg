SPECIFICATION Spec
CONSTANTS
    Messages <- MCMessages
    EndIns = {"last_bit"}
    EndOuts = {"last_bit"}
    DataBits = {7, 8}
    TermChar = 10
    Timeouts = {"infinite", "finite"}
    Counts = {2}
    MaxWrites = 2
    MaxReads = 2
    MaxSets = 0
    MaxFlushes = 0
CHECK_DEADLOCK FALSE
INVARIANT LastBitEndsMessage

SPECIFICATION Spec
CONSTANTS
    IdSpace = 16
    FirstId = 12
    Counts = {1, 3}
    Shapes <- TwoMessages
    Pieces = TRUE
    Interrupts = TRUE
    MaxLate = 1
    MaxWrites = 2
    MaxReads = 3
    MaxTerms = 1
    MaxClears = 1
    MaxCalls = 4
CHECK_DEADLOCK FALSE
INVARIANTS DataIsResponse NotBroken CleanAbort
PROPERTIES OwnResponseKept CallsEnd

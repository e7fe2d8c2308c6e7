SPECIFICATION Spec
CONSTANTS
    IdSpace = 16
    FirstId = 12
    Counts = {3}
    Shapes <- LongResponse
    Pieces = TRUE
    Interrupts = FALSE
    MaxLate = 0
    MaxWrites = 2
    MaxReads = 2
    MaxTerms = 1
    MaxClears = 0
    MaxCalls = 5
CHECK_DEADLOCK FALSE
PROPERTIES TerminatedReadAborts

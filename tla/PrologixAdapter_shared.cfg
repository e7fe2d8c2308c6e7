SPECIFICATION Spec
CONSTANTS
    g1 = g1  g2 = g2
    Instruments <- MCInstruments
    Nobody = Nobody
    MaxRecv = 3
    LineLength = 2
    ResponseLength = 4
    Counts = {1, 4}
    MaxCalls = 4
SYMMETRY Symmetry
CHECK_DEADLOCK FALSE
INVARIANTS ReadsOwnResponse StatusIsStatus
PROPERTIES ReachesItsInstrument

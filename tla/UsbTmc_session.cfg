SPECIFICATION Spec
CONSTANTS
    FirstTag = 1
    LastTag = 2
    FirstStb = 2
    LastStb = 4
    PacketSize = 2
    HeaderSize = 1
    LineLength = 2
    Messages = {0, 4}
    Responses = {3}
    Counts = {2, 4}
    MaxWrites = 2
    MaxReads = 2
    MaxStbs = 2
CHECK_DEADLOCK FALSE
INVARIANTS ResponseConserved MessageDelivered StatusIsOwn
PROPERTIES CallsEnd

SPECIFICATION MCSpec
CONSTANTS
    Messages <- MCMessages
    EndIns = {"last_bit", "termination_char"}
    EndOuts = {"none", "last_bit", "termination_char", "termination_break"}
    DataBits = {7}
    TermChar = 10
    Timeouts = {"infinite", "finite"}
    Counts = {2}
    MaxWrites = 2
    MaxReads = 2
    MaxSets = 1
    MaxFlushes = 1
    Users = {u1, u2}
    MaxSessions = 3
    MaxDescriptors = 5
    MaxPasses = 1
    Bytes = {10, 138}
    TermChars = {10}
    TimeoutValues = {0, 1002, 2000000}
    Infinite = Infinite
    MaxSent = 2
    ReadCounts = {2}
    MaxDriverReads = 2
    MaxSettings = 2
    MaxCalls = 4
CHECK_DEADLOCK FALSE
INVARIANTS MessagesEnd TimeoutServes DescriptorsOwned SuccessAchieves
PROPERTIES PortReadsInOrder PortCallsEnd

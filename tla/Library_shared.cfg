SPECIFICATION Spec
CONSTANTS
    u1 = u1  u2 = u2
    h1 = h1  h2 = h2  h3 = h3
    Users <- MCUsers
    Handles <- MCHandles
    NoHandle = NoHandle
    Boards = {1}
    Handlers = {"f"}
    Args = {"a", "b"}
    NoArg = "None"
    MaxSessions = 3
    MaxInstalls = 2
    MaxEvents = 1
SYMMETRY Symmetry
CHECK_DEADLOCK FALSE
INVARIANTS HandleNamesItsSession BoardFinds StayingHandlersCalled

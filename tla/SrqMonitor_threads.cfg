SPECIFICATION RacesSpec
CONSTANTS
    u1 = u1  u2 = u2
    Users <- MCTwoUsers
    NoUser = NoUser
    Mechs = {"queue"}
    Faults = {"status", "exception", "swallowed"}
    MaxCalls = 3
    MaxSrqs = 1
CHECK_DEADLOCK FALSE
INVARIANTS Inv MatchesUnlessRaced
PROPERTIES RequestsAreDispatched OldThreadsEnd

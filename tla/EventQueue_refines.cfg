SPECIFICATION QSpec
CONSTANTS
    w1 = w1  w2 = w2
    Waiters <- MCWaiters
    Types = {"service_request", "exception"}
    AnyType = "any"
    None = None
    MaxPuts = 3
INVARIANTS Inv
PROPERTIES MailboxSpec

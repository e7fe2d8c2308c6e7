SPECIFICATION Spec
CONSTANTS
    MaxRecv = 2
    MinTimeout = 2
    Slack = 1
    Timeouts = {0, 3}
    Infinite = Infinite
    OtherTimeout = 0
    LineLength = 2
    Messages = {0, 4}
    Responses = {2, 3}
    Counts = {0, 3}
    MaxCalls = 3
CHECK_DEADLOCK FALSE
INVARIANTS ResponseKept StatusExplains ReadInTime WriteReportsTruly ClosedReleases
PROPERTIES CallsEnd

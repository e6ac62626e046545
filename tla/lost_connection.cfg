SPECIFICATION FairSpec
CONSTANTS
    u1 = u1
    u2 = u2
    None = None
    Url = {u1}
    IpUrl = {u1}
    Connection <- OneRetrying
    Backlog = 2
    Socket = {s1, s2}
    Faults = {"ServerClosed"}
    IsOperational = FALSE
    MaxChecks = 0
    CallerMessage = {"Connect"}
    MaxCalls = 1
    MaxAttempts = 1
    Patient = TRUE
PROPERTIES
    LostConnectionIsRetried
CHECK_DEADLOCK FALSE

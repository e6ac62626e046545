SPECIFICATION FairSpec
CONSTANTS
    u1 = u1
    u2 = u2
    None = None
    Url = {u1}
    IpUrl = {u1}
    Connection <- OneInitialRetries
    Backlog = 2
    Socket = {s1, s2}
    Faults = {"ConnectError"}
    IsOperational = FALSE
    MaxChecks = 0
    CallerMessage = {"Connect"}
    MaxCalls = 1
    MaxAttempts = 1
    Patient = TRUE
PROPERTIES
    RetriedConnectionSucceeds
CHECK_DEADLOCK FALSE

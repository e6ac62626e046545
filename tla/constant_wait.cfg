SPECIFICATION FairSpec
CONSTANTS
    u1 = u1
    u2 = u2
    None = None
    Url = {u1}
    IpUrl = {u1}
    Connection <- OneAuto
    Backlog = 2
    Socket = {s1, s2}
    Faults = {"ConnectError", "ServerClosed"}
    IsOperational = FALSE
    MaxChecks = 0
    CallerMessage = {"Connect"}
    MaxCalls = 1
    MaxAttempts = 8
    Patient = TRUE
PROPERTIES
    RetriesSlowDown
CHECK_DEADLOCK FALSE

SPECIFICATION FairSpec
CONSTANTS
    u1 = u1
    u2 = u2
    None = None
    Url = {u1}
    IpUrl = {u1}
    Connection <- OneRetrying
    Backlog = 2
    Socket = {s1, s2}
    Faults = {"ConnectError", "PairingDeclined"}
    IsOperational = FALSE
    MaxChecks = 0
    CallerMessage = {"Connect", "Disconnect"}
    MaxCalls = 3
    MaxAttempts = 8
    Patient = TRUE
PROPERTIES
    StatusSpec
    RetriedConnectionSucceeds
    RetriesSlowDown
CHECK_DEADLOCK FALSE

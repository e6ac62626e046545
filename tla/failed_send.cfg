SPECIFICATION Spec
CONSTANTS
    u1 = u1
    u2 = u2
    None = None
    Url = {u1}
    IpUrl = {u1}
    Connection <- OnePlain
    Backlog = 2
    Socket = {s1, s2}
    Faults = {"SendFailed"}
    IsOperational = FALSE
    MaxChecks = 0
    CallerMessage = {"Connect", "SendTvCommand"}
    MaxCalls = 2
    MaxAttempts = 1
    Patient = TRUE
SYMMETRY SocketSymmetry
INVARIANTS
    FailedSendIsFatal
CHECK_DEADLOCK FALSE

SPECIFICATION Spec
CONSTANTS
    u1 = u1
    u2 = u2
    None = None
    Url = {u1, u2}
    IpUrl = {u1}
    Connection <- AutoOrKeyed
    Backlog = 2
    Socket = {s1, s2}
    Faults = {"ConnectError", "ServerClosed", "PairingDeclined", "PairUnsupported", "DiskError"}
    IsOperational = FALSE
    MaxChecks = 0
    CallerMessage = {"Connect", "Disconnect", "ConnectLastGoodConnection", "CancelReconnect"}
    MaxCalls = 3
    MaxAttempts = 1
    Patient = TRUE
SYMMETRY SocketSymmetry
INVARIANTS
    PersistedPairMatches
    SettledMeansConsistent
    ConnectIsAccepted
CHECK_DEADLOCK FALSE

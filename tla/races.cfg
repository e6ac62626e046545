SPECIFICATION Spec
CONSTANTS
    u1 = u1
    u2 = u2
    None = None
    Url = {u1}
    IpUrl = {u1}
    Connection <- AutoOrNoUrl
    Backlog = 2
    Socket = {s1, s2}
    Faults = {"ServerClosed", "ConnectError", "SendFailed", "PingTimeout"}
    IsOperational = TRUE
    MaxChecks = 2
    CallerMessage = {"Connect", "Disconnect", "TestConnection", "SendTvCommand", "CancelReconnect"}
    MaxCalls = 2
    MaxAttempts = 1
    Patient = FALSE
SYMMETRY SocketSymmetry
INVARIANTS
    TypeOK
    StatusLagsMachine
    NoForgottenTask
    JoinedTaskWasTold
    RegistersOncePerSocket
    ReconnectFromRest
    WaitingKeepsConnection
CHECK_DEADLOCK FALSE

SPECIFICATION FairSpec
CONSTANTS
    u1 = u1
    u2 = u2
    None = None
    Url = {u1}
    IpUrl = {u1}
    Connection <- OneAuto
    Backlog = 2
    Socket = {s1, s2}
    Faults = {"ReadError", "ServerClosed", "ConnectError"}
    IsOperational = FALSE
    MaxChecks = 0
    CallerMessage = {"Connect", "ShutDown"}
    MaxCalls = 3
    MaxAttempts = 1
    Patient = FALSE
PROPERTIES
    ShutDownCompletes
    HandlersFinish
    ReplacedTasksEnd
CHECK_DEADLOCK FALSE

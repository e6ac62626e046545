SPECIFICATION FairSpec
CONSTANTS
    None = None
    Url = {u1}
    IpUrl = {u1}
    Connection <- NoConnection
    Backlog = 9
    Buffer = 2
    OutputBuffer = 1
    CallerMessage = {"Connect", "SendTvCommand", "ShutDown"}
    Patient = TRUE
    MaxCalls = 2
    MaxVolumes = 1
    Details = 1
    Requests = 1
    Faults = {"ConnectError", "ServerClosed"}
INVARIANTS
    TypeOK
    NoCircularWait
PROPERTIES
    HandlersFinish
    ShutDownCompletes
CHECK_DEADLOCK FALSE

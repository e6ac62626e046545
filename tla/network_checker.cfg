SPECIFICATION FairSpec
CONSTANTS
    None = None
    Url = {u1, u2}
    IpUrl = {u1, u2}
    Connection <- NoConnection
    Backlog = 1
    IsOperational = TRUE
INVARIANTS
    SettledResultIsCurrent
PROPERTIES
    NewAddressIsPinged
    NetSpec

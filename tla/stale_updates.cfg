SPECIFICATION Spec
CONSTANTS
    tv1 = tv1
    tv2 = tv2
    None = None
    Url = {tv1, tv2}
    Dir = {"default"}
    Default = "default"
    Connection <- Connections
    Commands = {"SetScreenOn"}
    Faults = {}
    MaxStarts = 1
    MaxCalls = 2
    MaxUpdates = 2
INVARIANT ConnectionsBeginAnew
CHECK_DEADLOCK FALSE

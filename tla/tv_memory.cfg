SPECIFICATION Spec
CONSTANTS
    tv1 = tv1
    tv2 = tv2
    None = None
    Url = {tv1, tv2}
    Dir = {"default", "test"}
    Default = "default"
    Connection <- Connections
    Commands = {"SetScreenOn"}
    Faults = {"CreateFails", "WriteFails"}
    MaxStarts = 2
    MaxCalls = 3
    MaxUpdates = 2
INVARIANTS
    TypeOK
    DetailsAreTheAnswers
    KeptTogetherMeansOneTv
    KeysStayInTheirDirectory
    KnownTvIsNotPrompted
CHECK_DEADLOCK FALSE

SPECIFICATION Spec
CONSTANTS
    NumMetas = 3
    RpcNum = 3
    Paced = TRUE
    Workers <- TwoAndOne
    SlotBits = 2
    Segments = 4
    Versions = 2
    MaxCalls = 3
    Touched = {2, 4}
    Aged = TRUE
    QuietReuse = TRUE
INVARIANTS
    TypeOK
    ServersKnowEachOther
    UpdatesKept
    FindsAreCurrent
    LiveInodesFound
    FreshIds
PROPERTY
    UpAndAnswering
CHECK_DEADLOCK FALSE

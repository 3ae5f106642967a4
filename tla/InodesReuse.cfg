SPECIFICATION Spec
CONSTANTS
    NumMetas = 2
    RpcNum = 3
    Paced = TRUE
    Workers <- TwoAndOne
    SlotBits = 2
    Segments = 4
    Versions = 2
    MaxCalls = 2
    Touched = {2, 4}
    Aged = TRUE
    QuietReuse = FALSE
INVARIANT
    FreshIds
CHECK_DEADLOCK FALSE

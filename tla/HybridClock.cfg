SPECIFICATION Spec
CONSTANTS
    NumMetas = 2
    Threads = {th1, th2}
    Clients = {c1, c2}
    LogicalRange = 2
    MaxNow = 1
    MaxRequests = 2
    MaxLogs = 2
INVARIANTS
    TypeOK
    VersionsUnique
    CausalOrder
PROPERTIES
    ClockNeverGoesBack
SYMMETRY Symmetry
CHECK_DEADLOCK FALSE

SPECIFICATION Spec
CONSTANTS
    Writers = {w1, w2}
    Capacity = 4
    MaxCont = 1
    MaxHead = 3
    SyncBatch = 2
    StallRounds = 5
    TimelyWriters = FALSE
INVARIANT
    OnlyOrphansSkipped

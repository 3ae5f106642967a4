SPECIFICATION FairSpec
CONSTANTS
    Writers = {w1, w2}
    Capacity = 4
    MaxCont = 1
    MaxHead = 3
    SyncBatch = 2
    StallRounds = 2
    TimelyWriters = TRUE
INVARIANTS
    TypeOK
    RingWindow
    ReplayedOnceInOrder
    ReplayReadsWholeRecord
    AckedNeverLost
PROPERTIES
    AckedBecomesDurable

SPECIFICATION FairSpec
CONSTANTS
    Servers = {1, 2}
    Threads = {1}
    Names = {1, 2}
    RecLen <- MCRecLen
    ChunkSize = 2
    PageRecs = 1
    CachePages = 1
    History <- MCHistory
    MaxOps = 1
    Undisturbed = TRUE
INVARIANTS
    TypeOK
    PagesCurrent
    ListingExact
PROPERTIES
    ListingEnds
    StagingEmpties
CHECK_DEADLOCK FALSE

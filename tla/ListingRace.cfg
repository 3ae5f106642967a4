SPECIFICATION Spec
CONSTANTS
    Servers = {1, 2}
    Threads = {1}
    Names = {1, 2}
    RecLen <- MCRecLen
    ChunkSize = 2
    PageRecs = 1
    CachePages = 1
    History <- MCHistory
    MaxOps = 0
    Undisturbed = FALSE
INVARIANTS
    CollectionCovers
CHECK_DEADLOCK FALSE

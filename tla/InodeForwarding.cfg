SPECIFICATION Spec
CONSTANTS
    m0 = m0
    m1 = m1
    root = root
    dir = dir
    file = file
    Metas <- MCMetas
    Dirs <- MCDirs
    Files <- MCFiles
    RootInode = root
    Owner <- MCOwner
    Page <- MCPage
    Modes = {1}
    RemoteCapacity = 2
    DeferredLimit = 8
    BatchFloor = 1
    BatchInitial = 2
    BatchCeil = 2
    MaxOps = 3
INVARIANTS
    TypeOK
    ForwardedExactlyOnce
    ForwardedInLogOrder
PROPERTIES
    ForwardedEventuallyApplied
    ShutdownDrains
CHECK_DEADLOCK FALSE

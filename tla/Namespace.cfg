SPECIFICATION Spec
CONSTANTS
    t1 = t1
    t2 = t2
    Threads = {t1, t2}
    Names <- MCNames
    Menu <- MCMenu
    MaxId = 6
    MaxFull = 1
    Offsets = {0, 1}
    MaxOpen = 2
    MaxPath = 3
    MaxCalls = 4
SYMMETRY MCSymmetry
INVARIANTS
    EntriesLive
    LinksCounted
    LogTellsNames
    AnswersTrue
    SizesRight
    DescriptorsKept
    LocksExclude
CHECK_DEADLOCK FALSE

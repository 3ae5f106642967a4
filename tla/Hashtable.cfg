SPECIFICATION Spec
CONSTANTS
    ta = ta
    tb = tb
    tc = tc
    Servers = {0, 1}
    Threads = {ta, tb, tc}
    ServerOf <- MCServerOf
    Keys = {1, 2, 3, 4, 5, 6, 7, 8, 9}
    Vals = {"x", "y"}
    H1 <- MCH1
    H2 <- MCH2
    BottomSize = 2
    LastRegion = 2
    Slots = 1
    Versions = 128
    NoKey = 0
    NoVal = "none"
    TimelyHolders = TRUE
    Preloads <- MCPreloads
    Quiesced = TRUE
INVARIANTS
    TypeOK
    AnswersJustified
    NothingLeftBehind
    LocksHaveOneHolder
    CallsNeverAllWait

PROPERTIES
    RefinesMap
CHECK_DEADLOCK FALSE

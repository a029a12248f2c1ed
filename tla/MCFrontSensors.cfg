SPECIFICATION FairSpec
CONSTANTS
    HalfWord = 4
    Sides <- OneSide
    Echoes = {2, 9}
    Ranges = {6}
    UltraStale = 3
    TofStale = 2
    Retry = 4
    InitDelay = 1
    Delays = {1}
    AgeCap = 8
INVARIANTS TypeOK OutlierRejected ValidExactWithinWrap
PROPERTIES SearchesSpaced SearchedAgain

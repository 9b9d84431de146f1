CONSTANTS
    None = None
    Ids = {1, 2, 3}
    Asked = {0, 1, 2, 3}
    MaxLimit = 2
    MaxStamp = 2
    MaxLikes = 2
    MaxWrites = 2
    MaxShown = 7
SPECIFICATION FairSpec
INVARIANTS
    TypeOK
    SteadyShownOnce
    OffsetGapsAndRepeats
    RestWhole
PROPERTIES
    AgainOnlyFallen
    EveryWalkEnds
CHECK_DEADLOCK FALSE

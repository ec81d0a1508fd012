SPECIFICATION CanSpec

CONSTANTS
    DrainLimit = 1
    RxCap = 3
    MaxAsks = 3
    MaxOther = 1
    Sensors <- MCSensors
    MaxFrames = 2
    OtherRequests <- MCOther
    Levels = {"low", "mid", "high"}
    Lc2 = {850}
    FcGiven = TRUE

INVARIANTS
    TypeOK
    OnlyTheLimitDrops
    LogIsNewest
    ScanIsTrue

PROPERTIES
    
    ServesInOrder

\* The bus falls silent at the bounds.
CHECK_DEADLOCK FALSE

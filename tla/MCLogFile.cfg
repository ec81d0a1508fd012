\* With and without a log, by counter and by date, with opens that fail and writes
\* that fail or get partly through.
SPECIFICATION FairSpec
CONSTANTS
    Options <- MCOptions
    OpenMayFail = TRUE
    WriteMayFail = TRUE
    WildReturn = TRUE
    MaxNow = 1
    MaxRestarts = 1
    MaxRows = 2
    MaxBoots = 2
CHECK_DEADLOCK FALSE
INVARIANTS
    TypeOK
    HupNotLost
    HeaderFirst
    FaultsExplained
PROPERTIES
    AppendOnly
    LogPromise
    HupServed

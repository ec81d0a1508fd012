\* fopen() returns NULL.
SPECIFICATION Spec
CONSTANTS
    Options <- MCWithLog
    OpenMayFail = TRUE
    WriteMayFail = FALSE
    WildReturn = FALSE
    MaxNow = 1
    MaxRestarts = 2
    MaxRows = 3
    MaxBoots = 1
CHECK_DEADLOCK FALSE
INVARIANT NoFault

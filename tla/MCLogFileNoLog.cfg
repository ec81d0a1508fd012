\* LOGRST to a process without --output-file.
SPECIFICATION Spec
CONSTANTS
    Options <- MCNoLog
    OpenMayFail = FALSE
    WriteMayFail = FALSE
    WildReturn = FALSE
    MaxNow = 1
    MaxRestarts = 2
    MaxRows = 3
    MaxBoots = 1
CHECK_DEADLOCK FALSE
INVARIANT NoFault

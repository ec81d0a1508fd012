SPECIFICATION PartsSpec

CONSTANTS
    Pids <- MCPids
    BigRaw = 1048576
    CmdSize = 4
    BufSize = 9
    VoltageAt = {2, 3}
    MaxCmds = 3
    MaxPieces = 9
    MaxRuns = 2
    Second = 2
    TIME_JUMP_DETECT = 1
    LOG_INTERVAL = 1
    GPX_INTERVAL = 9
    ClockOffset = 0
    Words = {8, 1000}
    Start = {11}
    GpsSeconds = {7, 8, 12}
    Steps = {3}
    MaxTicks = 10
    MaxSets = 1
    MaxPath = 6

INVARIANTS
    PackStaysInBuffer
    SentFieldsArrive
    ReadingWithinOneStep
    EachRunNests
    CleanRunsAreWhole
    SilenceBounded
    InsertKeepsParts

PROPERTIES
    InputsOfOneCommand
    NewestCommandHeld
    JumpSeenOnce
    NoJumpWithinLog

\* The front controls, the GPX file, the clocks and the names stop at their bounds.
CHECK_DEADLOCK FALSE

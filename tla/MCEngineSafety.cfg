\* Sleepy Pi board and LC-2, and ignition box, no GPS time.
SPECIFICATION Spec
CONSTANTS
    RUNNING_RPM = 900
    STOPPED_RPM = 500
    Rpm = {0, 500, 900, 901}
    Lc2Delay = 2
    GpsOffset = 0
    GpsTimes = {0}
    Lc2Given = TRUE
    SleepyGiven = TRUE
    IgnitechGiven = TRUE
    GpsTimeGiven = FALSE
    MaxMono = 5
INVARIANTS
    EngineBitMatchesStart
    ManualHoldsPin
    O2DelayHonoured
    ServedInPass
PROPERTIES
    KillSwitchWins
    O2Promise

\* Sleepy Pi board, LC-2 and GPS time: liveness under the loop's scheduling.
SPECIFICATION FairSpec
CONSTANTS
    RUNNING_RPM = 900
    STOPPED_RPM = 500
    Rpm = {0, 900, 901}
    Lc2Delay = 1
    GpsOffset = 1
    GpsTimes = {3}
    Lc2Given = TRUE
    SleepyGiven = TRUE
    IgnitechGiven = FALSE
    GpsTimeGiven = TRUE
    MaxMono = 3
INVARIANTS
    PoweredOnlyWhileRunning
PROPERTIES
    O2EventuallyOn
    KillStopsEngine
    QuitCutsPower

\* A GPS synchronisation while the sensor waits for its delay.
SPECIFICATION Spec
CONSTANTS
    RUNNING_RPM = 900
    STOPPED_RPM = 500
    Rpm = {0, 900, 901}
    Lc2Delay = 2
    GpsOffset = 1
    GpsTimes = {6}
    Lc2Given = TRUE
    SleepyGiven = TRUE
    IgnitechGiven = FALSE
    GpsTimeGiven = TRUE
    MaxMono = 3
INVARIANT O2DelayHonoured

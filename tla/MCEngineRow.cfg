\* One start of the engine.
SPECIFICATION Spec
CONSTANTS
    RUNNING_RPM = 900
    STOPPED_RPM = 500
    Rpm = {0, 901}
    Lc2Delay = 1
    GpsOffset = 1
    GpsTimes = {}
    Lc2Given = TRUE
    SleepyGiven = TRUE
    IgnitechGiven = FALSE
    GpsTimeGiven = FALSE
    MaxMono = 1
INVARIANT RowShowsEngineState

------------------------- MODULE EngineControl -------------------------
(***************************************************************************)
(* The decision part of the main loop (main.cpp): one pass reads the       *)
(* sensors, the front controls, the dashboard and the CAN bus, decides     *)
(* whether the engine runs, powers the LC-2 sensor, carries out the        *)
(* dashboard's command, tells the front controls and may set the clock     *)
(* from GPS.  The process is one thread; seconds, signals, crashes and the *)
(* restart by systemd come between any two of its steps.                   *)
(*                                                                         *)
(* mono, since, driven, owed and refused are history variables: they       *)
(* record what happened and no step of the program reads them.             *)
(***************************************************************************)
EXTENDS Integers

CONSTANTS
    RUNNING_RPM, STOPPED_RPM,   \* definitions.h thresholds
    Rpm,                        \* engine speeds the sources may report
    Lc2Delay,                   \* --lc2-delay, seconds
    GpsOffset,                  \* --gps-t-offset, seconds
    GpsTimes,                   \* times a GPS frame may carry
    Lc2Given, SleepyGiven, IgnitechGiven, GpsTimeGiven,   \* options given
    MaxMono                     \* bound: seconds the model lets pass

ASSUME RpmAssumption ==
    /\ Rpm \subseteq Int
    /\ 0 \in Rpm
    /\ RUNNING_RPM \in Int
    /\ STOPPED_RPM \in Nat
    /\ STOPPED_RPM < RUNNING_RPM
ASSUME TimeAssumption ==
    /\ Lc2Delay \in Int
    /\ GpsOffset \in Nat
    /\ GpsTimes \subseteq Nat
    /\ MaxMono \in Nat
ASSUME OptionAssumption ==
    /\ Lc2Given \in BOOLEAN /\ SleepyGiven \in BOOLEAN
    /\ IgnitechGiven \in BOOLEAN /\ GpsTimeGiven \in BOOLEAN

ENGINE_RUNNING == "ENGINE_RUNNING"      \* the flag of serialCmdA the code uses
CmdA      == SUBSET {ENGINE_RUNNING}
Command   == {"TRPRST", "LOGRST", "O2MANON", "O2MANOFF"}
SystemCmd == Command \cup {"NO_CMD"}
IgnStatus == {"IGN_SUC", "IGN_AGAIN", "IGN_ERR"}
Level     == {"LOW", "HIGH"}
LoopPc    == {"head", "i2c", "fc", "dash", "can", "poll", "decide",
              "command", "send", "stamp", "sync", "log"}
Pc        == LoopPc \cup {"exited", "crashed"}

VARIABLES
    pc,                  \* next step of the pass
    time_to_quit,        \* set by the signal handler
    enData_rpm,          \* last good reading of the I2C board
    ign_status, ign_rpm, \* what the ignition library reports
    kill_on,             \* kill switch in the RUN position
    serialCmdA,          \* flags sent to the front controls
    log_engineRunning,   \* log_data.engineRunning, the logged column
    start_running_time,  \* wall second the engine started, 0 when stopped
    o2_manual,           \* sensor held on by the rider
    db_from_cmd,         \* command read from the dashboard
    en_to_cmd,           \* command byte for the I2C board, 0 if none
    gpstime,             \* last GPS time received
    currtime,            \* the pass's last stamp, 0 before it is taken
    wall,                \* CLOCK_REALTIME, seconds
    pin,                 \* GPIO level, outlives the process
    fc_told,             \* flags the front controls last received
    mono,                \* seconds since boot
    since,               \* value of mono when start_running_time was set
    driven,              \* this process has written the pin
    owed,                \* command read and not yet carried out
    refused              \* ... since the I2C board did not take its byte

clocks  == <<wall, mono, currtime>>
inputs  == <<enData_rpm, ign_status, ign_rpm, kill_on, gpstime>>
engine  == <<serialCmdA, start_running_time, since, log_engineRunning>>
sensor  == <<pin, driven, o2_manual>>
cmds    == <<db_from_cmd, en_to_cmd, owed, refused>>
vars    == <<pc, time_to_quit, clocks, inputs, engine, sensor, cmds, fc_told>>
----------------------------------------------------------------------------
\* main() up to the loop: every static and local starts from its default.
FreshProcess ==
    /\ pc = "head"
    /\ time_to_quit = FALSE
    /\ enData_rpm = 0 /\ ign_status = "IGN_ERR" /\ ign_rpm = 0
    /\ kill_on = FALSE /\ gpstime = 0 /\ currtime = 0
    /\ serialCmdA = {} /\ start_running_time = 0 /\ since = 0
    /\ log_engineRunning = FALSE
    /\ o2_manual = FALSE /\ driven = FALSE
    /\ db_from_cmd = "NO_CMD" /\ en_to_cmd = "0" /\ owed = "NO_CMD" /\ refused = FALSE

Init ==
    /\ FreshProcess
    /\ wall = 1 /\ mono = 0
    /\ pin = "LOW" /\ fc_told = {}

\* The same for the process systemd starts in place of a dead one.
StartProcess ==
    /\ pc' = "head"
    /\ time_to_quit' = FALSE
    /\ enData_rpm' = 0 /\ ign_status' = "IGN_ERR" /\ ign_rpm' = 0
    /\ kill_on' = FALSE /\ gpstime' = 0 /\ currtime' = 0
    /\ serialCmdA' = {} /\ start_running_time' = 0 /\ since' = 0
    /\ log_engineRunning' = FALSE
    /\ o2_manual' = FALSE /\ driven' = FALSE
    /\ db_from_cmd' = "NO_CMD" /\ en_to_cmd' = "0" /\ owed' = "NO_CMD" /\ refused' = FALSE

Goto(from, to) == pc = from /\ pc' = to
WritePin(level) == pin' = level /\ driven' = TRUE
----------------------------------------------------------------------------
(* Reading the inputs.                                                     *)

\* Mutant: the exit path leaves the pin alone.
ExitKeepsPin == UNCHANGED <<pin, driven>>

ExitPin == IF Lc2Given THEN WritePin("LOW") ELSE UNCHANGED <<pin, driven>>

\* while (!time_to_quit): begin a pass, or leave and drop the pin.
BeginPass ==
    /\ ~time_to_quit
    /\ Goto("head", "i2c")
    /\ UNCHANGED <<time_to_quit, clocks, inputs, engine, sensor, cmds, fc_told>>

Exit ==
    /\ time_to_quit
    /\ Goto("head", "exited")
    /\ ExitPin
    /\ UNCHANGED <<time_to_quit, clocks, inputs, engine, o2_manual, cmds, fc_told>>

\* A short I2C read leaves enData as it was.
ReadI2C ==
    /\ Goto("i2c", "fc")
    /\ \/ SleepyGiven /\ enData_rpm' \in Rpm
       \/ UNCHANGED enData_rpm
    /\ UNCHANGED <<time_to_quit, clocks, ign_status, ign_rpm, kill_on, gpstime,
                   engine, sensor, cmds, fc_told>>

\* A frame of the front controls may carry either position of the switch.
ReadFrontControls ==
    /\ Goto("fc", "dash")
    /\ \/ kill_on' \in BOOLEAN
       \/ UNCHANGED kill_on
    /\ UNCHANGED <<time_to_quit, clocks, enData_rpm, ign_status, ign_rpm, gpstime,
                   engine, sensor, cmds, fc_told>>

\* dashboard.Read(): a command, NO_CMD for any other text or a hang-up;
\* nothing happens when select() did not report the client.
ReadDashboard ==
    /\ Goto("dash", "can")
    /\ \/ \E cmd \in SystemCmd :
            /\ db_from_cmd' = cmd
            /\ owed' = IF cmd = "NO_CMD" THEN owed ELSE cmd
            /\ refused' = IF cmd = "NO_CMD" THEN refused ELSE FALSE
       \/ UNCHANGED <<db_from_cmd, owed, refused>>
    /\ UNCHANGED <<time_to_quit, clocks, inputs, engine, sensor, en_to_cmd, fc_told>>

\* The CAN frames that matter here: front controls and GPS time.
ReadCan ==
    /\ Goto("can", "poll")
    /\ \/ kill_on' \in BOOLEAN /\ UNCHANGED gpstime
       \/ gpstime' \in GpsTimes /\ UNCHANGED kill_on
       \/ UNCHANGED <<kill_on, gpstime>>
    /\ UNCHANGED <<time_to_quit, clocks, enData_rpm, ign_status, ign_rpm,
                   engine, sensor, cmds, fc_told>>

\* The last of the pass's three read_async() calls fixes what the decision sees.
PollIgnitech ==
    /\ Goto("poll", "decide")
    /\ IF IgnitechGiven
       THEN ign_status' \in IgnStatus /\ ign_rpm' \in Rpm
       ELSE UNCHANGED <<ign_status, ign_rpm>>
    /\ UNCHANGED <<time_to_quit, clocks, enData_rpm, kill_on, gpstime,
                   engine, sensor, cmds, fc_told>>
----------------------------------------------------------------------------
(* The decision.                                                           *)

\* Mutant: the kill switch is not consulted.
MyRpmIgnoringKill ==
    IF IgnitechGiven /\ ign_status \in {"IGN_SUC", "IGN_AGAIN"}
    THEN ign_rpm ELSE enData_rpm

my_rpm ==
    IF ~kill_on THEN 0
    ELSE IF IgnitechGiven /\ ign_status \in {"IGN_SUC", "IGN_AGAIN"}
         THEN ign_rpm
         ELSE enData_rpm

\* Mutant: every pass restarts the count.
EngineStartEveryPass == start_running_time' = wall /\ since' = mono

EngineStart ==
    IF start_running_time = 0
    THEN start_running_time' = wall /\ since' = mono
    ELSE UNCHANGED <<start_running_time, since>>

\* Mutant: >= powers the sensor one second early.
PowerDueEarly == wall - start_running_time' >= Lc2Delay

PowerDue == wall - start_running_time' > Lc2Delay

DecideRunning ==
    /\ Goto("decide", "command")
    /\ my_rpm > RUNNING_RPM
    /\ serialCmdA' = serialCmdA \cup {ENGINE_RUNNING}
    /\ EngineStart
    /\ IF Lc2Given /\ PowerDue THEN WritePin("HIGH") ELSE UNCHANGED <<pin, driven>>
    /\ UNCHANGED <<time_to_quit, clocks, inputs, log_engineRunning, o2_manual,
                   cmds, fc_told>>

\* Mutants: stopping forgets the start time; the pin drops whatever the rider
\* asked for; the pin is left alone.
ClearStartForgotten == UNCHANGED start_running_time
DropPinAlways == IF Lc2Given THEN WritePin("LOW") ELSE UNCHANGED <<pin, driven>>
DropPinNever  == UNCHANGED <<pin, driven>>

ClearStart == start_running_time' = 0
DropPinUnlessManual ==
    IF Lc2Given /\ ~o2_manual THEN WritePin("LOW") ELSE UNCHANGED <<pin, driven>>

DecideStopped ==
    /\ Goto("decide", "command")
    /\ my_rpm <= STOPPED_RPM
    /\ serialCmdA' = serialCmdA \ {ENGINE_RUNNING}
    /\ ClearStart
    /\ DropPinUnlessManual
    /\ UNCHANGED <<time_to_quit, clocks, inputs, log_engineRunning, since,
                   o2_manual, cmds, fc_told>>

\* Between the thresholds nothing changes.
DecideBetween ==
    /\ Goto("decide", "command")
    /\ STOPPED_RPM < my_rpm /\ my_rpm <= RUNNING_RPM
    /\ UNCHANGED <<time_to_quit, clocks, inputs, engine, sensor, cmds, fc_told>>
----------------------------------------------------------------------------
(* The dashboard's command, one action per branch.                         *)

CommandLogRst ==
    /\ Goto("command", "send")
    /\ db_from_cmd = "LOGRST"
    /\ db_from_cmd' = "NO_CMD" /\ owed' = "NO_CMD"
    /\ UNCHANGED <<time_to_quit, clocks, inputs, engine, sensor, en_to_cmd, refused,
                   fc_told>>

CommandTrpRst ==
    /\ Goto("command", "send")
    /\ db_from_cmd = "TRPRST"
    /\ en_to_cmd' = "T"
    /\ db_from_cmd' = "NO_CMD"
    /\ UNCHANGED <<time_to_quit, clocks, inputs, engine, sensor, owed, refused,
                   fc_told>>

CommandO2ManOn ==
    /\ Goto("command", "send")
    /\ Lc2Given /\ db_from_cmd = "O2MANON"
    /\ WritePin("HIGH")
    /\ o2_manual' = TRUE
    /\ db_from_cmd' = "NO_CMD" /\ owed' = "NO_CMD"
    /\ UNCHANGED <<time_to_quit, clocks, inputs, engine, en_to_cmd, refused, fc_told>>

CommandO2ManOff ==
    /\ Goto("command", "send")
    /\ Lc2Given /\ db_from_cmd = "O2MANOFF"
    /\ WritePin("LOW")
    /\ o2_manual' = FALSE
    /\ db_from_cmd' = "NO_CMD" /\ owed' = "NO_CMD"
    /\ UNCHANGED <<time_to_quit, clocks, inputs, engine, en_to_cmd, refused, fc_told>>

\* No command, or one for a sensor that is not configured: it stays pending.
CommandNone ==
    /\ Goto("command", "send")
    /\ db_from_cmd \notin {"LOGRST", "TRPRST"}
    /\ Lc2Given => db_from_cmd = "NO_CMD"
    /\ UNCHANGED <<time_to_quit, clocks, inputs, engine, sensor, cmds, fc_told>>
----------------------------------------------------------------------------
(* Sending, the GPS clock and the log row.                                 *)

\* en_to_cmd is written once and cleared whatever write() returns: on fd -1 it
\* always fails, and the board may not answer.  The front controls hear serialCmdA
\* by serial line or by CAN when they are writable.
CommandTaken == owed' = "NO_CMD" /\ UNCHANGED refused
CommandRefused == refused' = TRUE /\ UNCHANGED owed

\* Mutant: the byte goes out only if select() found something writable.
WriteEnCmdIfWritable ==
    /\ en_to_cmd' = "0"
    /\ \/ en_to_cmd = "T" /\ SleepyGiven /\ CommandTaken
       \/ UNCHANGED <<owed, refused>>

WriteEnCmd ==
    /\ en_to_cmd' = "0"
    /\ IF en_to_cmd = "T" /\ SleepyGiven
       THEN CommandTaken \/ CommandRefused
       ELSE UNCHANGED <<owed, refused>>

Send ==
    /\ Goto("send", "stamp")
    /\ WriteEnCmd
    /\ fc_told' \in {fc_told, serialCmdA}
    /\ UNCHANGED <<time_to_quit, clocks, inputs, engine, sensor, db_from_cmd>>

\* gettimeofday(): what the GPS time is compared with and the row is dated by.
Stamp ==
    /\ Goto("stamp", "sync")
    /\ currtime' = wall
    /\ UNCHANGED <<time_to_quit, wall, mono, inputs, engine, sensor, cmds, fc_told>>

GpsAhead == gpstime > currtime /\ gpstime - currtime > GpsOffset

\* The clock is set to the frame's time however long ago the stamp was taken, so
\* a stall between the two may put it back.  clock_settime() may fail: no
\* privilege, or the tv_nsec nobody set is invalid.
SyncClock ==
    /\ Goto("sync", "log")
    /\ \/ GpsTimeGiven /\ GpsAhead /\ wall' = gpstime
       \/ UNCHANGED wall
    /\ UNCHANGED <<time_to_quit, mono, currtime, inputs, engine, sensor, cmds, fc_told>>

\* The row reads the state and changes none of it; the stamp ends with the pass.
LogRow ==
    /\ Goto("log", "head")
    /\ currtime' = 0
    /\ UNCHANGED <<time_to_quit, wall, mono, inputs, engine, sensor, cmds, fc_told>>
----------------------------------------------------------------------------
(* The environment.                                                        *)

Tick ==
    /\ mono < MaxMono
    /\ mono' = mono + 1 /\ wall' = wall + 1
    /\ UNCHANGED <<pc, time_to_quit, currtime, inputs, engine, sensor, cmds, fc_told>>

\* SIGINT or SIGTERM.
SignalHandler ==
    /\ pc \in LoopPc /\ ~time_to_quit
    /\ time_to_quit' = TRUE
    /\ UNCHANGED <<pc, clocks, inputs, engine, sensor, cmds, fc_told>>

\* The process dies without running its exit path; the GPIO keeps its level.
Crash ==
    /\ pc \in LoopPc
    /\ pc' = "crashed"
    /\ UNCHANGED <<time_to_quit, clocks, inputs, engine, sensor, cmds, fc_told>>

\* systemd: Restart=always.
Restart ==
    /\ pc \in {"exited", "crashed"}
    /\ StartProcess
    /\ UNCHANGED <<wall, mono, pin, fc_told>>
----------------------------------------------------------------------------
LoopStep ==
    \/ BeginPass \/ Exit
    \/ ReadI2C \/ ReadFrontControls \/ ReadDashboard \/ ReadCan \/ PollIgnitech
    \/ DecideRunning \/ DecideStopped \/ DecideBetween
    \/ CommandLogRst \/ CommandTrpRst \/ CommandO2ManOn \/ CommandO2ManOff
    \/ CommandNone
    \/ Send \/ Stamp \/ SyncClock \/ LogRow

Environment == Tick \/ SignalHandler \/ Crash \/ Restart

Next == LoopStep \/ Environment

Spec == Init /\ [][Next]_vars

\* The kernel schedules the only thread, time passes, and systemd restarts it.
Fairness == WF_vars(LoopStep) /\ WF_vars(Tick) /\ WF_vars(Restart)

FairSpec == Spec /\ Fairness
----------------------------------------------------------------------------
(* Properties.                                                             *)

\* Types and ranges; no stamp is later than the clock reads, although the clock
\* may be set back: the engine's start is stamped before the stamp GPS is compared
\* with.
TypeOK ==
    /\ pc \in Pc
    /\ time_to_quit \in BOOLEAN
    /\ enData_rpm \in Rpm /\ ign_rpm \in Rpm /\ ign_status \in IgnStatus
    /\ kill_on \in BOOLEAN
    /\ serialCmdA \in CmdA /\ fc_told \in CmdA
    /\ log_engineRunning \in BOOLEAN
    /\ wall \in Nat \ {0} /\ mono \in 0..MaxMono
    /\ currtime \in 0..wall
    /\ pc = "sync" => start_running_time <= currtime
    /\ start_running_time \in 0..wall /\ since \in 0..mono
    /\ o2_manual \in BOOLEAN /\ driven \in BOOLEAN
    /\ pin \in Level
    /\ db_from_cmd \in SystemCmd /\ owed \in SystemCmd
    /\ refused \in BOOLEAN
    /\ en_to_cmd \in {"0", "T"}
    /\ gpstime \in Nat

\* The flag sent to the front controls and the sentinel start_running_time are
\* kept by different branches of the decision and never disagree, across
\* crashes and restarts too.
EngineBitMatchesStart ==
    ENGINE_RUNNING \in serialCmdA <=> start_running_time # 0

\* A sensor switched on by hand keeps its power whatever the engine does, until
\* the rider switches it off or the process ends.
ManualHoldsPin ==
    o2_manual /\ pc # "exited" => pin = "HIGH"

\* A pin this process raised without the rider's word belongs to an engine
\* that is running now (the pin may otherwise only be one a dead process left).
PoweredOnlyWhileRunning ==
    pin = "HIGH" /\ driven /\ ~o2_manual => start_running_time # 0

\* ... and that engine has by then really been running longer than the delay.
\* The program measures the delay on the wall clock, so the clock must not
\* have been set meanwhile.
O2DelayHonoured ==
    pin = "HIGH" /\ driven /\ ~o2_manual => mono - since > Lc2Delay

\* Every command read from the dashboard has taken effect before the next pass
\* begins, unless the device it is for was not configured, or the I2C board did
\* not take the byte of a trip reset: that one is neither tried again nor reported.
ServedInPass ==
    pc = "head" =>
        \/ owed = "NO_CMD"
        \/ ~Lc2Given /\ owed \in {"O2MANON", "O2MANOFF"}
        \/ owed = "TRPRST" /\ (~SleepyGiven \/ refused)

\* The row that is logged says what the program believes of the engine.
RowShowsEngineState ==
    pc = "log" => (log_engineRunning <=> ENGINE_RUNNING \in serialCmdA)

\* The front controls are never newly told that the engine runs in a pass
\* that found the kill switch off.
KillSwitchWins ==
    [][(ENGINE_RUNNING \in (fc_told' \ fc_told)) => kill_on]_vars

\* The whole life of the sensor's supply, through crashes and restarts, is one
\* the abstract supply allows.
O2 == INSTANCE O2Power WITH
        running   <- ENGINE_RUNNING \in serialCmdA,
        manual    <- o2_manual,
        inherited <- pin = "HIGH" /\ ~driven
O2Promise == O2!Spec

Alive == pc \in LoopPc /\ ~time_to_quit
SeesEngineRunning == pc = "decide" => my_rpm > RUNNING_RPM

\* While the process lives and every pass sees the engine running, the sensor
\* gets its power (the left side leaves the model enough seconds for it).
O2EventuallyOn ==
    (/\ ENGINE_RUNNING \in serialCmdA /\ Lc2Given /\ mono + Lc2Delay < MaxMono
     /\ [](Alive /\ SeesEngineRunning))
    ~> pin = "HIGH"

\* A kill switch that stays off ends, for good, in a stopped engine without
\* sensor power (or with the rider's), also for a pin an earlier process left high.
KillStopsEngine ==
    <>[](Alive /\ ~kill_on)
        => <>[](/\ ENGINE_RUNNING \notin serialCmdA
                /\ Lc2Given => pin = "LOW" \/ o2_manual)

\* A signal to quit cuts the sensor's power unless the process dies first.
QuitCutsPower ==
    time_to_quit /\ Lc2Given ~> pin = "LOW" \/ pc = "crashed"
=============================================================================

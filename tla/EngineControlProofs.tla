---------------------- MODULE EngineControlProofs ----------------------
(***************************************************************************)
(* What TLC checks of EngineControl on small instances, proved for every   *)
(* value of its constants.                                                 *)
(***************************************************************************)
EXTENDS EngineControl, TLAPS

----------------------------------------------------------------------------
\* Types are kept by every step of main.cpp's loop and of its environment.
THEOREM TypeCorrect == Spec => []TypeOK
<1> USE RpmAssumption, TimeAssumption, OptionAssumption
<1>1. Init => TypeOK
  <2> SUFFICES ASSUME Init PROVE TypeOK
    OBVIOUS
  <2>1. /\ pc \in Pc /\ time_to_quit \in BOOLEAN
        /\ serialCmdA \in CmdA /\ fc_told \in CmdA
        /\ pin \in Level
        /\ db_from_cmd \in SystemCmd /\ owed \in SystemCmd /\ en_to_cmd \in {"0", "T"}
        /\ refused \in BOOLEAN
    BY DEF Init, FreshProcess, Pc, LoopPc, CmdA, SystemCmd, Level
  <2>2. /\ enData_rpm \in Rpm /\ ign_rpm \in Rpm /\ ign_status \in IgnStatus
        /\ wall \in Nat \ {0} /\ mono \in 0..MaxMono
        /\ start_running_time \in 0..wall /\ since \in 0..mono
        /\ currtime \in 0..wall /\ pc # "sync"
    BY DEF Init, FreshProcess, IgnStatus
  <2> QED
    BY <2>1, <2>2 DEF Init, FreshProcess, TypeOK
<1>2. TypeOK /\ [Next]_vars => TypeOK'
  <2> SUFFICES ASSUME TypeOK, [Next]_vars PROVE TypeOK'
    OBVIOUS
  <2> USE DEF TypeOK, Pc, LoopPc, IgnStatus, CmdA, Command, SystemCmd, Level, Goto, WritePin,
              clocks, inputs, engine, sensor, cmds
  <2>1. CASE BeginPass
    BY <2>1 DEF BeginPass
  <2>2. CASE Exit
    <3>1. pin' \in Level /\ driven' \in BOOLEAN
      BY <2>2 DEF Exit, ExitPin
    <3> QED
      BY <2>2, <3>1 DEF Exit
  <2>3. CASE ReadI2C
    BY <2>3 DEF ReadI2C
  <2>4. CASE ReadFrontControls
    BY <2>4 DEF ReadFrontControls
  <2>5. CASE ReadDashboard
    <3>1. db_from_cmd' \in SystemCmd /\ owed' \in SystemCmd
      BY <2>5 DEF ReadDashboard
    <3>2. refused' \in BOOLEAN
      <4>1. refused \in BOOLEAN
        BY DEF TypeOK
      <4>2. refused' = refused \/ refused' = FALSE
        BY <2>5, Zenon DEF ReadDashboard
      <4> QED
        BY <4>1, <4>2
    <3> QED
      BY <2>5, <3>1, <3>2 DEF ReadDashboard
  <2>6. CASE ReadCan
    <3>1. kill_on' \in BOOLEAN /\ gpstime' \in Nat
      BY <2>6 DEF ReadCan
    <3> QED
      BY <2>6, <3>1 DEF ReadCan
  <2>7. CASE PollIgnitech
    BY <2>7 DEF PollIgnitech
  <2>8. CASE DecideRunning
    <3>1. start_running_time' \in 0..wall /\ since' \in 0..mono
      BY <2>8 DEF DecideRunning, EngineStart
    <3>2. pin' \in Level /\ driven' \in BOOLEAN
      BY <2>8 DEF DecideRunning
    <3> QED
      BY <2>8, <3>1, <3>2 DEF DecideRunning
  <2>9. CASE DecideStopped
    <3>1. pin' \in Level /\ driven' \in BOOLEAN
      BY <2>9 DEF DecideStopped, DropPinUnlessManual
    <3> QED
      BY <2>9, <3>1 DEF DecideStopped, ClearStart
  <2>10. CASE DecideBetween
    BY <2>10 DEF DecideBetween
  <2>11. CASE CommandLogRst
    BY <2>11 DEF CommandLogRst
  <2>12. CASE CommandTrpRst
    BY <2>12 DEF CommandTrpRst
  <2>13. CASE CommandO2ManOn
    BY <2>13 DEF CommandO2ManOn
  <2>14. CASE CommandO2ManOff
    BY <2>14 DEF CommandO2ManOff
  <2>15. CASE CommandNone
    BY <2>15 DEF CommandNone
  <2>16. CASE Send
    <3>1. owed' \in SystemCmd /\ refused' \in BOOLEAN /\ en_to_cmd' \in {"0", "T"}
      BY <2>16 DEF Send, WriteEnCmd, CommandTaken, CommandRefused
    <3> QED
      BY <2>16, <3>1 DEF Send
  <2>17. CASE SyncClock
    <3>1. /\ wall' \in Nat \ {0} /\ wall' >= currtime
          /\ start_running_time <= wall' /\ UNCHANGED <<currtime, start_running_time>>
      BY <2>17 DEF SyncClock, GpsAhead
    <3>2. currtime' \in 0..wall' /\ start_running_time' \in 0..wall'
      BY <3>1
    <3>3. pc' = "log"
      BY <2>17 DEF SyncClock
    <3> HIDE DEF TypeOK
    <3>4. /\ time_to_quit \in BOOLEAN /\ serialCmdA \in CmdA /\ fc_told \in CmdA
          /\ enData_rpm \in Rpm /\ ign_rpm \in Rpm /\ ign_status \in IgnStatus
          /\ kill_on \in BOOLEAN /\ log_engineRunning \in BOOLEAN
          /\ mono \in 0..MaxMono /\ since \in 0..mono
          /\ o2_manual \in BOOLEAN /\ driven \in BOOLEAN /\ pin \in Level
          /\ db_from_cmd \in SystemCmd /\ owed \in SystemCmd /\ refused \in BOOLEAN
          /\ en_to_cmd \in {"0", "T"} /\ gpstime \in Nat
      BY DEF TypeOK
    <3>5. UNCHANGED <<time_to_quit, serialCmdA, fc_told, enData_rpm, ign_rpm, ign_status,
                      kill_on, log_engineRunning, mono, since>>
          /\ UNCHANGED <<o2_manual, driven, pin, db_from_cmd, owed, refused, en_to_cmd, gpstime>>
      BY <2>17 DEF SyncClock
    <3> QED
      BY <3>1, <3>2, <3>3, <3>4, <3>5 DEF TypeOK
  <2>18. CASE LogRow
    BY <2>18 DEF LogRow
  <2>24. CASE Stamp
    BY <2>24 DEF Stamp
  <2>19. CASE Tick
    BY <2>19 DEF Tick
  <2>20. CASE SignalHandler
    BY <2>20 DEF SignalHandler
  <2>21. CASE Crash
    BY <2>21 DEF Crash
  <2>22. CASE Restart
    <3>1. /\ pc' \in Pc /\ time_to_quit' \in BOOLEAN
          /\ serialCmdA' \in CmdA /\ fc_told' \in CmdA
          /\ pin' \in Level /\ db_from_cmd' \in SystemCmd
          /\ owed' \in SystemCmd /\ refused' \in BOOLEAN /\ en_to_cmd' \in {"0", "T"}
      BY <2>22 DEF Restart, StartProcess
    <3>2. /\ enData_rpm' \in Rpm /\ ign_rpm' \in Rpm /\ ign_status' \in IgnStatus
          /\ wall' \in Nat \ {0} /\ mono' \in 0..MaxMono
          /\ start_running_time' \in 0..wall' /\ since' \in 0..mono'
          /\ currtime' \in 0..wall' /\ pc' # "sync"
      BY <2>22 DEF Restart, StartProcess
    <3> QED
      BY <2>22, <3>1, <3>2 DEF Restart, StartProcess
  <2>23. CASE UNCHANGED vars
    BY <2>23 DEF vars
  <2> QED
    BY <2>1, <2>2, <2>3, <2>4, <2>5, <2>6, <2>7, <2>8, <2>9, <2>10, <2>11, <2>12,
       <2>13, <2>14, <2>15, <2>16, <2>17, <2>18, <2>19, <2>20, <2>21, <2>22, <2>23, <2>24
       DEF Next, LoopStep, Environment
<1> QED
  BY <1>1, <1>2, PTL DEF Spec
----------------------------------------------------------------------------
(* Most steps leave the engine's state and the sensor alone.  Sorting the  *)
(* steps once keeps the proofs below to the six that do not.               *)

ClockStep ==
    \/ UNCHANGED <<wall, mono>>
    \/ mono' = mono + 1 /\ wall' = wall + 1
    \/ GpsTimeGiven /\ UNCHANGED mono

QuietStep ==
    /\ UNCHANGED <<engine, sensor>>
    /\ pc' = "exited" <=> pc = "exited"
    /\ ClockStep

\* A step of main.cpp is quiet or one of the six that touch engine or sensor.
LEMMA StepKinds ==
    ASSUME [Next]_vars
    PROVE  QuietStep \/ Exit \/ DecideRunning \/ DecideStopped
             \/ CommandO2ManOn \/ CommandO2ManOff \/ Restart
<1> USE DEF QuietStep, ClockStep, Goto, clocks
<1>1. CASE BeginPass \/ ReadI2C \/ ReadFrontControls \/ ReadDashboard
  BY <1>1 DEF BeginPass, ReadI2C, ReadFrontControls, ReadDashboard
<1>2. CASE ReadCan \/ PollIgnitech \/ DecideBetween
  BY <1>2 DEF ReadCan, PollIgnitech, DecideBetween
<1>3. CASE CommandLogRst \/ CommandTrpRst \/ CommandNone
  BY <1>3 DEF CommandLogRst, CommandTrpRst, CommandNone
<1>4. CASE Send \/ Stamp \/ SyncClock \/ LogRow
  BY <1>4 DEF Send, Stamp, SyncClock, LogRow
<1>5. CASE Tick \/ SignalHandler \/ Crash
  BY <1>5 DEF Tick, SignalHandler, Crash, LoopPc
<1>6. CASE UNCHANGED vars
  BY <1>6 DEF vars
<1> QED
  BY <1>1, <1>2, <1>3, <1>4, <1>5, <1>6 DEF Next, LoopStep, Environment
----------------------------------------------------------------------------
\* Without --lc2 nobody ever writes the pin or holds the sensor by hand.
UnconfiguredPin == ~Lc2Given => pin = "LOW" /\ ~o2_manual

SensorInv ==
    /\ EngineBitMatchesStart
    /\ ManualHoldsPin
    /\ PoweredOnlyWhileRunning
    /\ UnconfiguredPin

LEMMA SensorInit == Init => SensorInv
  BY DEF Init, FreshProcess, SensorInv, EngineBitMatchesStart, ManualHoldsPin,
         PoweredOnlyWhileRunning, UnconfiguredPin

LEMMA SensorStep ==
    ASSUME TypeOK, SensorInv, [Next]_vars
    PROVE  SensorInv'
<1> USE DEF SensorInv, EngineBitMatchesStart, ManualHoldsPin,
            PoweredOnlyWhileRunning, UnconfiguredPin, Goto, WritePin
<1>1. CASE QuietStep
  BY <1>1 DEF QuietStep, engine, sensor
<1>2. CASE Exit
  BY <1>2 DEF Exit, ExitPin, engine
<1>3. CASE DecideRunning
  <2>1. start_running_time' # 0
    BY <1>3 DEF DecideRunning, EngineStart, TypeOK
  <2>2. ENGINE_RUNNING \in serialCmdA'
    BY <1>3 DEF DecideRunning
  <2>3. UNCHANGED o2_manual /\ pc' # "exited" /\ pc # "exited"
    BY <1>3 DEF DecideRunning
  <2>4. /\ pin = "HIGH" => pin' = "HIGH"
        /\ ~Lc2Given => UNCHANGED pin
    BY <1>3 DEF DecideRunning
  <2> QED
    BY <2>1, <2>2, <2>3, <2>4
<1>4. CASE DecideStopped
  <2>1. start_running_time' = 0 /\ ENGINE_RUNNING \notin serialCmdA'
    BY <1>4 DEF DecideStopped, ClearStart
  <2>2. UNCHANGED o2_manual /\ pc # "exited"
    BY <1>4 DEF DecideStopped
  <2>3. IF Lc2Given /\ ~o2_manual THEN pin' = "LOW" ELSE UNCHANGED <<pin, driven>>
    BY <1>4 DEF DecideStopped, DropPinUnlessManual
  <2>4. ManualHoldsPin'
    BY <2>2, <2>3
  <2>5. PoweredOnlyWhileRunning'
    BY <2>2, <2>3, OptionAssumption
  <2>6. UnconfiguredPin'
    BY <2>2, <2>3
  <2> QED
    BY <2>1, <2>4, <2>5, <2>6
<1>5. CASE CommandO2ManOn
  BY <1>5 DEF CommandO2ManOn, engine
<1>6. CASE CommandO2ManOff
  BY <1>6 DEF CommandO2ManOff, engine
<1>7. CASE Restart
  BY <1>7 DEF Restart, StartProcess
<1> QED
  BY <1>1, <1>2, <1>3, <1>4, <1>5, <1>6, <1>7, StepKinds

\* The flag, the start time, the rider's hold and the pin agree in every
\* reachable state, through stops, commands, crashes and restarts.
THEOREM SensorSafe ==
    Spec => [](EngineBitMatchesStart /\ ManualHoldsPin /\ PoweredOnlyWhileRunning)
<1>1. SensorInv => EngineBitMatchesStart /\ ManualHoldsPin /\ PoweredOnlyWhileRunning
  BY DEF SensorInv
<1>2. TypeOK /\ SensorInv /\ [Next]_vars => SensorInv'
  BY SensorStep
<1> QED
  BY <1>1, <1>2, SensorInit, TypeCorrect, PTL DEF Spec

LEMMA SensorInvariant == Spec => []SensorInv
<1>1. TypeOK /\ SensorInv /\ [Next]_vars => SensorInv'
  BY SensorStep
<1> QED
  BY <1>1, SensorInit, TypeCorrect, PTL DEF Spec
----------------------------------------------------------------------------
(* The delay.  Only the GPS synchronisation can pull wall and mono apart.  *)

DelayInv ==
    ~GpsTimeGiven =>
        /\ wall = mono + 1
        /\ start_running_time # 0 => start_running_time = since + 1
        /\ O2DelayHonoured

\* Two clocks that run at a constant distance measure the same time.
LEMMA SameOffset ==
    ASSUME NEW m \in Int, NEW w, NEW s \in Int, NEW t, NEW d \in Int,
           w = m + 1, t = s + 1, w - t > d
    PROVE  m - s > d
  OBVIOUS

LEMMA DelayStep ==
    ASSUME TypeOK, SensorInv, DelayInv, [Next]_vars
    PROVE  DelayInv'
<1> SUFFICES ASSUME ~GpsTimeGiven PROVE DelayInv'
  BY DEF DelayInv
<1> USE DEF DelayInv, O2DelayHonoured, Goto, WritePin, TypeOK
<1> USE TimeAssumption
<1>1. CASE QuietStep
  BY <1>1 DEF QuietStep, ClockStep, engine, sensor, clocks
<1>2. CASE Exit
  BY <1>2 DEF Exit, ExitPin, engine, clocks
<1>3. CASE DecideRunning
  <2>1. UNCHANGED <<wall, mono, o2_manual>>
    BY <1>3 DEF DecideRunning, clocks
  <2>2. start_running_time' = since' + 1
    BY <1>3 DEF DecideRunning, EngineStart
  <2>3. start_running_time # 0 => since' = since
    BY <1>3 DEF DecideRunning, EngineStart
  <2>4. CASE Lc2Given /\ PowerDue
    <3>1. wall' - start_running_time' > Lc2Delay
      BY <2>1, <2>4 DEF PowerDue
    <3>2. since' \in Int
      BY <1>3 DEF DecideRunning, EngineStart
    <3>3. wall' = mono' + 1 /\ mono' \in Int
      BY <2>1
    <3>4. mono' - since' > Lc2Delay
      BY <2>2, <3>1, <3>2, <3>3, SameOffset
    <3> QED
      BY <2>2, <3>3, <3>4
  <2>5. CASE ~(Lc2Given /\ PowerDue)
    <3>1. UNCHANGED <<pin, driven>>
      BY <1>3, <2>5 DEF DecideRunning
    <3>2. pin = "HIGH" /\ driven /\ ~o2_manual => start_running_time # 0
      BY DEF SensorInv, PoweredOnlyWhileRunning
    <3> QED
      BY <2>1, <2>2, <2>3, <3>1, <3>2
  <2> QED
    BY <2>4, <2>5
<1>4. CASE DecideStopped
  <2>1. UNCHANGED <<wall, mono, since, o2_manual>> /\ start_running_time' = 0
    BY <1>4 DEF DecideStopped, ClearStart, clocks
  <2>2. pin' = "HIGH" /\ driven' => UNCHANGED <<pin, driven>>
    BY <1>4 DEF DecideStopped, DropPinUnlessManual
  <2> QED
    BY <2>1, <2>2
<1>5. CASE CommandO2ManOn
  BY <1>5 DEF CommandO2ManOn, engine, clocks
<1>6. CASE CommandO2ManOff
  BY <1>6 DEF CommandO2ManOff, engine, clocks
<1>7. CASE Restart
  BY <1>7 DEF Restart, StartProcess, clocks
<1> QED
  BY <1>1, <1>2, <1>3, <1>4, <1>5, <1>6, <1>7, StepKinds

\* Unless the clock is set from GPS, the LC-2 is powered only when the engine
\* has really been running longer than --lc2-delay.
THEOREM DelayHonoured == Spec /\ ~GpsTimeGiven => []O2DelayHonoured
<1>1. Init => DelayInv
  BY DEF Init, FreshProcess, DelayInv, O2DelayHonoured
<1>2. TypeOK /\ SensorInv /\ DelayInv /\ [Next]_vars => DelayInv'
  BY DelayStep
<1>3. Spec => []DelayInv
  BY <1>1, <1>2, TypeCorrect, SensorInvariant, PTL DEF Spec
<1>4. ASSUME ~GpsTimeGiven PROVE DelayInv => O2DelayHonoured
  BY <1>4 DEF DelayInv
<1>5. CASE GpsTimeGiven
  BY <1>5
<1>6. CASE ~GpsTimeGiven
  <2>1. DelayInv => O2DelayHonoured
    BY <1>4, <1>6
  <2> QED
    BY <1>3, <2>1, PTL
<1> QED
  BY <1>5, <1>6
----------------------------------------------------------------------------
(* The kill switch.                                                        *)

\* Between the decision and the sending the flag implies the switch is on.
KillInv ==
    pc \in {"command", "send"} /\ ENGINE_RUNNING \in serialCmdA => kill_on

LEMMA KillStep ==
    ASSUME TypeOK, KillInv, [Next]_vars
    PROVE  KillInv'
<1> USE DEF KillInv, Goto
<1>1. CASE BeginPass \/ ReadI2C \/ ReadFrontControls \/ ReadDashboard
  BY <1>1 DEF BeginPass, ReadI2C, ReadFrontControls, ReadDashboard
<1>2. CASE ReadCan \/ PollIgnitech \/ Exit
  BY <1>2 DEF ReadCan, PollIgnitech, Exit
<1>3. CASE DecideRunning
  <2>1. my_rpm # 0
    BY <1>3, RpmAssumption DEF DecideRunning
  <2>2. kill_on
    BY <2>1 DEF my_rpm
  <2> QED
    BY <1>3, <2>2 DEF DecideRunning, inputs
<1>4. CASE DecideStopped
  BY <1>4 DEF DecideStopped
<1>5. CASE DecideBetween
  <2>1. my_rpm # 0
    BY <1>5, RpmAssumption DEF DecideBetween
  <2> QED
    BY <1>5, <2>1 DEF DecideBetween, my_rpm, inputs
<1>6. CASE CommandLogRst \/ CommandTrpRst \/ CommandNone
  BY <1>6 DEF CommandLogRst, CommandTrpRst, CommandNone, engine, inputs
<1>7. CASE CommandO2ManOn \/ CommandO2ManOff
  BY <1>7 DEF CommandO2ManOn, CommandO2ManOff, engine, inputs
<1>8. CASE Send \/ Stamp \/ SyncClock \/ LogRow
  BY <1>8 DEF Send, Stamp, SyncClock, LogRow
<1>9. CASE Tick \/ SignalHandler \/ Crash \/ Restart
  BY <1>9 DEF Tick, SignalHandler, Crash, Restart, StartProcess, engine, inputs
<1>10. CASE UNCHANGED vars
  BY <1>10 DEF vars, engine, inputs
<1> QED
  BY <1>1, <1>2, <1>3, <1>4, <1>5, <1>6, <1>7, <1>8, <1>9, <1>10
     DEF Next, LoopStep, Environment

LEMMA FlagSentOnlyBySend ==
    ASSUME [Next]_vars, fc_told' # fc_told
    PROVE  Send
<1>1. ~UNCHANGED vars
  BY DEF vars
<1>2. ~(BeginPass \/ Exit \/ ReadI2C \/ ReadFrontControls \/ ReadDashboard \/ ReadCan)
  BY DEF BeginPass, Exit, ReadI2C, ReadFrontControls, ReadDashboard, ReadCan
<1>3. ~(PollIgnitech \/ DecideRunning \/ DecideStopped \/ DecideBetween)
  BY DEF PollIgnitech, DecideRunning, DecideStopped, DecideBetween
<1>4. ~(CommandLogRst \/ CommandTrpRst \/ CommandNone)
  BY DEF CommandLogRst, CommandTrpRst, CommandNone
<1>5. ~(CommandO2ManOn \/ CommandO2ManOff \/ Stamp \/ SyncClock \/ LogRow)
  BY DEF CommandO2ManOn, CommandO2ManOff, Stamp, SyncClock, LogRow
<1>6. ~(Tick \/ SignalHandler \/ Crash \/ Restart)
  BY DEF Tick, SignalHandler, Crash, Restart
<1> QED
  BY <1>1, <1>2, <1>3, <1>4, <1>5, <1>6 DEF Next, LoopStep, Environment

\* In no step of any behaviour do the front controls learn that the engine
\* runs while the kill switch was read as off.
THEOREM KillSwitchTheorem == Spec => KillSwitchWins
<1>1. Init => KillInv
  BY DEF Init, FreshProcess, KillInv
<1>2. TypeOK /\ KillInv /\ [Next]_vars => KillInv'
  BY KillStep
<1>3. Spec => []KillInv
  BY <1>1, <1>2, TypeCorrect, PTL DEF Spec
<1>4. ASSUME KillInv, [Next]_vars
      PROVE  [(ENGINE_RUNNING \in (fc_told' \ fc_told)) => kill_on]_vars
  <2> SUFFICES ASSUME ENGINE_RUNNING \in (fc_told' \ fc_told) PROVE kill_on
    OBVIOUS
  <2>1. Send
    BY <1>4, FlagSentOnlyBySend
  <2> QED
    BY <1>4, <2>1 DEF Send, KillInv, Goto
<1> QED
  BY <1>3, <1>4, PTL DEF Spec, KillSwitchWins
----------------------------------------------------------------------------
(* EngineControl implements O2Power.                                       *)

LEMMA AbstractStep ==
    ASSUME TypeOK, SensorInv, [Next]_vars
    PROVE  [O2!Next]_(O2!vars)
<1> USE DEF Goto, WritePin, O2!Next, O2!vars, O2!RaisePin, O2!DropPin, O2!KeepPin
<1>1. CASE QuietStep
  BY <1>1 DEF QuietStep, engine, sensor
<1>2. CASE Exit
  <2>1. CASE Lc2Given
    <3>1. O2!Shutdown
      BY <1>2, <2>1 DEF Exit, ExitPin, engine, O2!Shutdown
    <3> QED
      BY <3>1
  <2>2. CASE ~Lc2Given
    BY <1>2, <2>2 DEF Exit, ExitPin, engine
  <2> QED
    BY <2>1, <2>2
<1>3. CASE DecideRunning
  <2>1. O2!Run
    BY <1>3 DEF DecideRunning, O2!Run
  <2> QED
    BY <2>1
<1>4. CASE DecideStopped
  <2>1. UNCHANGED o2_manual /\ ~(ENGINE_RUNNING \in serialCmdA')
    BY <1>4 DEF DecideStopped
  <2>2. CASE Lc2Given /\ ~o2_manual
    <3>1. pin' = "LOW" /\ driven' = TRUE
      BY <1>4, <2>2 DEF DecideStopped, DropPinUnlessManual
    <3>2. O2!Stop
      BY <2>1, <2>2, <3>1 DEF O2!Stop
    <3> QED
      BY <3>2
  <2>3. CASE ~(Lc2Given /\ ~o2_manual)
    <3>1. UNCHANGED <<pin, driven>>
      BY <1>4, <2>3 DEF DecideStopped, DropPinUnlessManual
    <3>2. ~o2_manual => pin = "LOW"
      BY <2>3, OptionAssumption DEF SensorInv, UnconfiguredPin
    <3>3. O2!Stop
      BY <2>1, <3>1, <3>2 DEF O2!Stop
    <3> QED
      BY <3>3
  <2> QED
    BY <2>2, <2>3
<1>5. CASE CommandO2ManOn
  <2>1. O2!ManualOn
    BY <1>5 DEF CommandO2ManOn, engine, O2!ManualOn
  <2> QED
    BY <2>1
<1>6. CASE CommandO2ManOff
  <2>1. O2!ManualOff
    BY <1>6 DEF CommandO2ManOff, engine, O2!ManualOff
  <2> QED
    BY <2>1
<1>7. CASE Restart
  <2>1. O2!Lose
    BY <1>7 DEF Restart, StartProcess, O2!Lose
  <2> QED
    BY <2>1
<1> QED
  BY <1>1, <1>2, <1>3, <1>4, <1>5, <1>6, <1>7, StepKinds

\* Every behaviour of the main loop, for any options, thresholds and delay, is
\* one of the abstract supply.
THEOREM Refinement == Spec => O2Promise
<1>1. Init => O2!Init
  BY DEF Init, FreshProcess, O2!Init
<1>2. TypeOK /\ SensorInv /\ [Next]_vars => [O2!Next]_(O2!vars)
  BY AbstractStep
<1> QED
  BY <1>1, <1>2, TypeCorrect, SensorInvariant, PTL DEF Spec, O2Promise, O2!Spec
----------------------------------------------------------------------------
(* Commands.                                                               *)

Served ==
    \/ owed = "NO_CMD"
    \/ ~Lc2Given /\ owed \in {"O2MANON", "O2MANOFF"}
    \/ owed = "TRPRST" /\ (~SleepyGiven \/ refused)

\* Where a command read from the dashboard is on its way through the pass.
ServedInv ==
    /\ pc \in {"head", "i2c", "fc", "dash", "stamp", "sync", "log"} => Served
    /\ pc \in {"can", "poll", "decide", "command"} => Served \/ owed = db_from_cmd
    /\ pc = "send" => Served \/ (owed = "TRPRST" /\ en_to_cmd = "T")

LEMMA ServedStep == TypeOK /\ ServedInv /\ [Next]_vars => ServedInv'
<1> SUFFICES ASSUME TypeOK, ServedInv, [Next]_vars PROVE ServedInv'
  OBVIOUS
<1> USE DEF ServedInv, Served, Goto, cmds
<1>1. CASE BeginPass \/ Exit \/ ReadI2C \/ ReadFrontControls
  BY <1>1 DEF BeginPass, Exit, ReadI2C, ReadFrontControls
<1>2. CASE ReadDashboard
  BY <1>2 DEF ReadDashboard
<1>3. CASE ReadCan \/ PollIgnitech
  BY <1>3 DEF ReadCan, PollIgnitech
<1>4. CASE DecideRunning \/ DecideStopped \/ DecideBetween
  BY <1>4 DEF DecideRunning, DecideStopped, DecideBetween
<1>5. CASE CommandLogRst \/ CommandO2ManOn \/ CommandO2ManOff
  BY <1>5 DEF CommandLogRst, CommandO2ManOn, CommandO2ManOff
<1>6. CASE CommandTrpRst
  BY <1>6 DEF CommandTrpRst
<1>7. CASE CommandNone
  BY <1>7 DEF CommandNone, TypeOK, SystemCmd, Command
<1>8. CASE Send
  BY <1>8 DEF Send, WriteEnCmd, CommandTaken, CommandRefused
<1>9. CASE Stamp \/ SyncClock \/ LogRow
  BY <1>9 DEF Stamp, SyncClock, LogRow
<1>10. CASE Tick \/ SignalHandler \/ Crash
  BY <1>10 DEF Tick, SignalHandler, Crash
<1>11. CASE Restart
  BY <1>11 DEF Restart, StartProcess
<1>12. CASE UNCHANGED vars
  BY <1>12 DEF vars
<1> QED
  BY <1>1, <1>2, <1>3, <1>4, <1>5, <1>6, <1>7, <1>8, <1>9, <1>10, <1>11, <1>12
     DEF Next, LoopStep, Environment

\* No command waits for a later pass or is lost on its way to its device, unless
\* that device was not configured, or is the I2C board and did not take the byte.
THEOREM CommandsServed == Spec => []ServedInPass
<1>1. Init => ServedInv
  BY DEF Init, FreshProcess, ServedInv, Served
<1>2. ServedInv => ServedInPass
  BY DEF ServedInv, Served, ServedInPass
<1> QED
  BY <1>1, <1>2, ServedStep, TypeCorrect, PTL DEF Spec
=============================================================================

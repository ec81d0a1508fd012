------------------------------- MODULE Clocks -------------------------------
(***************************************************************************)
(* Time in the main loop: a jump of the wall clock is looked for at the    *)
(* top of a pass and starts a new log; then the time is taken once, the    *)
(* clock is set from GPS, and a row and a point are written if enough time *)
(* has passed by that one stamp.  Others may set the clock at any step.    *)
(*                                                                         *)
(* Times are in ticks.  The wall clock and the time since boot tick        *)
(* together and differ by an offset, which only setting the clock changes. *)
(* seen, last_mono, fresh and meddled are history variables.               *)
(***************************************************************************)
EXTENDS Integers

CONSTANTS
    Second,          \* ticks in a second
    TIME_JUMP_DETECT,\* in seconds
    LOG_INTERVAL,    \* in ticks
    GPX_INTERVAL,    \* in ticks
    ClockOffset,     \* --gps-offset, in seconds
    Words,           \* builds: time_t holds microseconds up to this many ticks
    Start,           \* wall clocks the process may start with
    GpsSeconds,      \* times the GPS may show
    Steps,           \* by how much others set the clock, either way
    MaxTicks, MaxSets \* bounds: time since boot, settings by others

ASSUME ClocksAssumption ==
    /\ Second \in Nat \ {0} /\ TIME_JUMP_DETECT \in Nat \ {0}
    /\ LOG_INTERVAL \in 0 .. Second /\ GPX_INTERVAL \in Nat /\ ClockOffset \in Nat
    /\ Words \subseteq Nat \ {0} /\ Start \subseteq Nat /\ GpsSeconds \subseteq Nat
    /\ Steps \subseteq Nat /\ MaxTicks \in Nat /\ MaxSets \in Nat

Kind == {"row", "point"}

VARIABLES
    step,        \* next step of the pass
    word,        \* the width of time_t in this build
    mono, wall,  \* CLOCK_MONOTONIC, CLOCK_REALTIME
    mp, wp,      \* both when they were last compared, in seconds
    jumped,      \* the verdict
    currtime,    \* the stamp of this pass
    time_last,   \* log_time_last and gpx_time_last
    stamp_mono,  \* true time of the stamp
    last_mono,   \* true time of the last row's stamp
    seen,        \* the clocks' offset when they were last compared
    fresh,       \* the log has no row yet
    meddled      \* times others set the clock

compared  == <<mp, wp, jumped, seen>>
stamped   == <<currtime, stamp_mono>>
written   == <<time_last, last_mono, fresh>>
clockVars == <<step, word, mono, wall, compared, stamped, written, meddled>>

Abs(x)     == IF x < 0 THEN -x ELSE x
Sec(t)     == t \div Second
Interval   == [k \in Kind |-> IF k = "row" THEN LOG_INTERVAL ELSE GPX_INTERVAL]

ClocksInit ==
    /\ step = "detect" /\ word \in Words
    /\ mono = 0 /\ wall \in Start
    /\ mp = Sec(mono) /\ wp = Sec(wall) /\ jumped = FALSE /\ seen = wall - mono
    /\ currtime = wall /\ stamp_mono = mono
    /\ time_last = [k \in Kind |-> wall] /\ last_mono = mono
    /\ fresh = TRUE /\ meddled = 0

\* Mutant: the previous times are those of the start.
ForgetPrevious == UNCHANGED <<mp, wp>>

StorePrevious == mp' = Sec(mono) /\ wp' = Sec(wall)

\* detect_time_change(), in whole seconds; a jump gives the log another file.
Detect ==
    /\ step = "detect"
    /\ jumped' = (Abs((Sec(wall) - wp) - (Sec(mono) - mp)) > TIME_JUMP_DETECT)
    /\ StorePrevious
    /\ seen' = wall - mono
    /\ fresh' = (fresh \/ jumped')
    /\ step' = "stamp"
    /\ UNCHANGED <<word, mono, wall, stamped, time_last, last_mono, meddled>>

\* One stamp for the clock's comparison with GPS, the row and the point.
Stamp ==
    /\ step = "stamp"
    /\ currtime' = wall /\ stamp_mono' = mono
    /\ step' = "sync"
    /\ UNCHANGED <<word, mono, wall, compared, written, meddled>>

\* Mutant: the time is taken again once the clock is set.
StampAgain == currtime' = wall' /\ stamp_mono' = mono

KeepStamp == UNCHANGED stamped

\* Mutant: a clock that shows the second of the GPS is set as well.
ClockNotAhead(gpstime) ==
    gpstime >= Sec(currtime) /\ gpstime - Sec(currtime) >= ClockOffset

ClockBehind(gpstime) ==
    gpstime > Sec(currtime) /\ gpstime - Sec(currtime) > ClockOffset

\* tv_nsec is not initialised: the clock is set to any part of the second, or
\* the call fails.
SyncFromGps ==
    /\ step = "sync"
    /\ \/ UNCHANGED wall
       \/ \E gpstime \in GpsSeconds, frac \in 0 .. Second - 1 :
             /\ ClockBehind(gpstime)
             /\ wall' = gpstime * Second + frac
    /\ KeepStamp
    /\ step' = "row"
    /\ UNCHANGED <<word, mono, compared, written, meddled>>

\* Seconds times a million plus microseconds, in the width of time_t.
Elapsed(last) == ((currtime - last + word) % (2 * word)) - word

Due(k) == Elapsed(time_last[k]) > Interval[k]

Write(k) == time_last' = [time_last EXCEPT ![k] = currtime]

WriteRow ==
    /\ step = "row" /\ step' = "point"
    /\ IF Due("row")
       THEN Write("row") /\ last_mono' = stamp_mono /\ fresh' = FALSE
       ELSE UNCHANGED written
    /\ UNCHANGED <<word, mono, wall, compared, stamped, meddled>>

\* Without a fix there is no point.
WritePoint ==
    /\ step = "point" /\ step' = "detect"
    /\ \/ Due("point") /\ Write("point") /\ UNCHANGED <<last_mono, fresh>>
       \/ UNCHANGED written
    /\ UNCHANGED <<word, mono, wall, compared, stamped, meddled>>

TimePasses ==
    /\ mono < MaxTicks
    /\ mono' = mono + 1 /\ wall' = wall + 1
    /\ UNCHANGED <<step, word, compared, stamped, written, meddled>>

\* NTP, or someone at a terminal.
OthersSetClock ==
    /\ meddled < MaxSets
    /\ \E d \in Steps : wall' = wall + d \/ (wall >= d /\ wall' = wall - d)
    /\ meddled' = meddled + 1
    /\ UNCHANGED <<step, word, mono, compared, stamped, written>>

ClocksNext ==
    \/ Detect \/ Stamp \/ SyncFromGps \/ WriteRow \/ WritePoint
    \/ TimePasses \/ OthersSetClock

ClocksSpec == ClocksInit /\ [][ClocksNext]_clockVars
----------------------------------------------------------------------------
(* Properties.                                                             *)

\* Though both clocks are cut to seconds, the verdict is right within two
\* seconds of the limit, whatever was set since the last pass and in which part
\* of a second; and a jump is seen in the next pass, once.
JumpSeenOnce ==
    [][step = "detect" /\ step' = "stamp" =>
         LET moved == Abs((wall - mono) - seen)
         IN  /\ jumped'  => moved > (TIME_JUMP_DETECT - 1) * Second
             /\ ~jumped' => moved < (TIME_JUMP_DETECT + 2) * Second]_clockVars

\* As long as only this program sets the clock and the stamps are not so far
\* apart that time_t is too narrow, no log holds two successive rows with a jump
\* between their stamps: the row of the pass that set the clock still has the old
\* time, and the next one is in another file.  What may lie between two rows is
\* what goes undetected: forward once, and back twice, since a pass that takes
\* long before it sets the clock puts it back, and a row may be due only after
\* the second time.
NoJumpWithinLog ==
    [][time_last'["row"] # time_last["row"] /\ ~fresh /\ meddled = 0
           /\ currtime - time_last["row"] < word =>
         LET moved == (currtime - stamp_mono) - (time_last["row"] - last_mono)
             limit == (TIME_JUMP_DETECT + 2) * Second
         IN  -2 * limit < moved /\ moved < limit + LOG_INTERVAL]_clockVars

\* As long as only this program sets the clock and time_t is not too narrow, the
\* true time between a log's last row and the stamp of any later pass without one
\* is bounded: an interval, and what one setting back may hide from the comparison.
\* A second one does not add to it, as the clock then shows a second in which a row
\* is due.
SilenceBounded ==
    step = "point" /\ ~fresh /\ meddled = 0 /\ currtime - time_last["row"] < word =>
        stamp_mono - last_mono < LOG_INTERVAL + (TIME_JUMP_DETECT + 2) * Second
=============================================================================

# EngineDataLogger: specifications and proofs

EngineDataLogger runs on a motorcycle's computer. One thread polls the bike's
devices, decides whether the engine runs, powers an oxygen sensor, answers a
phone and an OBD-II scan tool, and appends rows to a CSV log and points to a GPX
track. This directory holds TLA+ modules of it, configurations that check them
with TLC, and proofs that TLAPS checks. All line numbers are those of `src/`;
file names without a directory are in `src/src/`.

Contents: [the system](#the-system), [modules](#modules-and-the-code),
[runs](#runs), [fairness](#fairness), [proofs](#proofs),
[what the models found](#what-the-models-found),
[what is left out](#what-is-not-modelled), [plan](#plan).

## The system

The process is one thread. `main()` (main.cpp:151-1178) parses options, opens
what was asked for and then loops until a signal sets `time_to_quit`. A pass of
the loop is, in order:

| step | main.cpp | touches |
|---|---|---|
| log restart, if a flag or a clock jump asks for it | 495-505 | log file |
| read the I2C board and the ignition box | 507-588 | `enData`, `ignition` |
| build the read set; open what is not open | 590-642 | descriptors |
| `select()` for at most a log interval | 644-655 | |
| read front controls, accept, read dashboard, read LC-2, drain CAN | 661-706 | `log_data`, descriptors, command |
| decide: running, stopped, or neither | 715-773 | `serialCmdA`, start time, O2 pin |
| carry out the dashboard's command | 775-805 | log, pin, `en_to_cmd` |
| gear, lambda, dashboard payload | 807-866 | `log_data` |
| second `select()`, send to I2C, front controls, dashboard, CAN | 868-954 | outputs |
| set the clock from GPS | 956-978 | `CLOCK_REALTIME` |
| CSV row, GPX point | 981-1161 | files |

After the loop the pin is dropped and the track is closed (1164-1177). The
handlers for INT/TERM and HUP (error_handling.c:61-78) only set flags, at any
time. systemd starts the process again whenever it ends
(`etc/enginedatalogger.service.in`, `Restart=always`), and what is outside the
process survives: files, the level of the GPIO pin, descriptors of others, time.

### Components

| component | state | operations | hard because | correct when | module |
|---|---|---|---|---|---|
| engine state and O2 power (main.cpp:715-805, 956-978, 1163-1170) | `serialCmdA`, `start_running_time`, `o2_manual`, pin, command, clock | decide, command, send, set clock, exit | four rpm sources, commands, two clocks, crashes that leave the pin high | flag, start time, hold and pin agree; the sensor gets power after the delay and loses it when the engine stops, whatever dies meanwhile | EngineControl, O2Power |
| data log (logfile.c) | the stream, its name, the counter, two signal flags | open, restart, write and flush a row | signals between any two steps, names that repeat, failing opens and writes, crashes with a full buffer | no signal lost, no row lost but by a failing write and none overwritten, header first, rows to the log opened last | LogFile, Journal |
| descriptors (bluetooth.cpp, main.cpp:590-706, front_controls.cpp:81, can.cpp:21) | `fd_front_controls`, `client`, `can_sock_good`, read set | open, accept, read, close, reconnect | the kernel reuses numbers, devices come and go | no device read as another, nothing leaks but a replaced connection, everything reconnects | SelectLoop |
| front-controls frames (front_controls.cpp) | switches, voltage, command bytes | `readFC` | a byte stream without framing but a newline, which the voltage may hold too | inputs are those of one command, and the newest whole one takes effect | FrontControls |
| CAN frames and the drain loop (main.cpp:689-706, can.cpp:45-186) | the kernel's queue, fields of `log_data` | drain, one case per identifier | a drain with a limit, a queue that overflows, 16-bit fields, fields that the LC-2 and `readFC()` write too | nothing is dropped but at the limit; a field is of its sensor's newest frame or of what another device wrote since | CanBus |
| OBD-II responder (can.cpp:188-) | none; what a scan tool learns is in its answers | one answer per request | a chain of ranges of PIDs, words left unset | what is announced is answered; answers show the reading; requests are served in order | CanBus, RequestLine |
| signal packing (fc.c, gps.c, imu_can.c, ignitech_can.c, obd2.c) | the struct and the bytes | pack, unpack, encode, decode, range | shifts, signs, truncation, nested switches | what is packed arrives, inside the buffer | Signals, Conversions, Obd2Layout, Obd2Units, DeviceLayout, Codec |
| GPX writer (gpx.cpp) | open, in a point, in extensions | start, extension, end, close | calls in any order, a crash before the footer, returns from `main()` before it | tags nest; a run that reaches the loop leaves a whole document unless it crashes | Gpx |
| clock jumps and rates (main.cpp:125-149, 481-484, 957-993, 1144-1149) | previous times, the stamp of the pass | compare, stamp, set, write if due | whole seconds, the width of `time_t`, a clock that the loop itself sets | a jump is seen once and splits the log; rows do not stop for longer than an interval and what goes undetected | Clocks |
| names (logfile.c:24-146) | none | insert before the extension | dots in directories, hidden files | the text lands in the last component, before its extensions | PathInsert |
| row contents, gear, power (main.cpp:807-866, 979-1140, powercalc.cpp) | `gear`, `lambda`, trip | per pass | values from different passes | a row is of one pass | not modelled |

Components talk through one `bike_data` record and a few locals; there are no
locks and no threads. What interleaves with the loop is the environment: the
signal handlers, the devices, the phone, the clocks, crashes and restarts. That
is where every model below puts its nondeterminism.

The hazards, each at its line and with the properties aimed at it, are listed in
`PROJECT.json`. Those without a property say why.

## Modules and the code

### O2Power and EngineControl

`O2Power` is what the program promises about the sensor's supply, with neither
clocks nor passes: raised for a running engine or by hand, dropped when the
engine stops unless held by hand, otherwise high only because a dead process
left it so.

`EngineControl` is the loop, one action per step of the table above: five reads
(`ReadI2C`, `ReadFrontControls`, `ReadDashboard`, `ReadCan`, `PollIgnitech`), the
three outcomes of the decision, one action per branch of the command, `Send`,
`Stamp`, `SyncClock`, `LogRow`, and `BeginPass` or `Exit` at the top. Inputs are
drawn from small sets: any speed of `Rpm`, either position of the kill switch,
any command. `StartProcess` is `main()` up to the loop and resets every static.
`wall` is `CLOCK_REALTIME` in seconds, `mono` time since boot; both tick
together, and only `SyncClock` pulls them apart. It compares the GPS time with
`currtime`, the stamp taken a step before (main.cpp:957), so a stall between the
two may put the clock back. Seconds, signals, crashes and restarts fall between
any two steps.

`serialCmdA` is the set of its flags in use. `owed`, `refused`,
`since` and `driven` are history: the command read and not carried out, whether
the I2C board did not take its byte (the result of `write()` is ignored,
main.cpp:891), the true time the engine started, and whether this process has
written the pin.

### Journal, LogFile and MCLogFile

`Journal` is what the rider may rely on: named files that only grow, a header
before the first row of each unless a write failed while it was empty
(`headless`), rows only to the file opened last, and after a
SIGHUP no more than the row of the pass under way before the log is opened
again. It knows no buffer, flag, option or program counter. A process that dies
takes the request with it, not the files.

`LogFile` implements it (`LogPromise`). The files and the name are mapped to
themselves; a SIGHUP waits (`Waits`) only where there is a log; and the row it
must still let through (`Spare`) is the one of a pass that is past its test of
the flag (`PastCheck`), also on the way through a restart by LOGRST.

A file is a sequence of `"H"` (the header), `"R"` (a row) and `"cut"` (part of
one). `disk` is what has reached it and `buf` what stdio holds, so a crash can
lose the header, which `log_open()` does not flush (logfile.c:166-167), but no
row (main.cpp:1135). `FlushTo` is every flush: of a row, of `fclose()`, and at
the exit. It may fail, or get through the first entries and part of the next
(`Written`); stdio drops the rest, and `main()` only prints an error
(main.cpp:1136-1138). What was dropped may be the header, and then the next row
opens the file. The log is taken to be a regular file. The returns from `main()`
between `log_open()` and the loop (main.cpp:352, 400, 416, 425, 430) are, to the
file, an exit in the first pass, which `Exit` allows.
Names are values: the original, the original with the restart counter, or with a
second of the clock. They repeat between processes, and dates within a second,
as in the code. `log_restart()` is split where it can fail or be interrupted
(`CloseLog`, `ReopenLog`), and main's test and clearing of the flag are steps of
their own (`Check`, `Clear`), so that a signal can come between them.

Two outcomes are left to the build: `log_insert_str()` has no `return`
(logfile.c:52-61), so its caller gets the name or a wild pointer
(`WildReturn`); and an uninitialised stream is taken to fault when closed.

### SelectLoop

The kernel's table maps numbers to objects: nothing, the front controls of one
plugging, or one connection of the phone. `open()` and `accept()` take the
lowest free number. `Select` builds the set, tries to open what is missing and
returns any set of readable descriptors that contains those that must be
readable; `ReadFC`, `Accept` and `ReadDashboard` then look at that set with the
descriptors they find at that time. The CAN socket's number never changes, so
only whether it is bound is kept. `reported`, `overlapped` and `can_lost` are
history variables.

Abstracted: what bytes say, the LC-2's port (opened the same way, never
closed), and `FD_ISSET` of the number -1, which is taken as not set.

### Signals, Conversions and the layouts

The five generated message files are 5,600 lines of shifts and 7,800 of
headers. Each signal is two facts: where its bits lie, and how a physical value
becomes its number. `Signals` has the first: a value is the set of its bits that
are 1, a signal a width, a start and a byte order, and `Put` and `Get` are what
the pairs of shift and mask do. No number is needed, so 32-bit fields cost no
more than switches. `Conversions` has the second, in integers, a quarter of a
step being the unit: truncation towards zero, a value out of the type's range
(undefined in C: any of three outcomes), and a scale such as 0.1 that is no
binary fraction and may lose one step more.

`Obd2Layout` and `DeviceLayout` list the signals twice, as the code does: once
from each `pack` and once from each `unpack`, which switch on service and PID
through one arm of more than a hundred. `Obd2Units` lists conversions, and the
ranges that the header's comments document. None of these has state.

### Codec

One message on its way: `Fill` a struct with raw words of the documented range
or with encoded values, `Pack`, `Unpack` into a struct on the stack that holds
old words, `Leave`. `pack` chooses its arm from the struct, `unpack` from the
bytes it has just read. A buffer too small is refused. `Narrow` names the two
fields that the header documents wider than they are sent, `response` and
`mode`; the code truncates them.

### FrontControls

The device sends commands of eight bytes with a newline last; `SendBytes` and
`FcRead` cut that stream into any portions. `ReadPortion` is `readFC()` after
its `read()`: it looks back from the end of the portion for a newline and takes
the eight bytes that end there. The search begins one byte behind the portion
(front_controls.cpp:44), so `junk` is the choice whether the stack holds a
newline there (`stray`). `newlines` is where each command's voltage holds one.
`held` is the first byte of the command in force.

### CanBus and RequestLine

A frame is a sensor's, with the raw value of lambda, or a request. Between two
drains `StoreLc2` writes lambda (main.cpp:831-836) and `ReadFC` what the serial
front controls send (front_controls.cpp:61-79) over the same fields; `over`
remembers, for each field, the frames that had left the socket by then.
`SendSensor`, `AskOther` and `Scan` put frames into the socket's queue, which holds
`RxCap`. `StartDrain`, `Parse` and `ReadNext` are the loop of main.cpp:689-706,
with its order: parse, read the next, count, and only then look at the limit.
`StoreSensor` is `can_parse()`; `Process` is `obd2_process()` with every mode and
PID it has a case for, each answer a set of the fields that were set and the
readings they were set from. A response whose word nobody set (PIDs 0x80 and
0xA0, the voltage of 0x24) lacks that field. A failing `write()` gives
`NoAnswer`, and a request shorter than eight bytes any mode and PID, as the stack
may hold any (can.cpp:192). The engine's readings that other components produce
are three levels, chosen anew in each pass; lambda is followed from the frame or
from the LC-2 (`lc2`).

`RequestLine` is what a tester may count on: a queue from which requests are
taken at the front, answered once at most, and for ever waiting never. CanBus
implements it with `line` mapped to the requests in the socket and in hand.

### Gpx

The writer as a machine over pieces of XML: `Initialize`, `StartTrkPt`,
`AddExtension`, `EndTrkPt`, `AddTrkPt`, in any order, which is more than main()
asks, and `Close`. `EnterLoop` divides a run: before it `Abandon` may end it, the
errors that make `main()` return without `close()` (main.cpp:352, 400, 416, 425,
430) and leave the bare header. `Flush` moves any part of the buffer to the file,
and `Crash` loses the rest. The file is opened for appending, so the next run
goes on behind what a crash, or such a return, left. Writes are taken to succeed.

### Clocks

The parts of a pass that read or set a clock: `Detect` (`detect_time_change()`
and the new log it asks for), `Stamp` (the one `gettimeofday()` of
main.cpp:957), `SyncFromGps`, `WriteRow`, `WritePoint`. Times are in ticks of a
fraction of a second, because the code mixes seconds, cut off, with
microseconds. `word` is what `time_t` holds in microseconds, 2147 seconds where
it has 32 bits (README.md names a Raspberry Pi Zero) and for ever where it has
64; elapsed times wrap there. `clock_settime()` gets a `tv_nsec` nobody set: any
part of a second, or a failure. EngineControl has the same clock in whole
seconds, for the sensor's delay.

### PathInsert

`prep_path_insert` and `copyout` over all short paths of slashes, dots and other
characters.

## Runs

`tlc -config <cfg> <module>`. Runs that end in a violation show a disagreement
between the code and what its texts say; see below.

| run | module, cfg | checks |
|---|---|---|
| engine_safety | EngineControl, MCEngineSafety | `EngineBitMatchesStart`, `ManualHoldsPin`, `O2DelayHonoured`, `ServedInPass`, `KillSwitchWins`; refinement of O2Power (`O2Promise`) |
| engine_live | EngineControl, MCEngineLive | `PoweredOnlyWhileRunning`, `O2EventuallyOn`, `KillStopsEngine`, `QuitCutsPower` |
| engine_gps_delay | EngineControl, MCEngineGpsDelay | `O2DelayHonoured` violated |
| engine_row | EngineControl, MCEngineRow | `RowShowsEngineState` violated |
| log_file | MCLogFile, MCLogFile | types; `HupNotLost`, `HeaderFirst`, `FaultsExplained`, `AppendOnly`, `HupServed`; refinement of Journal (`LogPromise`) |
| log_not_configured, log_open_fails | MCLogFile, MCLogFileNoLog, MCLogFileOpenFails | `NoFault` violated |
| select_loop | SelectLoop, MCSelectLoop | `HeldRight`, `NoLeak`, `FcReconnects`, `HangUpNoticed`, `CommandRead`, `CanConnects` |
| select_stale | SelectLoop, MCSelectStale | `DashboardReadWasReported` violated |
| select_can | SelectLoop, MCSelectCan | `CanReconnects` violated |
| can_bus | MCCanBus, MCCanBus | types; `OnlyTheLimitDrops`, `LogIsNewest`, `ScanIsTrue`, `AnswerShowsReading`; refinement of RequestLine (`ServesInOrder`) |
| parts | MCParts, MCParts | Codec: `PackStaysInBuffer`, `SentFieldsArrive`, `ReadingWithinOneStep`; FrontControls: `InputsOfOneCommand`, `NewestCommandHeld`; Gpx: `EachRunNests`, `CleanRunsAreWhole`; Clocks: `JumpSeenOnce`, `NoJumpWithinLog`, `SilenceBounded`; PathInsert: `InsertKeepsParts` |

The run `parts` checks five modules that share no state. `MCParts` chooses one at
the start and leaves the others as they are, so its states are the sum of
theirs, not the product.

Bounds, and why they are enough:

- `Rpm` has a value on each side of and on each threshold (0, 500, 900, 901);
  the decision compares with nothing else. `MaxMono` exceeds the delay by
  enough seconds for a start, the delay, a stop and a second start.
- In the liveness run `GpsTimes` is {3}: ahead of the clock at the start and
  passed before the end, so that the clock is set forward or, after a stall,
  back. A setting leaves it more than `GpsOffset` ahead of the stamp, so of the
  engine's start; with an offset no smaller than the delay, the delay then is
  over, and no setting back makes `O2EventuallyOn` wait for seconds beyond the
  bound. GPS makes the state space grow, so this run has one rpm source and the
  safety run no GPS.
- Two processes and one reopening each, more where a SIGHUP comes while the log
  is being reopened, let every name recur in a second process. Two entries before
  rows stop leave room for a header that fails with its row, a row that then
  heads the file, and the header and row of another opening behind it.
  `MaxNow = 1` has both the same and a different second; it passes only where
  dates are in the names. When the bounds are used up the process may be down
  for good, so deadlock is not checked there.
- Two connections and two pluggings give the reuse of a number by the other
  kind of device in both directions, and a leak. Two numbers are enough for the
  port and one connection, so a leaked connection and a held one leave none for
  the port: the exception of `FcReconnects` (`LeakFillsTable`) occurs. One waiting
  command is enough, as `Read()` takes all that has arrived.
- CanBus: a limit of 1 in place of 100 lets the limit be reached, and frames be
  lost, within three; the argument for any limit is proved. Three requests are
  what the scan tool's chain needs (0x00, 0x20, 0x40); the first of them may be
  any other request, two sensor frames may come between, and the socket holds
  three frames, so it overflows. One value of the LC-2 is enough, as it differs
  from the frame's. The other requests are of each kind there is, and the one
  that is cut short is taken for every PID.
- Codec: every message, and every PID with an arm or next to one. Of the words
  zero, one, the highest bit and all bits; of the physical values the first two
  steps, the middle and the last, each on the step and a quarter, a half and
  three quarters behind it. `BigRaw` caps the last one where the type has 32
  bits and TLC's integers end.
- FrontControls: commands of four bytes, two of them voltage, and portions of up
  to nine. Nine is two commands and a byte, as much as the code can tell apart,
  since it looks for one newline; the proofs are for any sizes.
- Gpx: nine pieces and two runs: a point with an extension, a crash after any of
  its pieces, and a document behind it. Proved for any number.
- Clocks: with two ticks to a second, cutting both clocks off errs by up to one;
  a setting of three ticks by others is just beyond the limit of one second. GPS
  seconds 7 and 8 come right after the second of the start and let a pass that
  stalls between stamp and setting put the clock back, twice within ten ticks; 12
  is far ahead and exceeds the narrow `word` of 8, which the wide one of 1000
  never is. A setting back by such a stall, with the rows it delays, fits within
  the ticks, which is what `SilenceBounded` is about. Points are kept rare. Any
  lengths, times and widths are proved.
- PathInsert: six characters hold a directory, a hidden file and two extensions.

Of EngineControl and SelectLoop no run lists the types, and of LogFile none lists
`CounterNamesFresh`: they are proved. The
invariants that the proofs below add were first checked by TLC on the same
instances.

Beside each property `PROJECT.json` names a mutant: a changed definition, kept
in the module above the real one, under which the same run finds the property
violated.

## Fairness

- The loop: `WF(LoopStep)`. It is the only thread, no step waits for another
  process (all descriptors are non-blocking and `select()` has a timeout,
  main.cpp:644-652), and the kernel schedules it.
- `EngineControl` adds `WF(Tick)`, time passes, and `WF(Restart)`, systemd's
  `Restart=always`.
- `SelectLoop` adds `SF(Select)`: not every `select()` is interrupted by a
  signal. Without it, a signal in every pass would keep the handlers from running.
- Nothing is assumed of devices, the phone, signals or crashes. The liveness
  properties therefore are conditional: front controls that stay plugged in are
  connected unless leaked connections leave no number, a CAN interface that stays
  is bound, a kill switch that stays off cuts the sensor.
- `LogFile` has only the loop's fairness, and `HupServed` allows that the
  process goes down first.
- `CanBus` has the loop's: `WF(LoopStep)`, where a step of the drain is always
  possible, as the socket does not block. RequestLine's `WF(Take)` follows.
- Codec, FrontControls, Gpx, Clocks and PathInsert state safety only.

## Proofs

`tlapm <module>`. The proofs hold for every value of the constants that
satisfies the named assumptions: any thresholds with `STOPPED_RPM <
RUNNING_RPM`, any delay, options and number of processes, restarts, rows,
descriptors, connections and pluggings. None of these assumptions restricts the
code beyond what definitions.h and the option parser give.

### EngineControlProofs

- `TypeCorrect`: types, and that a start is never stamped in the future.
- `SensorSafe`: `EngineBitMatchesStart`, `ManualHoldsPin` and
  `PoweredOnlyWhileRunning` hold together. Their conjunction is not inductive:
  the branches for an LC-2 that was not configured skip the pin. `SensorInv`
  adds `UnconfiguredPin`, that the pin then is low and never held by hand.
  `StepKinds` first sorts the steps, so that six are looked at and the rest
  leave engine and sensor alone.
- `DelayHonoured`: without `--gps-time` the sensor is never powered early.
  `DelayInv` relates the two clocks: they are a constant apart, so the start
  stamped on one gives the start on the other. With `--gps-time` it is false,
  which engine_gps_delay shows.
- `KillSwitchTheorem`: the step property `KillSwitchWins`. `KillInv` says that
  between decision and sending the flag implies the switch; only `Send` changes
  what the front controls were told (`FlagSentOnlyBySend`).
- `CommandsServed`: `ServedInPass` alone is not inductive; `ServedInv` says where
  a command is at each step: in `db_from_cmd` until the branches, then, for a
  trip reset, in `en_to_cmd` until it is written or, its one exception, `refused`.
- `Refinement`: every behaviour is one of O2Power. `AbstractStep` maps each
  step to a step or a stutter; a crash maps to `Lose` when the successor starts.

### LogFileProofs

- `LogTypeCorrect`, which includes that at most a header waits in the buffer: a
  flush that fails drops its row and keeps nothing.
- `LogAppendOnly`: every write is `File(name) \o something`, and a sequence is a
  prefix of its concatenation (`PrefixOfConcat`).
- `LogHeaderFirst`: `HeaderInv` adds that a file that is open and still empty
  has its header in the buffer, unless a write to it failed (`headless`). Without
  it the first row could be first. A write that gets through in part puts the
  header first or nothing, or leaves the file `headless`.
- `LogHupNotLost`, inductive as it stands; `LogFaultsExplained`, with `LogOpen`:
  a process with a log has one open except between `fclose()` and `fopen()`.
- `LogCounterNamesFresh`: the names used so far carry counters below the current
  one (`OpenedInv`).
- `LogKeepsPromise`: every behaviour is one of Journal. `JournalStep` maps each
  step to a step or a stutter, from the invariants above and two more:
  `RaisedByHup`, that past the test of the flag nothing but a SIGHUP raises it
  (before it, a jump of the clock may), so that reopening never brings up a
  request nobody made; and `OpenExists`, that an open log has its file. `Check`
  needs `HupNotLost`: with a SIGHUP waiting, the test cannot miss the flag.
  `PlainKept` says that steps which leave the files alone allow no further row.

### SelectLoopProofs

- `NeverCrossed` (`HeldRight`) and `OnlyAcceptLeaks` (`NoLeak`), with
  `SelectTypeCorrect`. They are inductive together, with the fact that a plugged
  port has a number. `LowestIsFree` is the arithmetic behind it: a non-empty set
  of numbers has a least element, from the well-founded order of the naturals,
  so what the kernel hands out was held by nobody.

### OperatorProofs

What the modules' operators compute, for the proofs that use them. No state.

- Numbers: `NatsHaveLeast`, `HasMax`, `DivMod`, `DivModUnique`. The library's
  induction takes the formula as a parameter; `InductionUpTo` and `RecursionUpTo`
  take a set and a function instead, so a recursive function can be shown to
  exist and be unfolded up to any bound.
- Numbers as bits: `Powers`, `NextBit` and `NumberOfBits`: reading the bits of a
  number gives the number. `Number` is a recursive function for this.
- `EncodeWithinStep`: whatever `Encode` may return, decoding it gives a value at
  most one step below the one encoded.
- `RoundTrip`: for every signal and every value of its width, `Get` of `Put` is
  the value. `PlaceInjective` is the reason, and for big-endian signals
  `SentInjective`, that the numbering of bits as sent is one to one.
- What a layout put together from fields has where: `BothDomain`, `FromFirst`,
  `FromSecond` and their instances for two and three fields.
- `UnpackOfPack`: for any layout whose signals lie apart, whatever is packed is
  unpacked and what is not in the layout is left alone. The rest are rules to
  show `Apart` of a layout by putting one field behind the last.

### CodecProofs

- `SameLayouts`: `pack` and `unpack` agree on every service and PID.
- `Obd2Arrives`, `DeviceFieldsArrive`: with `UnpackOfPack`, every message of the
  vehicle's services and of the devices, with any contents, arrives.
- `PackStays` (`PackStaysInBuffer`): `KindInv` says that the frame was packed by
  the layout of the message's own kind. The arms of `pack` are then shown to lie
  within each kind's size, whatever its switches hold.
- `FieldsArrive` (`SentFieldsArrive`) and `ReadingsArrive`
  (`ReadingWithinOneStep`), for any set of PIDs and any `BigRaw` below 2^30.
  That a layout arrives is not enough: the receiver picks its layout from the
  bytes, the sender from the struct. `CodecInv` says that the struct `Holds` its
  message, each field with room in its signal and the switches with the values
  the message has, and that its fields are `Near` the values encoded into it.
  From it, `PackTakesArms` and `UnpackTakesArms`: both take the message's own
  arms. `HeldArrives` is why `unpack` may trust the switch it has just read.
- That a filled struct holds its message (`WordsFill`, `EncodedFill`) is a matter
  of tables: `Fits` relates the type, scale and limits of a field to the width
  of its signal, `Suits` says so of every field of a layout that is not `Narrow`,
  and there is one lemma per message of the devices (`GpsTimeSuits` and on) and
  per shape of an OBD-II answer (`FirstFits`, `SecondFits`). `ProbeEncoded` then
  bounds what `Encode` may return, the step lost in rounding included, and
  `ProbeWord` whichever of these words the struct is filled with.

### CanBusProofs

- `DrainLoses` (`OnlyTheLimitDrops`): the bound on what is lost is not inductive
  on the counters; `DrainInv` adds `ThisPass`, what the pass under way has
  parsed, which pays for the frame it may drop.
- `CanTypes` (`TypeOK`) and `LogNewest` (`LogIsNewest`). That the log shows the
  newest frame once the queue is empty says nothing about a queue that is not;
  `QueueInv` does. The frames of the socket and the one in hand (`Slots`) were
  sent and are not lost (`WaitingIsSent`), wait in the order they were sent
  (`WaitingInOrder`), are newer than anything the log shows (`LogIsSent`), and
  every frame sent is lost, waits, or is shown, superseded or overwritten by
  another device in each of its fields (`NothingForgotten`); `Overwritten` is the
  step of such a device. One lemma for each thing that can happen to the
  queue: `PutBehind`, `NoRoom`, `SensorTaken`, `RequestTaken`, `LostAtLimit`.
- `ScanTrue` (`ScanIsTrue`): what a tester knows it learned from a bitmap, and
  what the bitmaps announce (`AnnouncedIsScanned`) is answered
  (`CurrentAnswered`). An invariant over 256 PIDs, checked arm by arm.
- `AnswerTrue` (`AnswerShowsReading`): an answer's fields decode to what the
  engine reads when the request is processed: `LambdaIsNewest` and
  `ExpectedIsRead` tie the field `lambda` to the newest frame before the request,
  or to the LC-2's value if that was stored later, `EncodeWithinStep`
  to what is decoded. It assumes `LambdaFits`, that the ignition box sends no
  lambda above 65.53, which its 16 bits of thousandths hold: above it the value
  wraps, as noted below.
- `InOrder`: the safety half of `ServesInOrder`: every behaviour of CanBus is
  one of RequestLine's initial states and steps. `RequestsBehind` and
  `RequestsAhead` say how the line changes with the two ends of the queue.

### GpxProofs

- `TrackNests` (`EachRunNests`): `GpxInv` ties the flags to the last piece
  written: in a point it is a `trkpt` or an extension, and so on. One lemma per
  method; `AppendNests` and `PrefixNests` are what appending and a crash do to a
  sequence that nests.
- `TracksWhole` (`CleanRunsAreWhole`): `WholeInv` adds that, without a crash, a
  stream that is not open has left a file that is ended or, once a run was
  abandoned, may be a bare header's (`RunsEndWith`); before the loop (`phase`)
  nothing but the header has been written.

### PartsProofs

Front controls:

- `OneCommand` (`InputsOfOneCommand`) and `NewestHeld` (`NewestCommandHeld`), for
  any size of command and buffer, any place of the voltage and any portions. The
  arithmetic is that of `\div` and `%` by an unknown size (`DivModUnique`,
  `ByteIs`); `SameCommand` says that bytes with no end of command between them
  are of one command; `HasMax` that the newline looked for is the last one.

Clocks:

- `JumpFound` (`JumpSeenOnce`): `Compared` says that the previous times are the
  seconds of one moment whose offset is `seen`; `SecondsApart` that cutting off
  two clocks changes the difference of their differences by less than two seconds.
- `LogsWithoutJump` (`NoJumpWithinLog`). The distance of two rows is bounded only
  through the passes between them. `OffsetInv` ties the offset of the clocks to
  the last stamp: outside of `SyncFromGps` either the clock was not set since, or
  it shows a later second than the stamp. `OnceAtMost` says that as long as no
  row is due at most one undetected step back has happened, and none in the
  second of the last row, since the clock is only set to a second behind the
  stamp's. `DriftInv` joins both over the steps of a pass; `meddled = 0` is the
  property's own condition.
- `SilenceEnds` (`SilenceBounded`) comes from the same invariant. That no row was
  due bounds the time on the clock only; `DriftInv` says how far true time may
  have run ahead of it since the last row.

PathInsert:

- `PartsKept` (`InsertKeepsParts`), for paths of any length: `Known` is the
  invariant of the scan (where the last component begins, and its first dot that
  is not in front). `ScanKnows` proves it by induction on the length of what has
  been read, through `RecursionUpTo`; `KnownSplits` that the pieces make up the
  path.

### Only model-checked

- Everything temporal (`O2EventuallyOn`, `KillStopsEngine`, `QuitCutsPower`,
  `HupServed`, `FcReconnects`, `HangUpNoticed`, `CommandRead`, `CanConnects`, and
  the part of `ServesInOrder` that no request waits for ever): liveness under
  fairness, and the enabledness it rests on, are out of the prover's reach.
- Which raw values a field may have: the proofs, like the runs, are about the words
  and physical values that `Word` and `RawProbe` name for every field. For any word
  of the right width `Obd2Arrives` and `DeviceFieldsArrive` hold, for any value in
  range `EncodeWithinStep`.

## What the models found

1. The LC-2's delay is measured on the clock that the loop itself sets from GPS
   (main.cpp:747, 962-971): a synchronisation powers the sensor at once
   (engine_gps_delay).
2. `log_data.engineRunning` is never assigned, so the column `enginerunning` is
   always 0 (main.cpp:736, 1044) (engine_row).
3. LOGRST without `--output-file` closes an uninitialised stream
   (main.cpp:777) (log_not_configured).
4. `fopen()`'s result is compared with `< 0`: a log that cannot be opened is not
   reported and takes the process down (logfile.c:162) (log_open_fails).
5. After `readFC()` closed the front controls and `Accept()` reused the number,
   the new connection is read on a stale set, found empty and closed
   (main.cpp:673) (select_stale).
6. `can_sock_good` is never cleared: a CAN interface that was removed and came
   back stays unbound, although the messages promise a retry (main.cpp:619)
   (select_can).

Also noted, not counted as disagreements: connecting a second phone leaks the
first one's descriptor (bluetooth.cpp:51; `NoLeak` states it as its exception);
after a crash the pin stays high until the next process decides (bounded by
`KillStopsEngine`); a trip reset is forgotten if the I2C write fails
(main.cpp:891; the exception of `ServedInPass`). Each leak costs one descriptor
for good: where they run out, the front controls cannot be opened again (the
exception of `FcReconnects`).

From the modules of the bus and the files:

- The frame read when the drain reaches its limit is never parsed
  (main.cpp:701-703); `OnlyTheLimitDrops` counts one in 102.
- A lambda of 2.0, which obd2.h:645 documents, overflows the field of PID 0x24,
  and lambda itself wraps at 65.53 in 16 bits. `AnswerShowsReading` holds for
  readings that the field can hold.
- The answers of PIDs 0x80 and 0xA0 set the word of 0x60 and pack another, which
  nobody set (can.cpp:469); the scan tool is never told of them, as 0x40
  announces nothing above 0x5F. The odometer, 0xA6, is answered and not announced.
- When the log's disk is full, the header that waits is dropped with the first
  row, and later rows head the file (main.cpp:1135; the exception of
  `HeaderFirst`).
- A frame of lambda or of the front controls that waited in the socket since
  before the LC-2 or the serial port wrote the field overwrites the newer value in
  the next drain (main.cpp:835, front_controls.cpp:71), which an answer may show.
- After a crash the GPX file holds a second document behind the first, which is
  cut off. Where `main()` returns for a wrong column, GPIO or I2C bus, after
  `gpx.initialize()` (main.cpp:352, 400, 416, 425, 430), it is a bare header, and
  `Restart=always` appends another each time.
- A newline among the voltage's bytes at the end of a portion, or on the stack
  behind it, makes `readFC()` take the end of one command and the start of the
  next (the exceptions of `InputsOfOneCommand`).
- Where `time_t` has 32 bits, a stamp more than 2147 seconds ahead of the last
  row may count as behind it, and rows stop until it has wrapped again (excepted
  by the condition of `SilenceBounded`): after the clock has been set far ahead,
  for up to 36 minutes.
- The row of the pass that sets the clock has the time from before; but when
  someone else sets it between the comparison and the stamp, one row of the new
  time gets into the old log. `NoJumpWithinLog` is therefore about the loop's own
  settings. Even so, two rows of one log may lie further apart than the limit for
  a jump: a pass that stalls between its stamp and the setting puts the clock
  back, undetected by the next comparison if it is little, and this can happen
  twice before a row is due. Hence twice the limit, backwards.
- When someone else sets the clock back by more than the limit, a new log is
  opened, but `time_last` is not reset: it stays empty until the clock has caught
  up with the last row of the old one (main.cpp:991; `SilenceBounded` is about
  the loop's own settings).
- Where `time_t` is too narrow for the time between two stamps, nothing is said
  about the rows: the elapsed time wraps.

## What is not modelled

- Gear, the gating of lambda, trip and power (main.cpp:807-866, powercalc.cpp),
  and the columns of a row: formulas in floating point over one pass, whose only
  state is the last gear. `trailing_average_power()` averages nothing yet.
- Formatting, messages, termios settings (serial.cpp), option parsing
  (cmdline.c, generated): no state a property is about. Options are CONSTANTS.
- The flatbuffers payload and the libraries for the LC-2, the ignition box and
  the GPIO: outside the repository or generated; their results are inputs.
- I2Cdev.cpp and engine_data.h are not built.
- `hex2bin()` turns the I2C board's address into a byte once, at the start
  (main.cpp:422). `writeFC()` (main.cpp:927) writes the flags to the front
  controls; `Send` keeps what they were told (`fc_told`), not the bytes.
- Failing writes of the GPX stream, which gpx.cpp does not look at.
- The length byte of OBD-II answers, and what frames of more than eight bytes
  would be: no answer is longer than one frame.
- bin/shutdowncheck.py is a separate program; all it does to the logger is a
  signal to quit.
- Test mode (`--test-mode`), which writes a row in every pass and ends the loop
  after a countdown.

## Plan

The order is by how much depends on the part. Done: the decision and the pin
(EngineControl), the log (LogFile, against Journal), the descriptors
(SelectLoop), the bus and the responder (CanBus), the codec, the front controls'
stream, the GPX file, the clocks, the names; and the proofs of every safety
property.

What is left:

1. **MainLoop**: EngineControl, LogFile and SelectLoop composed over one `pc`, to
   remove the inputs they now draw at random from each other: the command of
   EngineControl becomes what SelectLoop read, `CommandLogRst` becomes LogFile's
   request, and `Detect` of Clocks the jump LogFile sees.
2. **Telemetry**: gear and lambda as operators against definitions by the nearest
   ratio.

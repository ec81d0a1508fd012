------------------------------- MODULE CanBus -------------------------------
(***************************************************************************)
(* The main loop as a node of the CAN bus.  Frames of the sensors and      *)
(* requests of OBD2 testers wait in the socket; a pass of the loop drains  *)
(* them, can_parse() copies sensor values to log_data and obd2_process()   *)
(* answers requests from it.  The LC-2 and the serial front controls write *)
(* some of the same fields between two drains.  A scan tool asks for the   *)
(* PIDs that earlier answers announced; other testers ask for anything.    *)
(*                                                                         *)
(* over, lc2, sent, lost, taken, parsed, capped and served are history     *)
(* variables.                                                              *)
(***************************************************************************)
EXTENDS Obd2Layout, Obd2Units, DeviceLayout, SequencesExt

CONSTANTS
    DrainLimit,      \* 100: frames parsed in a pass, less one
    RxCap,           \* bound: frames the socket holds
    MaxAsks,         \* bound: requests over the run
    MaxOther,        \* bound: requests after which only the scan tool asks
    Sensors,         \* sensor frames sent: kinds, with the raw value of lambda
    MaxFrames,       \* bound: sensor frames over the run
    OtherRequests,   \* what testers other than the scan tool ask
    Levels,          \* low, middle, high: what the engine's readings may be
    Lc2,             \* what the LC-2 reads; empty if there is none
    FcGiven          \* --front-controls

ASSUME CanAssumption == {DrainLimit, RxCap, MaxAsks, MaxOther, MaxFrames} \subseteq Nat

\* Raw values have 16 bits, the mode of a request 6 and its PID 8.
ASSUME BusAssumption ==
    /\ \A s \in Sensors : s.id # "request" /\ s.raw \in 0 .. 2^16 - 1
    /\ OtherRequests \subseteq
           [id : {"request"}, mode : 0..63, pid : 0..255, dlc : 0..8, after : {0}]
    /\ Levels # {} /\ Levels \subseteq {"low", "mid", "high"}
    /\ Lc2 \subseteq 0 .. 2^16 - 1 /\ FcGiven \in BOOLEAN

VARIABLES
    pc,              \* "idle", "parse", "next"
    frame, i,        \* locals of the drain loop
    rx,              \* frames waiting in the socket
    level,           \* what the engine's readings are in this pass
    log,             \* log_data: field -> the sensor frame it was taken from, or 0
    lambda,          \* log_data.lambda
    over,            \* field -> the frames gone by when another device wrote it
    lc2,             \* lc2_data.lambda when it was stored last
    answer,          \* what the frame in hand was answered with
    known,           \* the PIDs the scan tool knows of
    asks,            \* requests sent
    sent, lost,      \* sensor frames sent, and those that were never parsed
    taken, parsed, capped,
    served           \* the request that was answered, until the next frame is read

loop    == <<pc, frame, i, rx, level>>
data    == <<log, lambda, over, lc2>>
tool    == <<answer, known>>
count   == <<taken, parsed, capped>>
canVars == <<loop, data, tool, asks, sent, lost, count, served>>

\* A request, and how many sensor frames went out before it.
RequestAfter(n, mode, pid, dlc) ==
    [id |-> "request", mode |-> mode, pid |-> pid, dlc |-> dlc, after |-> n]
Request(mode, pid, dlc) == RequestAfter(0, mode, pid, dlc)
NoRequest == Request(-1, -1, 8)
----------------------------------------------------------------------------
(* can_parse: the fields of log_data that a sensor's frame sets.           *)

Fields(id) ==
    CASE id = "body_position"  -> {"yaw", "pitch", "roll"}
      [] id = "body_accel"     -> {"acc_forward", "acc_side", "acc_vert"}
      [] id = "ignitech_wb_2"  -> {"lambda"}
      [] id = "gps_loc"        -> {"lat", "lon"}
      [] id = "gps_nav"        -> {"altitude", "gps_speed", "gps_heading"}
      [] id = "gps_stat"       -> {"satV", "satU", "gpsfix", "pdop", "hdop", "vdop"}
      [] id = "gps_time"       -> {"gpstime"}
      [] id = "front_controls" -> {"brake_on", "horn_on", "blink_left", "blink_right", "high_on",
                                   "kill_on", "clutch_disengaged", "kickstand_up", "in_neutral",
                                   "systemvoltage"}
      [] OTHER                 -> {}

AllFields == UNION {Fields(s.id) : s \in Sensors}

\* Mutant: the steps of the frame are taken for those of the log.
LambdaUnscaled(raw) == raw

\* Steps of 0.01 become steps of 0.001 in 16 bits.
LambdaOf(raw) == (raw * 10) % 2^16

\* Mutant: a frame that repeats the value is skipped.
StoreChanged ==
    /\ log' = [f \in AllFields |->
                 IF f \in Fields(frame.id) /\ lambda # LambdaOf(frame.raw) THEN frame.mark
                 ELSE log[f]]
    /\ lambda' = IF frame.id = "ignitech_wb_2" THEN LambdaOf(frame.raw) ELSE lambda
    /\ UNCHANGED <<over, lc2>>

StoreSensor ==
    /\ log' = [f \in AllFields |-> IF f \in Fields(frame.id) THEN frame.mark ELSE log[f]]
    /\ lambda' = IF frame.id = "ignitech_wb_2" THEN LambdaOf(frame.raw) ELSE lambda
    /\ UNCHANGED <<over, lc2>>

\* The sensor frames that no longer wait.
Waits == {rx[k] : k \in DOMAIN rx}
Gone  == {m \in DOMAIN sent : \A f \in Waits : f.id = "request" \/ f.mark # m}

\* Another device writes fields that frames are stored in, too.
Overwrite(fields) ==
    /\ log'  = [f \in AllFields |-> IF f \in fields THEN 0 ELSE log[f]]
    /\ over' = [f \in AllFields |-> IF f \in fields THEN Gone ELSE over[f]]

\* After the drain: the LC-2's lambda, if its status is normal or o2_manual is set.
StoreLc2 ==
    /\ pc = "idle"
    /\ lc2' \in Lc2 /\ lambda' = lc2'
    /\ Overwrite({"lambda"})
    /\ UNCHANGED <<loop, tool, asks, sent, lost, count, served>>

\* Before it: readFC() has found a command.
ReadFC ==
    /\ pc = "idle" /\ FcGiven
    /\ Overwrite(Fields("front_controls"))
    /\ UNCHANGED <<loop, lambda, lc2, tool, asks, sent, lost, count, served>>
----------------------------------------------------------------------------
(* obd2_process: the answer to a mode and PID.                             *)

\* A mile is 1.609344 km.
Km(miles) == (miles * 25146) \div 15625

\* What the engine's readings may be, the last of each too large for its field.
Pick(lv, low, mid, high) == CASE lv = "low" -> low [] lv = "mid" -> mid [] lv = "high" -> high

\* 'N', '?', a digit, and 0 while no gear has been worked out.
GearByte(gear) == CASE gear = "N" -> 0 [] gear = "?" -> -1 [] gear = "3" -> 3 [] gear = "" -> -48

\* The PIDs that are answered with a reading, in quarter steps of the field.
ReadOut == {11, 12, 13, 14, 17, 36, 66, 92, 166}
Q(p) == 4 * Obd2Conv(S1(p, 1)).den
Reading(p, lv) ==
    CASE p = 11  -> Q(p) * Pick(lv, 0, 101, 300)                          \* map_kpa
      [] p = 12  -> Q(p) * Pick(lv, 0, 6000, 17000)                       \* rpm
      [] p = 13  -> Km(Q(p) * Pick(lv, 0, 60, 170))                       \* speed
      [] p = 14  -> Q(p) * Pick(lv, 0, 20, 100)                           \* advance1
      [] p = 17  -> Q(p) * Pick(lv, 0, 50, 100)                           \* tps_percent
      [] p = 36  -> (Q(p) * lambda) \div 1000                         \* lambda
      [] p = 66  -> Q(p) * Pick(lv, 0, 13, 70)                            \* batteryvoltage
      [] p = 92  -> (Q(p) * (Pick(lv, -40, 200, 500) - 32) * 5) \div 9    \* oil_temp
      [] p = 166 -> Km((Q(p) * Pick(lv, 0, 2345, 99999)) \div 100)        \* odometer

\* Mutant: 0x003C8013.
ConstantOneMore(p) ==
    CASE p = 0  -> {0, 1, 4, 15, 18, 19, 20, 21}
      [] p = 28 -> {0, 2}
      [] p = 32 -> {0, 28}
      [] p = 64 -> {4, 30}
      [] p = 96 -> {0}

\* The words of PIDs that are answered with a constant.
Constant(p) ==
    CASE p = 0  -> {0, 4, 15, 18, 19, 20, 21}     \* 0x003C8011
      [] p = 28 -> {0, 2}                         \* not OBD compliant
      [] p = 32 -> {0, 28}                        \* 0x10000001
      [] p = 64 -> {4, 30}                        \* 0x40000010
      [] p = 96 -> {0}                            \* 0x00000001

Answer(mode, p, set) == [mode |-> mode, pid |-> p, set |-> set]
NoAnswer == Answer(0, 0, <<>>)

\* A read-out is encoded into the first field of its PID.
ShowReading(p, lv) ==
    {Answer(1, p, Field(S1(p, 1), v)) : v \in Encode(Obd2Conv(S1(p, 1)), Reading(p, lv))}

\* 0x80 and 0xA0 assign the word of 0x60; their own is left as it was.
CurrentData(p, lv) ==
    CASE p \in {0, 28, 32, 64, 96} -> {Answer(1, p, Field(S1(p, 1), Constant(p)))}
      [] p \in ReadOut             -> ShowReading(p, lv)
      [] p = 128                   -> {Answer(1, p, Field(S1(96, 1), {0}))}
      [] p = 160                   -> {Answer(1, p, Field(S1(96, 1), {}))}
      [] OTHER                     -> {}

\* Service 0x35: indicators, gear, oil pressure, trip.
CustomConv(p) == IF p = 4 THEN Plain(32) ELSE IF p = 3 THEN Plain(16) ELSE Plain(8)
CustomValue(p, lv) ==
    CASE p = 1 -> Pick(lv, 0, 5, 7)                  \* left, right, high beam
      [] p = 2 -> GearByte(Pick(lv, "", "N", "3"))
      [] p = 3 -> Pick(lv, 0, 60, 70000)             \* oil_pres
      [] p = 4 -> Km(Pick(lv, 0, 1234, 80000)) \div 10
Custom(p, lv) ==
    IF p \in 1..4
    THEN LET value == CustomValue(p, lv)
         IN  {Answer(53, p, Field(<<"custom", p, 1>>, Bits(value, CustomConv(p).bits)))}
    ELSE {}

Answers(mode, p, lv) ==
    CASE mode = 1  -> CurrentData(p, lv)
      [] mode = 53 -> Custom(p, lv)
      [] OTHER     -> {}

\* A request shorter than 8 bytes is not unpacked: mode and PID are what the
\* stack held.  The modes that are not answered are alike.
Understood(r) ==
    IF r.dlc < 8 THEN ({1, 53} \X (0..255)) \cup {<<0, 0>>} ELSE {<<r.mode, r.pid>>}

\* PIDs in the word of a supported-PIDs answer: its highest bit is the first.
Ranges            == {0, 32, 64, 96, 128, 160}
Announced(p, a)   == {p + 32 - b : b \in IF S1(p, 1) \in DOMAIN a.set THEN a.set[S1(p, 1)] ELSE {}}

\* The answer is written, or the write fails.  The scan tool learns from the
\* answers for the PIDs it follows.
Process(r) ==
    \E m \in Understood(r) :
        \/ \E a \in Answers(m[1], m[2], level) :
              /\ answer' = a /\ served' = r
              /\ known' = known \cup (IF a.mode = 1 /\ a.pid \in known \cap Ranges
                                     THEN Announced(a.pid, a) ELSE {})
        \/ served' = NoRequest /\ UNCHANGED tool
----------------------------------------------------------------------------
(* The drain loop.                                                         *)

CanInit ==
    /\ pc = "idle" /\ frame = Request(0, 0, 8) /\ i = 0 /\ rx = <<>>
    /\ log = [f \in AllFields |-> 0] /\ lambda = 0 /\ level \in Levels
    /\ over = [f \in AllFields |-> {}] /\ lc2 = 0
    /\ answer = NoAnswer /\ known = {0} /\ asks = 0
    /\ sent = <<>> /\ lost = {}
    /\ taken = 0 /\ parsed = 0 /\ capped = 0 /\ served = NoRequest

\* Mutant: only what came since the last pass is reported.
ReadableBurst == Len(rx) > 1

\* select() reports the socket as long as a frame waits.
Readable == rx # <<>>

\* The other devices of the pass have been read when the first frame is.
StartDrain ==
    /\ pc = "idle" /\ Readable
    /\ frame' = Head(rx) /\ rx' = Tail(rx) /\ i' = 0 /\ pc' = "parse"
    /\ level' \in Levels
    /\ taken' = taken + 1
    /\ UNCHANGED <<data, tool, asks, sent, lost, parsed, capped, served>>

Parse ==
    /\ pc = "parse" /\ pc' = "next" /\ parsed' = parsed + 1
    /\ IF frame.id = "request"
       THEN Process(frame) /\ UNCHANGED data
       ELSE StoreSensor /\ served' = NoRequest /\ UNCHANGED tool
    /\ UNCHANGED <<frame, i, rx, level, asks, sent, lost, taken, capped>>

\* Mutants: the limit is forgotten, or one too low.
LimitForgotten == FALSE
LimitTooLow    == i + 1 >= DrainLimit

AtLimit == i + 1 > DrainLimit

\* The next frame is read before the count is looked at: at the limit it is left
\* where it is, and the next pass reads over it.
ReadNext ==
    /\ pc = "next" /\ answer' = NoAnswer /\ served' = NoRequest
    /\ IF rx = <<>>
       THEN /\ pc' = "idle" /\ i' = 0
            /\ UNCHANGED <<frame, rx, lost, taken, capped>>
       ELSE /\ frame' = Head(rx) /\ rx' = Tail(rx) /\ taken' = taken + 1
            /\ IF AtLimit
               THEN /\ pc' = "idle" /\ i' = 0 /\ capped' = capped + 1
                    /\ lost' = lost \cup (IF Head(rx).id = "request" THEN {} ELSE {Head(rx).mark})
               ELSE pc' = "parse" /\ i' = i + 1 /\ UNCHANGED <<capped, lost>>
    /\ UNCHANGED <<level, data, known, asks, sent, parsed>>
----------------------------------------------------------------------------
(* The bus.  The socket drops what it has no room for.                     *)

SendSensor(s) ==
    /\ Len(sent) < MaxFrames
    /\ sent' = Append(sent, s)
    /\ LET f == [id |-> s.id, raw |-> s.raw, mark |-> Len(sent) + 1]
       IN  IF Len(rx) < RxCap THEN rx' = Append(rx, f) /\ UNCHANGED lost
                              ELSE lost' = lost \cup {f.mark} /\ UNCHANGED rx
    /\ UNCHANGED <<pc, frame, i, level, data, tool, asks, count, served>>

SendRequest(r) ==
    /\ asks < MaxAsks /\ asks' = asks + 1
    /\ rx' = IF Len(rx) < RxCap THEN Append(rx, [r EXCEPT !.after = Len(sent)]) ELSE rx
    /\ UNCHANGED <<pc, frame, i, level, data, tool, sent, lost, count, served>>

AskOther == asks < MaxOther /\ \E r \in OtherRequests : SendRequest(r)
Scan     == \E p \in known \cap Ranges : SendRequest(Request(1, p, 8))

LoopStep == StartDrain \/ Parse \/ ReadNext
Others   == StoreLc2 \/ ReadFC
Bus      == (\E s \in Sensors : SendSensor(s)) \/ AskOther \/ Scan

CanNext == LoopStep \/ Others \/ Bus
CanSpec == CanInit /\ [][CanNext]_canVars /\ WF_canVars(LoopStep)
----------------------------------------------------------------------------
(* Properties.                                                             *)

Requests ==
    {[r EXCEPT !.after = n] : r \in OtherRequests \cup {Request(1, p, 8) : p \in Ranges},
                              n \in 0..MaxFrames}
\* The variables keep their types; the drain's count stays within its limit.
TypeOK ==
    /\ pc \in {"idle", "parse", "next"} /\ i \in 0..DrainLimit
    /\ Len(rx) <= RxCap /\ Len(sent) <= MaxFrames /\ asks <= MaxAsks
    /\ \A f \in Waits : f.id = "request" => f \in Requests
    /\ \A f \in AllFields : log[f] \in 0 .. Len(sent)
    /\ \A f \in AllFields : over[f] \subseteq 1 .. Len(sent)
    /\ {lambda, lc2} \subseteq 0 .. 2^16 - 1 /\ level \in Levels
    /\ lost \subseteq 1 .. Len(sent)

\* A frame that is taken out of the socket is parsed, unless a pass ends at the
\* limit on it: so one frame is lost for DrainLimit + 1 that were parsed, at most.
OnlyTheLimitDrops ==
    /\ taken = parsed + capped + (IF pc = "parse" THEN 1 ELSE 0)
    /\ capped * (DrainLimit + 1) <= parsed

\* When nothing waits, every field shows the newest frame of its sensor that was
\* not lost at the limit or in the kernel and came after the last value another
\* device gave the field, and that value if there is none: no frame overwrites a
\* newer one, none is passed over, and the fields of a sensor that no other device
\* writes are of one frame.
LogIsNewest ==
    pc = "idle" /\ rx = <<>> =>
        \A s \in Sensors : \A f \in Fields(s.id) :
            LET marks == {k \in DOMAIN sent : sent[k].id = s.id /\ k \notin lost \cup over[f]}
            IN  log[f] = Max(marks \cup {0})

\* A scan tool that starts from PID 0 and follows what it is told only asks for
\* PIDs that are answered, each with its own word.
ScanIsTrue ==
    \A p \in known :
        /\ Answers(1, p, level) # {}
        /\ \A a \in Answers(1, p, level) : S1(p, 1) \in DOMAIN a.set

AnswerConv(f) == IF f[1] = "custom" THEN CustomConv(f[2]) ELSE Obd2Conv(f)

Shows(a, readings) ==
    \A f \in DOMAIN a.set : \A r \in readings :
        LET c   == AnswerConv(f)
            got == Decode(c, a.set[f])
        IN  got <= r /\ r - got <= 4 * c.num

InType(a, readings) ==
    \A f \in DOMAIN a.set : \A r \in readings :
        LET c == AnswerConv(f) IN FitsType(c, (r - 4 * c.den * c.off) \div (4 * c.num))

\* The frames of lambda that went out before the request in hand, were not lost
\* and came after the LC-2's last value: a request is answered with the newest or,
\* if there is none, with that value.
LambdaFrames ==
    {k \in 1 .. frame.after : sent[k].id = "ignitech_wb_2" /\ k \notin lost \cup over["lambda"]}
LambdaDue ==
    IF LambdaFrames = {} THEN (Q(36) * lc2) \div 1000
    ELSE (Q(36) * sent[Max(LambdaFrames)].raw) \div 100

\* What an answer to the request in hand should show: what the engine reads now.
Expected(a) ==
    CASE a.mode = 1 /\ a.pid = 36                   -> {LambdaDue}
      [] a.mode = 1 /\ a.pid \in ReadOut \ {36}     -> {Reading(a.pid, level)}
      [] a.mode = 53                                -> {4 * CustomValue(a.pid, level)}
      [] OTHER                                      -> {}

\* An answer shows the reading the engine has when the request is processed,
\* within a step of the field, if the field can hold it.  The lambda shown is of
\* the newest sensor frame sent before the request or, if that had been parsed by
\* then, of the LC-2's reading that was stored after it, however frames and
\* requests were queued and drained.
AnswerShowsReading ==
    [][answer' # answer /\ InType(answer', Expected(answer'))
         => Shows(answer', Expected(answer'))]_canVars

\* The frames that are still to be processed, the one in hand first.
Queue == (IF pc = "parse" THEN <<frame>> ELSE <<>>) \o rx

\* The requests among them.
RequestsIn(q) ==
    LET upTo[n \in 0 .. Len(q)] ==
            CASE n = 0                         -> <<>>
              [] n > 0 /\ q[n].id = "request" -> Append(upTo[n - 1], q[n])
              [] OTHER                         -> upTo[n - 1]
    IN  upTo[Len(q)]
Waiting == RequestsIn(Queue)

Line == INSTANCE RequestLine WITH line <- Waiting, answered <- served

\* can_parse() and obd2_process() behind the drain loop with its limit, with the
\* kernel's socket and the sensors' frames between them, serve requests in order,
\* once at most, and let none wait for ever.
ServesInOrder == Line!LineSpec
=============================================================================

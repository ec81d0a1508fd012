---------------------------- MODULE CanBusProofs ----------------------------
(***************************************************************************)
(* The node on the CAN bus, for every limit, every socket, any number of   *)
(* frames and any sensors: what the drain loop loses, what the log shows,  *)
(* what requests are answered with, and that they are served in order.     *)
(*                                                                         *)
(* Two invariants carry the theorems.  DrainInv: a pass under way pays for *)
(* the frame it may lose.  QueueInv: what waits, in hand and in the socket,*)
(* waits in the order it was sent, the log shows nothing newer, and every  *)
(* frame that was sent is lost, waits, or is shown or overtaken in the     *)
(* log.  That the log is the newest when nothing waits is no more than the *)
(* last of these; it takes the others to be kept.                          *)
(***************************************************************************)
EXTENDS CanBus, OperatorProofs

Counters ==
    /\ taken \in Nat /\ parsed \in Nat /\ capped \in Nat
    /\ pc \in {"idle", "parse", "next"} /\ i \in 0..DrainLimit

EveryFrameCounted == taken = parsed + capped + (IF pc = "parse" THEN 1 ELSE 0)

\* Frames parsed in the pass under way.
ThisPass == IF pc = "idle" THEN 0 ELSE IF pc = "parse" THEN i ELSE i + 1

PassesPaid == capped * (DrainLimit + 1) + ThisPass <= parsed

DrainInv == Counters /\ EveryFrameCounted /\ PassesPaid

LEMMA OneMore ==
    ASSUME NEW c \in Nat, NEW k \in Nat
    PROVE  (c + 1) * k = c * k + k /\ c * k \in Nat
  OBVIOUS

LEMMA DrainInvInit == CanInit => DrainInv
  <1> SUFFICES ASSUME CanInit PROVE DrainInv
    OBVIOUS
  <1>1. pc = "idle" /\ i = 0 /\ taken = 0 /\ parsed = 0 /\ capped = 0
    BY DEF CanInit
  <1>2. DrainLimit \in Nat
    BY CanAssumption
  <1> QED BY <1>1, <1>2 DEF DrainInv, Counters, EveryFrameCounted, PassesPaid, ThisPass

LEMMA DrainInvNext == DrainInv /\ [CanNext]_canVars => DrainInv'
  <1> SUFFICES ASSUME DrainInv, [CanNext]_canVars PROVE DrainInv'
    OBVIOUS
  <1>1. DrainLimit \in Nat
    BY CanAssumption
  <1> DEFINE paid == capped * (DrainLimit + 1)
  <1>2. /\ taken \in Nat /\ parsed \in Nat /\ capped \in Nat
        /\ pc \in {"idle", "parse", "next"} /\ i \in 0..DrainLimit
    BY DEF DrainInv, Counters
  <1>3. paid \in Nat /\ (capped + 1) * (DrainLimit + 1) = paid + DrainLimit + 1
    BY <1>1, <1>2, OneMore
  <1>4. EveryFrameCounted /\ paid + ThisPass <= parsed
    BY DEF DrainInv, PassesPaid
  <1>5. ASSUME StartDrain PROVE DrainInv'
    <2>1. /\ pc = "idle" /\ pc' = "parse" /\ i' = 0
          /\ taken' = taken + 1 /\ parsed' = parsed /\ capped' = capped
      BY <1>5 DEF StartDrain
    <2>2. Counters'
      BY <2>1, <1>1, <1>2 DEF Counters
    <2>3. EveryFrameCounted'
      BY <2>1, <1>2, <1>4 DEF EveryFrameCounted
    <2>4. PassesPaid'
      <3> HIDE DEF paid
      <3>1. (capped * (DrainLimit + 1))' = paid
        BY <2>1 DEF paid
      <3> QED BY <2>1, <3>1, <1>2, <1>3, <1>4 DEF PassesPaid, ThisPass
    <2> QED BY <2>2, <2>3, <2>4 DEF DrainInv
  <1>6. ASSUME Parse PROVE DrainInv'
    <2>1. /\ pc = "parse" /\ pc' = "next" /\ i' = i
          /\ taken' = taken /\ parsed' = parsed + 1 /\ capped' = capped
      BY <1>6 DEF Parse
    <2>2. Counters'
      BY <2>1, <1>2 DEF Counters
    <2>3. EveryFrameCounted'
      BY <2>1, <1>2, <1>4 DEF EveryFrameCounted
    <2>4. PassesPaid'
      <3>1. (capped * (DrainLimit + 1))' = paid
        BY <2>1
      <3> HIDE DEF paid
      <3> QED BY <2>1, <3>1, <1>2, <1>3, <1>4 DEF PassesPaid, ThisPass
    <2> QED BY <2>2, <2>3, <2>4 DEF DrainInv
  <1>7. ASSUME ReadNext PROVE DrainInv'
    <2>1. pc = "next" /\ parsed' = parsed
      BY <1>7 DEF ReadNext
    <2>2. CASE rx = <<>>
      <3>1. pc' = "idle" /\ i' = 0 /\ taken' = taken /\ capped' = capped
        BY <1>7, <2>2 DEF ReadNext
      <3>2. (capped * (DrainLimit + 1))' = paid
        BY <3>1
      <3> HIDE DEF paid
      <3>3. Counters' /\ EveryFrameCounted'
        BY <2>1, <3>1, <1>1, <1>2, <1>4 DEF Counters, EveryFrameCounted
      <3>4. PassesPaid'
        BY <2>1, <3>1, <3>2, <1>2, <1>3, <1>4 DEF PassesPaid, ThisPass
      <3> QED BY <3>3, <3>4 DEF DrainInv
    <2>3. CASE rx # <<>> /\ AtLimit
      <3>1. pc' = "idle" /\ i' = 0 /\ taken' = taken + 1 /\ capped' = capped + 1
        BY <1>7, <2>3 DEF ReadNext
      <3>2. (capped * (DrainLimit + 1))' = paid + DrainLimit + 1
        BY <3>1, <1>3
      <3>3. i = DrainLimit
        BY <2>3, <1>1, <1>2 DEF AtLimit
      <3> HIDE DEF paid
      <3>4. Counters' /\ EveryFrameCounted'
        BY <2>1, <3>1, <1>1, <1>2, <1>4 DEF Counters, EveryFrameCounted
      <3>5. PassesPaid'
        BY <2>1, <3>1, <3>2, <3>3, <1>1, <1>2, <1>3, <1>4 DEF PassesPaid, ThisPass
      <3> QED BY <3>4, <3>5 DEF DrainInv
    <2>4. CASE rx # <<>> /\ ~AtLimit
      <3>1. pc' = "parse" /\ i' = i + 1 /\ taken' = taken + 1 /\ capped' = capped
        BY <1>7, <2>4 DEF ReadNext
      <3>2. (capped * (DrainLimit + 1))' = paid
        BY <3>1
      <3>3. i + 1 \in 0..DrainLimit
        BY <2>4, <1>1, <1>2 DEF AtLimit
      <3> HIDE DEF paid
      <3>4. Counters' /\ EveryFrameCounted'
        BY <2>1, <3>1, <3>3, <1>2, <1>4 DEF Counters, EveryFrameCounted
      <3>5. PassesPaid'
        BY <2>1, <3>1, <3>2, <1>2, <1>3, <1>4 DEF PassesPaid, ThisPass
      <3> QED BY <3>4, <3>5 DEF DrainInv
    <2> QED BY <2>2, <2>3, <2>4
  <1>8. ASSUME Others \/ Bus \/ UNCHANGED canVars PROVE DrainInv'
    <2>1. UNCHANGED <<pc, i, taken, parsed, capped>>
      BY <1>8 DEF Others, StoreLc2, ReadFC, Bus, SendSensor, AskOther, Scan, SendRequest, canVars, loop, count
    <2> QED BY <2>1 DEF DrainInv, Counters, EveryFrameCounted, PassesPaid, ThisPass
  <1> QED BY <1>5, <1>6, <1>7, <1>8 DEF CanNext, LoopStep

\* The drain loses nothing but the frame a pass reads at its limit, hence one
\* frame in DrainLimit + 2 at most, whatever the limit and the traffic: the loop
\* around can_parse() (OnlyTheLimitDrops).
THEOREM DrainLoses == CanSpec => []OnlyTheLimitDrops
  <1>1. DrainInv => OnlyTheLimitDrops
    <2> SUFFICES ASSUME DrainInv PROVE OnlyTheLimitDrops
      OBVIOUS
    <2> DEFINE paid == capped * (DrainLimit + 1)
    <2>1. DrainLimit \in Nat /\ capped \in Nat /\ parsed \in Nat /\ i \in Nat
      BY CanAssumption DEF DrainInv, Counters
    <2>2. paid \in Nat
      BY <2>1, OneMore
    <2>3. paid + ThisPass <= parsed /\ ThisPass \in Nat
      BY <2>1 DEF DrainInv, PassesPaid, ThisPass
    <2>4. paid <= parsed
      <3> HIDE DEF paid
      <3> QED BY <2>1, <2>2, <2>3
    <2> QED BY <2>4 DEF DrainInv, EveryFrameCounted, OnlyTheLimitDrops
  <1> QED BY <1>1, DrainInvInit, DrainInvNext, PTL DEF CanSpec
----------------------------------------------------------------------------
(* What waits: the frame in hand is slot 0, those in the socket follow.    *)

Slots   == IF pc = "parse" THEN 0 .. Len(rx) ELSE 1 .. Len(rx)
Slot(k) == IF k = 0 THEN frame ELSE rx[k]

SensorFrames == [id : {s.id : s \in Sensors}, raw : 0 .. 2^16 - 1, mark : Nat]
IsRequest(f) == f.id = "request"

\* How many sensor frames had been sent when a frame was, itself included.
SentBy(f) == IF IsRequest(f) THEN f.after ELSE f.mark

Types ==
    /\ rx \in Seq(Requests \cup SensorFrames) /\ Len(rx) <= RxCap
    /\ pc = "parse" => frame \in Requests \cup SensorFrames
    /\ sent \in Seq(Sensors) /\ Len(sent) <= MaxFrames
    /\ asks \in Nat /\ asks <= MaxAsks
    /\ log \in [AllFields -> 0 .. Len(sent)]
    /\ over \in [AllFields -> SUBSET (1 .. Len(sent))]
    /\ lambda \in 0 .. 2^16 - 1 /\ lc2 \in 0 .. 2^16 - 1 /\ level \in Levels
    /\ lost \subseteq 1 .. Len(sent)

\* What waits was sent, and is not lost.
WaitingIsSent ==
    \A k \in Slots :
        /\ SentBy(Slot(k)) \in 0 .. Len(sent)
        /\ ~ IsRequest(Slot(k)) =>
              LET m == Slot(k).mark
              IN  m \in DOMAIN sent \ lost /\ sent[m].id = Slot(k).id /\ sent[m].raw = Slot(k).raw

\* Frames wait in the order they were sent.
WaitingInOrder ==
    \A j, k \in Slots : j < k =>
        /\ SentBy(Slot(j)) <= SentBy(Slot(k))
        /\ ~ IsRequest(Slot(k)) => SentBy(Slot(j)) < SentBy(Slot(k))

\* The log shows frames that were not lost, each in the fields of its sensor,
\* none that another device's value came after, and none newer than a frame that
\* waits; nor has another device's value come after one that waits.
LogIsSent ==
    /\ \A f \in AllFields :
          log[f] # 0 => log[f] \notin lost /\ log[f] \notin over[f] /\ f \in Fields(sent[log[f]].id)
    /\ \A f \in AllFields, k \in Slots :
          /\ log[f] <= SentBy(Slot(k))
          /\ ~ IsRequest(Slot(k)) => log[f] < SentBy(Slot(k)) /\ Slot(k).mark \notin over[f]
    /\ lambda = IF "lambda" \in AllFields /\ log["lambda"] # 0
                THEN LambdaOf(sent[log["lambda"]].raw) ELSE lc2

\* A frame that was sent is lost, or waits, or the log shows it, a newer one or
\* what another device said since.
NothingForgotten ==
    \A m \in DOMAIN sent :
        \/ m \in lost
        \/ \E k \in Slots : ~ IsRequest(Slot(k)) /\ Slot(k).mark = m
        \/ \A f \in Fields(sent[m].id) : log[f] >= m \/ m \in over[f]

QueueInv == WaitingIsSent /\ WaitingInOrder /\ LogIsSent /\ NothingForgotten
----------------------------------------------------------------------------
(* What the messages look like.                                            *)

LEMMA Bounds == /\ DrainLimit \in Nat /\ RxCap \in Nat /\ MaxAsks \in Nat
                /\ MaxOther \in Nat /\ MaxFrames \in Nat
  BY CanAssumption

Asked == OtherRequests \cup {Request(1, p, 8) : p \in Ranges}

LEMMA AskedForm ==
    ASSUME NEW r \in Asked
    PROVE  \E mode, pid, dlc :
             r = [id |-> "request", mode |-> mode, pid |-> pid, dlc |-> dlc, after |-> 0]
  <1>1. CASE r \in OtherRequests
    <2>1. r \in [id : {"request"}, mode : 0..63, pid : 0..255, dlc : 0..8, after : {0}]
      BY <1>1, BusAssumption
    <2> QED BY <2>1
  <1>2. CASE r \in {Request(1, p, 8) : p \in Ranges}
    BY <1>2 DEF Request, RequestAfter
  <1> QED BY <1>1, <1>2 DEF Asked

LEMMA SentRequest ==
    ASSUME NEW r \in Asked, NEW n \in 0 .. MaxFrames
    PROVE  /\ [r EXCEPT !.after = n] \in Requests
           /\ [r EXCEPT !.after = n].id = "request" /\ [r EXCEPT !.after = n].after = n
  <1>1. PICK mode, pid, dlc :
          r = [id |-> "request", mode |-> mode, pid |-> pid, dlc |-> dlc, after |-> 0]
    BY AskedForm
  <1>2. [r EXCEPT !.after = n].id = "request" /\ [r EXCEPT !.after = n].after = n
    BY <1>1
  <1>3. [r EXCEPT !.after = n] \in Requests
    BY DEF Requests, Asked
  <1> QED BY <1>2, <1>3

LEMMA SensorRaw == \A s \in Sensors : s.id # "request" /\ s.raw \in 0 .. 2^16 - 1
  BY BusAssumption, Zenon

LEMMA RequestForm ==
    ASSUME NEW f \in Requests
    PROVE  f.id = "request" /\ f.after \in 0 .. MaxFrames
  <1>1. PICK r \in Asked, n \in 0 .. MaxFrames : f = [r EXCEPT !.after = n]
    BY DEF Requests, Asked
  <1> QED BY <1>1, SentRequest

LEMMA SensorForm ==
    ASSUME NEW f \in SensorFrames
    PROVE  f.id # "request" /\ f.raw \in 0 .. 2^16 - 1 /\ f.mark \in Nat
  BY SensorRaw DEF SensorFrames

LEMMA FrameForm ==
    ASSUME NEW f \in Requests \cup SensorFrames
    PROVE  /\ IsRequest(f) <=> f \in Requests
           /\ SentBy(f) \in Nat
           /\ ~ IsRequest(f) => f.mark \in Nat /\ f.raw \in 0 .. 2^16 - 1 /\ SentBy(f) = f.mark
  BY RequestForm, SensorForm, Bounds DEF IsRequest, SentBy

LEMMA SlotTypes ==
    ASSUME Types
    PROVE  \A k \in Slots : k \in Nat /\ Slot(k) \in Requests \cup SensorFrames
  <1> USE DEF Slots, Slot
  <1>1. rx \in Seq(Requests \cup SensorFrames)
    BY DEF Types
  <1>2. CASE pc = "parse"
    BY <1>1, <1>2 DEF Types
  <1>3. CASE pc # "parse"
    BY <1>1, <1>3
  <1> QED BY <1>2, <1>3

LEMMA LambdaType == \A raw \in Nat : LambdaOf(raw) \in 0 .. 2^16 - 1
  BY DEF LambdaOf

\* The steps of the loop, of the bus, and none.
LEMMA BusCases ==
    ASSUME [CanNext]_canVars
    PROVE  \/ StartDrain \/ Parse \/ ReadNext
           \/ \E s \in Sensors : SendSensor(s)
           \/ \E r \in Asked : SendRequest(r)
           \/ StoreLc2 \/ ReadFC
           \/ UNCHANGED canVars
  BY DEF CanNext, LoopStep, Others, Bus, AskOther, Scan, Asked
----------------------------------------------------------------------------
(* The variables keep their types.                                         *)

LEMMA TypesInit == CanInit => Types
  BY Bounds DEF CanInit, Types

LEMMA TypesNext == Types /\ WaitingIsSent /\ [CanNext]_canVars => Types'
  <1> SUFFICES ASSUME Types, WaitingIsSent, [CanNext]_canVars PROVE Types'
    OBVIOUS
  <1> DEFINE Frames == Requests \cup SensorFrames
  <1>1. /\ rx \in Seq(Frames) /\ Len(rx) <= RxCap
        /\ pc = "parse" => frame \in Frames
        /\ sent \in Seq(Sensors) /\ Len(sent) <= MaxFrames
        /\ asks \in Nat /\ asks <= MaxAsks
        /\ log \in [AllFields -> 0 .. Len(sent)]
        /\ over \in [AllFields -> SUBSET (1 .. Len(sent))]
        /\ lambda \in 0 .. 2^16 - 1 /\ lc2 \in 0 .. 2^16 - 1 /\ level \in Levels
        /\ lost \subseteq 1 .. Len(sent)
    BY DEF Types
  <1> USE Bounds
  <1>2. ASSUME StartDrain PROVE Types'
    <2>1. Head(rx) \in Frames /\ Tail(rx) \in Seq(Frames) /\ Len(Tail(rx)) <= RxCap
      BY <1>1, <1>2 DEF StartDrain, Readable
    <2> QED BY <1>1, <1>2, <2>1 DEF StartDrain, data, Types
  <1>3. ASSUME Parse PROVE Types'
    <2>1. pc = "parse" /\ pc' = "next" /\ UNCHANGED <<rx, level, asks, sent, lost>>
      BY <1>3 DEF Parse
    <2>2. CASE frame.id = "request"
      <3>1. UNCHANGED <<log, lambda, over, lc2>>
        BY <1>3, <2>2 DEF Parse, data
      <3> QED BY <1>1, <2>1, <3>1 DEF Types
    <2>3. CASE frame.id # "request"
      <3>1. /\ log' = [f \in AllFields |-> IF f \in Fields(frame.id) THEN frame.mark ELSE log[f]]
            /\ lambda' = IF frame.id = "ignitech_wb_2" THEN LambdaOf(frame.raw) ELSE lambda
            /\ UNCHANGED <<over, lc2>>
        BY <1>3, <2>3 DEF Parse, StoreSensor
      <3>2. frame.mark \in 1 .. Len(sent) /\ frame.raw \in 0 .. 2^16 - 1
        <4>1. 0 \in Slots /\ Slot(0) = frame
          BY <1>1, <2>1 DEF Slots, Slot
        <4>2. frame.mark \in DOMAIN sent
          BY <4>1, <2>3 DEF WaitingIsSent, IsRequest
        <4> QED BY <1>1, <2>1, <2>3, <4>2, FrameForm DEF IsRequest
      <3>3. lambda' \in 0 .. 2^16 - 1
        <4>1. frame.raw \in Nat
          BY <3>2
        <4>2. LambdaOf(frame.raw) \in 0 .. 2^16 - 1
          BY <4>1, LambdaType
        <4> QED BY <1>1, <3>1, <4>2
      <3>4. log' \in [AllFields -> 0 .. Len(sent)]
        BY <1>1, <3>1, <3>2
      <3> QED BY <1>1, <2>1, <3>1, <3>3, <3>4 DEF Types
    <2> QED BY <2>2, <2>3
  <1>4. ASSUME ReadNext PROVE Types'
    <2>1. pc = "next" /\ UNCHANGED <<level, log, lambda, over, lc2, asks, sent>>
      BY <1>4 DEF ReadNext, data
    <2>2. CASE rx = <<>>
      <3>1. pc' = "idle" /\ UNCHANGED <<rx, lost>>
        BY <1>4, <2>2 DEF ReadNext
      <3> QED BY <1>1, <2>1, <3>1 DEF Types
    <2>3. CASE rx # <<>>
      <3>1. frame' = Head(rx) /\ rx' = Tail(rx)
        BY <1>4, <2>3 DEF ReadNext
      <3>2. Head(rx) \in Frames /\ Tail(rx) \in Seq(Frames) /\ Len(Tail(rx)) <= RxCap
        BY <1>1, <2>3
      <3>3. lost' \subseteq 1 .. Len(sent)
        <4>1. 1 \in Slots /\ Slot(1) = Head(rx)
          BY <1>1, <2>1, <2>3 DEF Slots, Slot
        <4>2. ~ IsRequest(Head(rx)) => Head(rx).mark \in 1 .. Len(sent)
          BY <1>1, <4>1 DEF WaitingIsSent
        <4>3. lost' = lost \/ (~ IsRequest(Head(rx)) /\ lost' = lost \cup {Head(rx).mark})
          BY <1>4, <2>3 DEF ReadNext, IsRequest
        <4> QED BY <1>1, <4>2, <4>3
      <3> QED BY <1>1, <2>1, <3>1, <3>2, <3>3 DEF Types
    <2> QED BY <2>2, <2>3
  <1>5. ASSUME NEW s \in Sensors, SendSensor(s) PROVE Types'
    <2> DEFINE f == [id |-> s.id, raw |-> s.raw, mark |-> Len(sent) + 1]
    <2>1. /\ Len(sent) < MaxFrames /\ sent' = Append(sent, s)
          /\ \/ Len(rx) < RxCap /\ rx' = Append(rx, f) /\ UNCHANGED lost
             \/ lost' = lost \cup {f.mark} /\ UNCHANGED rx
          /\ UNCHANGED <<pc, frame, level, log, lambda, over, lc2, asks>>
      BY <1>5 DEF SendSensor, data
    <2>2. f \in Frames /\ f.mark = Len(sent) + 1
      <3>1. Len(sent) + 1 \in Nat /\ s.raw \in 0 .. 2^16 - 1
        BY <1>1, SensorRaw
      <3> QED BY <3>1 DEF SensorFrames
    <2> HIDE DEF f
    <2>3. sent' \in Seq(Sensors) /\ Len(sent') = Len(sent) + 1
      BY <1>1, <2>1
    <2>4. rx' \in Seq(Frames) /\ Len(rx') <= RxCap
      <3>1. CASE Len(rx) < RxCap /\ rx' = Append(rx, f)
        BY <1>1, <2>2, <3>1
      <3>2. CASE rx' = rx
        BY <1>1, <3>2
      <3> QED BY <2>1, <3>1, <3>2
    <2>5. lost' \subseteq 1 .. Len(sent')
      <3>1. lost' = lost \/ lost' = lost \cup {f.mark}
        BY <2>1
      <3>2. Len(sent) \in Nat
        BY <1>1
      <3>3. f.mark \in 1 .. Len(sent') /\ 1 .. Len(sent) \subseteq 1 .. Len(sent')
        BY <2>2, <2>3, <3>2
      <3> QED BY <1>1, <3>1, <3>3
    <2>6. log' \in [AllFields -> 0 .. Len(sent')] /\ over' \in [AllFields -> SUBSET (1 .. Len(sent'))]
      <3>1. Len(sent) \in Nat
        BY <1>1
      <3>2. 0 .. Len(sent) \subseteq 0 .. Len(sent') /\ 1 .. Len(sent) \subseteq 1 .. Len(sent')
        BY <2>3, <3>1
      <3> QED BY <1>1, <2>1, <3>2
    <2> QED BY <1>1, <2>1, <2>3, <2>4, <2>5, <2>6 DEF Types
  <1>6. ASSUME NEW r \in Asked, SendRequest(r) PROVE Types'
    <2> DEFINE f == [r EXCEPT !.after = Len(sent)]
    <2>1. /\ asks < MaxAsks /\ asks' = asks + 1
          /\ rx' = IF Len(rx) < RxCap THEN Append(rx, f) ELSE rx
          /\ UNCHANGED <<pc, frame, level, log, lambda, over, lc2, sent, lost>>
      BY <1>6 DEF SendRequest, data
    <2>2. f \in Requests
      BY <1>1, SentRequest
    <2> HIDE DEF f
    <2>3. rx' \in Seq(Frames) /\ Len(rx') <= RxCap
      BY <1>1, <2>1, <2>2
    <2> QED BY <1>1, <2>1, <2>3 DEF Types
  <1>7. ASSUME NEW fields, Overwrite(fields), UNCHANGED <<pc, frame, rx, level, asks, sent, lost>>,
               lambda' \in 0 .. 2^16 - 1, lc2' \in 0 .. 2^16 - 1
        PROVE  Types'
    <2>1. Gone \subseteq 1 .. Len(sent)
      BY <1>1 DEF Gone
    <2>2. log' \in [AllFields -> 0 .. Len(sent)] /\ over' \in [AllFields -> SUBSET (1 .. Len(sent))]
      BY <1>1, <1>7, <2>1 DEF Overwrite
    <2> QED BY <1>1, <1>7, <2>2 DEF Types
  <1>8. CASE StoreLc2
    BY <1>7, <1>8, BusAssumption DEF StoreLc2, loop
  <1>9. CASE ReadFC
    BY <1>1, <1>7, <1>9 DEF ReadFC, loop
  <1>10. CASE UNCHANGED canVars
    BY <1>1, <1>10 DEF Types, canVars, loop, data
  <1> QED BY <1>2, <1>3, <1>4, <1>5, <1>6, <1>8, <1>9, <1>10, BusCases
----------------------------------------------------------------------------
(* What the steps do to the slots, and that each keeps the invariant.      *)

\* Frames are taken from the front: by a step of the loop, slot k is what slot
\* k + d was.
LEMMA TakenOut ==
    ASSUME Types, WaitingInOrder, NEW d \in {0, 1},
           \A k \in Slots' : k + d \in Slots /\ Slot(k)' = Slot(k + d)
    PROVE  WaitingInOrder'
  <1> SUFFICES ASSUME NEW j \in Slots', NEW k \in Slots', j < k
               PROVE  /\ SentBy(Slot(j))' <= SentBy(Slot(k))'
                      /\ ~ IsRequest(Slot(k))' => SentBy(Slot(j))' < SentBy(Slot(k))'
    BY DEF WaitingInOrder
  <1>1. j + d \in Slots /\ k + d \in Slots /\ j + d < k + d
    <2>1. j \in Int /\ k \in Int
      BY DEF Slots
    <2> QED BY <2>1
  <1>2. SentBy(Slot(j))' = SentBy(Slot(j + d)) /\ SentBy(Slot(k))' = SentBy(Slot(k + d))
    BY DEF SentBy, IsRequest
  <1>3. IsRequest(Slot(k))' <=> IsRequest(Slot(k + d))
    BY DEF IsRequest
  <1> QED BY <1>1, <1>2, <1>3 DEF WaitingInOrder

LEMMA LogTypes ==
    ASSUME Types
    PROVE  /\ Len(sent) \in Nat /\ DOMAIN sent = 1 .. Len(sent)
           /\ \A f \in AllFields : log[f] \in Nat /\ log[f] <= Len(sent) /\ over[f] \subseteq 1 .. Len(sent)
           /\ \A m \in DOMAIN sent : sent[m] \in Sensors /\ Fields(sent[m].id) \subseteq AllFields
           /\ \A k \in Slots : k \in Nat /\ SentBy(Slot(k)) \in Nat
           /\ \A k \in Slots : ~ IsRequest(Slot(k)) => Slot(k).mark = SentBy(Slot(k))
  <1>1. /\ sent \in Seq(Sensors) /\ log \in [AllFields -> 0 .. Len(sent)]
        /\ over \in [AllFields -> SUBSET (1 .. Len(sent))]
    BY DEF Types
  <1>2. \A k \in Slots : k \in Nat /\ Slot(k) \in Requests \cup SensorFrames
    BY SlotTypes
  <1>3. Len(sent) \in Nat /\ DOMAIN sent = 1 .. Len(sent)
    BY <1>1
  <1>4. \A f \in AllFields : log[f] \in Nat /\ log[f] <= Len(sent) /\ over[f] \subseteq 1 .. Len(sent)
    BY <1>1, <1>3
  <1>5. \A m \in DOMAIN sent : sent[m] \in Sensors /\ Fields(sent[m].id) \subseteq AllFields
    BY <1>1 DEF AllFields
  <1> QED BY <1>2, <1>3, <1>4, <1>5, FrameForm

\* The frame that is taken is kept in hand.
LEMMA MovedOn ==
    ASSUME Types, QueueInv, NEW d \in {0, 1},
           \A k \in Slots' : k + d \in Slots /\ Slot(k)' = Slot(k + d),
           \A k \in Slots : k - d \in Slots',
           UNCHANGED <<sent, lost, log, lambda, over, lc2>>
    PROVE  QueueInv'
  <1> USE DEF QueueInv
  <1>1. WaitingInOrder'
    BY TakenOut
  <1>2. \A k \in Slots' : /\ SentBy(Slot(k))' = SentBy(Slot(k + d))
                          /\ IsRequest(Slot(k))' <=> IsRequest(Slot(k + d))
                          /\ k + d \in Slots
    BY DEF SentBy, IsRequest
  <1>3. WaitingIsSent'
    BY <1>2 DEF WaitingIsSent
  <1>4. LogIsSent'
    BY <1>2 DEF LogIsSent
  <1>5. NothingForgotten'
    <2> SUFFICES ASSUME NEW m \in DOMAIN sent, m \notin lost,
                        NEW k \in Slots, ~ IsRequest(Slot(k)), Slot(k).mark = m
                 PROVE  \E l \in Slots' : ~ IsRequest(Slot(l))' /\ Slot(l)'.mark = m
      BY DEF NothingForgotten
    <2>1. k \in Nat
      BY LogTypes
    <2>2. k - d \in Slots' /\ (k - d) + d = k
      BY <2>1
    <2>3. Slot(k - d)' = Slot(k)
      BY <2>2
    <2> QED BY <2>2, <2>3 DEF IsRequest
  <1> QED BY <1>1, <1>3, <1>4, <1>5

\* The frame that is taken is lost.
LEMMA LostAtLimit ==
    ASSUME Types, QueueInv, pc # "parse", rx # <<>>,
           \A k \in Slots' : k + 1 \in Slots /\ Slot(k)' = Slot(k + 1) /\ k > 0,
           \A k \in Slots : k # 1 => k - 1 \in Slots',
           UNCHANGED <<sent, log, lambda, over, lc2>>,
           lost' = lost \cup (IF IsRequest(Slot(1)) THEN {} ELSE {Slot(1).mark})
    PROVE  QueueInv'
  <1> USE DEF QueueInv
  <1>1. WaitingInOrder'
    <2>1. \A k \in Slots' : k + 1 \in Slots /\ Slot(k)' = Slot(k + 1)
      OBVIOUS
    <2> QED BY <2>1, TakenOut
  <1>2. \A k \in Slots' : /\ SentBy(Slot(k))' = SentBy(Slot(k + 1))
                          /\ IsRequest(Slot(k))' <=> IsRequest(Slot(k + 1))
                          /\ k + 1 \in Slots /\ 1 < k + 1
    <2> SUFFICES ASSUME NEW k \in Slots'
                 PROVE  /\ SentBy(Slot(k))' = SentBy(Slot(k + 1))
                        /\ IsRequest(Slot(k))' <=> IsRequest(Slot(k + 1))
                        /\ k + 1 \in Slots /\ 1 < k + 1
      OBVIOUS
    <2>1. k \in Int
      BY DEF Slots
    <2> QED BY <2>1 DEF SentBy, IsRequest
  <1>3. 1 \in Slots
    BY DEF Slots, Types
  <1>4. ~ IsRequest(Slot(1)) =>
            /\ \A k \in Slots' : ~ IsRequest(Slot(k + 1)) => Slot(k + 1).mark # Slot(1).mark
            /\ \A f \in AllFields : log[f] # Slot(1).mark
    <2> SUFFICES ASSUME ~ IsRequest(Slot(1))
                 PROVE  /\ \A k \in Slots' : ~ IsRequest(Slot(k + 1)) => Slot(k + 1).mark # Slot(1).mark
                        /\ \A f \in AllFields : log[f] # Slot(1).mark
      OBVIOUS
    <2>1. Slot(1).mark = SentBy(Slot(1)) /\ SentBy(Slot(1)) \in Nat
      BY <1>3, LogTypes
    <2>2. ASSUME NEW k \in Slots', ~ IsRequest(Slot(k + 1))
          PROVE  Slot(k + 1).mark # Slot(1).mark
      <3>1. Slot(k + 1).mark = SentBy(Slot(k + 1)) /\ SentBy(Slot(k + 1)) \in Nat
        BY <1>2, <2>2, LogTypes
      <3>2. SentBy(Slot(1)) < SentBy(Slot(k + 1))
        BY <1>2, <1>3, <2>2 DEF WaitingInOrder
      <3> QED BY <2>1, <3>1, <3>2
    <2>3. ASSUME NEW f \in AllFields PROVE log[f] # Slot(1).mark
      <3>1. log[f] < SentBy(Slot(1)) /\ log[f] \in Nat
        BY <1>3, LogTypes DEF LogIsSent
      <3> QED BY <2>1, <3>1
    <2> QED BY <2>2, <2>3
  <1>5. WaitingIsSent'
    BY <1>2, <1>4 DEF WaitingIsSent
  <1>6. LogIsSent'
    BY <1>2, <1>4 DEF LogIsSent
  <1>7. NothingForgotten'
    <2> SUFFICES ASSUME NEW m \in DOMAIN sent, m \notin lost',
                        NEW k \in Slots, ~ IsRequest(Slot(k)), Slot(k).mark = m
                 PROVE  \E l \in Slots' : ~ IsRequest(Slot(l))' /\ Slot(l)'.mark = m
      BY DEF NothingForgotten
    <2>1. k \in Nat /\ k # 1
      BY LogTypes
    <2>2. k - 1 \in Slots' /\ (k - 1) + 1 = k
      BY <2>1
    <2>3. Slot(k - 1)' = Slot(k)
      BY <2>2
    <2> QED BY <2>2, <2>3 DEF IsRequest
  <1> QED BY <1>1, <1>5, <1>6, <1>7

\* The fields of a sensor are set from its frame, and from no other.
LEMMA LambdaField == \A id : "lambda" \in Fields(id) => id = "ignitech_wb_2"
  BY DEF Fields

LEMMA LambdaIsSet == "lambda" \in Fields("ignitech_wb_2")
  BY DEF Fields

\* A request is taken out of hand.
LEMMA RequestTaken ==
    ASSUME Types, QueueInv, 0 \in Slots, IsRequest(Slot(0)),
           \A k \in Slots' : k \in Slots /\ Slot(k)' = Slot(k),
           \A k \in Slots : k # 0 => k \in Slots',
           UNCHANGED <<sent, lost, log, lambda, over, lc2>>
    PROVE  QueueInv'
  <1> USE DEF QueueInv
  <1>1. WaitingInOrder'
    <2>1. \A k \in Slots' : k + 0 \in Slots /\ Slot(k)' = Slot(k + 0)
      <3>1. \A k \in Slots : k + 0 = k
        BY LogTypes
      <3> QED BY <3>1
    <2> QED BY <2>1, TakenOut
  <1>2. \A k \in Slots' : /\ SentBy(Slot(k))' = SentBy(Slot(k))
                          /\ IsRequest(Slot(k))' <=> IsRequest(Slot(k))
                          /\ k \in Slots
    BY DEF SentBy, IsRequest
  <1>3. WaitingIsSent'
    BY <1>2 DEF WaitingIsSent
  <1>4. LogIsSent'
    BY <1>2 DEF LogIsSent
  <1>5. NothingForgotten'
    BY <1>2 DEF NothingForgotten
  <1> QED BY <1>1, <1>3, <1>4, <1>5

\* A sensor's frame is taken out of hand, into the log.
LEMMA SensorTaken ==
    ASSUME Types, QueueInv, 0 \in Slots, ~ IsRequest(Slot(0)), Slot(0) = frame,
           \A k \in Slots' : k \in Slots /\ Slot(k)' = Slot(k) /\ k > 0,
           \A k \in Slots : k # 0 => k \in Slots',
           StoreSensor, UNCHANGED <<sent, lost>>
    PROVE  QueueInv'
  <1> USE DEF QueueInv
  <1> DEFINE m0 == frame.mark
  <1>1. WaitingInOrder'
    <2>1. \A k \in Slots' : k + 0 \in Slots /\ Slot(k)' = Slot(k + 0)
      <3>1. \A k \in Slots : k + 0 = k
        BY LogTypes
      <3> QED BY <3>1
    <2> QED BY <2>1, TakenOut
  <1>2. \A k \in Slots' : /\ SentBy(Slot(k))' = SentBy(Slot(k))
                          /\ IsRequest(Slot(k))' <=> IsRequest(Slot(k))
                          /\ k \in Slots /\ 0 < k
    BY DEF SentBy, IsRequest
  <1>3. WaitingIsSent'
    BY <1>2 DEF WaitingIsSent
  <1>4. /\ m0 \in DOMAIN sent \ lost /\ m0 \in Nat /\ m0 > 0
        /\ sent[m0].id = frame.id /\ sent[m0].raw = frame.raw
        /\ SentBy(frame) = m0
        /\ \A f \in AllFields : log[f] < m0 /\ m0 \notin over[f]
        /\ Fields(frame.id) \subseteq AllFields
    BY LogTypes DEF WaitingIsSent, LogIsSent
  <1>5. /\ \A f \in AllFields : log'[f] = IF f \in Fields(frame.id) THEN m0 ELSE log[f]
        /\ lambda' = IF frame.id = "ignitech_wb_2" THEN LambdaOf(frame.raw) ELSE lambda
        /\ over' = over /\ lc2' = lc2
    BY DEF StoreSensor
  <1>6. \A k \in Slots' : /\ m0 <= SentBy(Slot(k))
                          /\ ~ IsRequest(Slot(k)) => m0 < SentBy(Slot(k))
    BY <1>2, <1>4 DEF WaitingInOrder
  <1> HIDE DEF m0
  <1>7. LogIsSent'
    <2>1. \A f \in AllFields : log'[f] # 0 =>
             log'[f] \notin lost /\ log'[f] \notin over[f] /\ f \in Fields(sent[log'[f]].id)
      BY <1>4, <1>5 DEF LogIsSent
    <2>2. \A f \in AllFields, k \in Slots' :
             /\ log'[f] <= SentBy(Slot(k))'
             /\ ~ IsRequest(Slot(k))' => log'[f] < SentBy(Slot(k))' /\ Slot(k)'.mark \notin over[f]
      BY <1>2, <1>5, <1>6 DEF LogIsSent
    <2>3. lambda' = IF "lambda" \in AllFields /\ log'["lambda"] # 0
                    THEN LambdaOf(sent[log'["lambda"]].raw) ELSE lc2
      <3>1. CASE frame.id = "ignitech_wb_2"
        <4>1. "lambda" \in AllFields /\ log'["lambda"] = m0
          BY <1>4, <1>5, <3>1, LambdaIsSet
        <4> QED BY <1>4, <1>5, <3>1, <4>1
      <3>2. CASE frame.id # "ignitech_wb_2"
        <4>1. lambda' = lambda /\ ("lambda" \in AllFields => log'["lambda"] = log["lambda"])
          BY <1>5, <3>2, LambdaField
        <4> QED BY <4>1 DEF LogIsSent
      <3> QED BY <3>1, <3>2
    <2> QED BY <1>5, <2>1, <2>2, <2>3 DEF LogIsSent
  <1>8. NothingForgotten'
    <2> SUFFICES ASSUME NEW m \in DOMAIN sent, m \notin lost,
                        ~ \E k \in Slots' : ~ IsRequest(Slot(k))' /\ Slot(k)'.mark = m,
                        NEW f \in Fields(sent[m].id)
                 PROVE  log'[f] >= m \/ m \in over[f]
      BY <1>5 DEF NothingForgotten
    <2>1. m \in Nat /\ f \in AllFields /\ log[f] \in Nat
      BY LogTypes
    <2>2. CASE \A g \in Fields(sent[m].id) : log[g] >= m \/ m \in over[g]
      BY <1>4, <1>5, <2>1, <2>2
    <2>3. CASE \E k \in Slots : ~ IsRequest(Slot(k)) /\ Slot(k).mark = m
      <3>1. PICK k \in Slots : ~ IsRequest(Slot(k)) /\ Slot(k).mark = m
        BY <2>3
      <3>2. k = 0
        BY <1>2, <3>1
      <3>3. m = m0
        BY <3>1, <3>2 DEF m0
      <3> QED BY <1>4, <1>5, <2>1, <3>3
    <2> QED BY <2>2, <2>3 DEF NothingForgotten
  <1> QED BY <1>1, <1>3, <1>7, <1>8

\* A frame is sent, and put behind the others; or there is no room for it.
LEMMA PutBehind ==
    ASSUME Types, QueueInv, NEW n \in Nat, \A k \in Slots : k < n,
           NEW f, Slots' = Slots \cup {n}, Slot(n)' = f, \A k \in Slots : Slot(k)' = Slot(k),
           sent' \in Seq(Sensors), Len(sent') >= Len(sent),
           \A m \in DOMAIN sent : m \in DOMAIN sent' /\ sent'[m] = sent[m],
           SentBy(f) = Len(sent'),
           IsRequest(f) => sent' = sent,
           ~ IsRequest(f) =>
              /\ Len(sent') = Len(sent) + 1 /\ f.mark = Len(sent')
              /\ sent'[f.mark].id = f.id /\ sent'[f.mark].raw = f.raw,
           UNCHANGED <<log, lost, lambda, over, lc2>>
    PROVE  QueueInv'
  <1> USE DEF QueueInv
  <1>1. /\ Len(sent) \in Nat /\ Len(sent') \in Nat
        /\ DOMAIN sent = 1 .. Len(sent) /\ DOMAIN sent' = 1 .. Len(sent')
    BY LogTypes
  <1>2. \A k \in Slots : /\ SentBy(Slot(k))' = SentBy(Slot(k))
                         /\ IsRequest(Slot(k))' <=> IsRequest(Slot(k))
    BY DEF SentBy, IsRequest
  <1>3. SentBy(Slot(n))' = Len(sent') /\ (IsRequest(Slot(n))' <=> IsRequest(f))
    BY DEF SentBy, IsRequest
  <1>4. \A k \in Slots : SentBy(Slot(k)) \in 0 .. Len(sent)
    BY DEF WaitingIsSent
  <1>5. \A g \in AllFields : /\ log[g] \in Nat /\ log[g] <= Len(sent) /\ (log[g] # 0 => log[g] \in DOMAIN sent)
                             /\ over[g] \subseteq 1 .. Len(sent)
    BY <1>1, LogTypes
  <1>6. lost \subseteq 1 .. Len(sent)
    BY DEF Types
  <1>7. WaitingIsSent'
    <2>1. ASSUME NEW k \in Slots
          PROVE  /\ SentBy(Slot(k))' \in 0 .. Len(sent')
                 /\ ~ IsRequest(Slot(k))' =>
                       /\ Slot(k)'.mark \in DOMAIN sent' \ lost'
                       /\ sent'[Slot(k)'.mark].id = Slot(k)'.id
                       /\ sent'[Slot(k)'.mark].raw = Slot(k)'.raw
      BY <1>1, <1>2, <1>4 DEF WaitingIsSent
    <2>2. /\ SentBy(Slot(n))' \in 0 .. Len(sent')
          /\ ~ IsRequest(Slot(n))' =>
                /\ Slot(n)'.mark \in DOMAIN sent' \ lost'
                /\ sent'[Slot(n)'.mark].id = Slot(n)'.id
                /\ sent'[Slot(n)'.mark].raw = Slot(n)'.raw
      BY <1>1, <1>3, <1>6
    <2> QED BY <2>1, <2>2 DEF WaitingIsSent
  <1>8. WaitingInOrder'
    <2> SUFFICES ASSUME NEW j \in Slots', NEW k \in Slots', j < k
                 PROVE  /\ SentBy(Slot(j))' <= SentBy(Slot(k))'
                        /\ ~ IsRequest(Slot(k))' => SentBy(Slot(j))' < SentBy(Slot(k))'
      BY DEF WaitingInOrder
    <2>1. CASE j \in Slots /\ k \in Slots
      BY <1>2, <2>1 DEF WaitingInOrder
    <2>2. CASE j \in Slots /\ k = n
      BY <1>1, <1>2, <1>3, <1>4, <2>2
    <2>3. CASE j = n
      <3>1. \A l \in Slots : l \in Nat
        BY LogTypes
      <3>2. n < k /\ k \in Slots
        BY <2>3
      <3>3. k < n /\ k \in Nat
        BY <3>1, <3>2
      <3> QED BY <3>2, <3>3
    <2> QED BY <2>1, <2>2, <2>3
  <1>9. LogIsSent'
    <2>1. \A g \in AllFields : log'[g] # 0 =>
             log'[g] \notin lost' /\ log'[g] \notin over'[g] /\ g \in Fields(sent'[log'[g]].id)
      BY <1>5 DEF LogIsSent
    <2>2. \A g \in AllFields, k \in Slots :
             /\ log'[g] <= SentBy(Slot(k))'
             /\ ~ IsRequest(Slot(k))' => log'[g] < SentBy(Slot(k))' /\ Slot(k)'.mark \notin over'[g]
      BY <1>2 DEF LogIsSent
    <2>3. \A g \in AllFields :
             /\ log'[g] <= SentBy(Slot(n))'
             /\ ~ IsRequest(Slot(n))' => log'[g] < SentBy(Slot(n))' /\ Slot(n)'.mark \notin over'[g]
      BY <1>1, <1>3, <1>5
    <2>4. lambda' = IF "lambda" \in AllFields /\ log'["lambda"] # 0
                    THEN LambdaOf(sent'[log'["lambda"]].raw) ELSE lc2'
      BY <1>5 DEF LogIsSent
    <2> QED BY <2>1, <2>2, <2>3, <2>4 DEF LogIsSent
  <1>10. NothingForgotten'
    <2> SUFFICES ASSUME NEW m \in DOMAIN sent', m \notin lost
                 PROVE  \/ \E k \in Slots' : ~ IsRequest(Slot(k))' /\ Slot(k)'.mark = m
                        \/ \A g \in Fields(sent'[m].id) : log'[g] >= m \/ m \in over'[g]
      BY DEF NothingForgotten
    <2>1. CASE m \in DOMAIN sent
      <3>1. sent'[m] = sent[m]
        BY <2>1
      <3> QED BY <1>2, <2>1, <3>1 DEF NothingForgotten
    <2>2. CASE m \notin DOMAIN sent
      <3>1. ~ IsRequest(f) /\ m = Len(sent')
        BY <1>1, <2>2
      <3> QED BY <1>3, <3>1
    <2> QED BY <2>1, <2>2
  <1> QED BY <1>7, <1>8, <1>9, <1>10

\* A sensor's frame is sent, and there is no room for it.
LEMMA NoRoom ==
    ASSUME Types, QueueInv, UNCHANGED <<pc, frame, rx, log, lambda, over, lc2>>,
           sent' \in Seq(Sensors), Len(sent') = Len(sent) + 1,
           \A m \in DOMAIN sent : m \in DOMAIN sent' /\ sent'[m] = sent[m],
           lost' = lost \cup {Len(sent) + 1}
    PROVE  QueueInv'
  <1> USE DEF QueueInv
  <1>1. /\ Len(sent) \in Nat /\ DOMAIN sent = 1 .. Len(sent) /\ DOMAIN sent' = 1 .. Len(sent) + 1
    BY LogTypes
  <1>2. Slots' = Slots /\ \A k \in Slots : Slot(k)' = Slot(k)
    BY DEF Slots, Slot
  <1>3. \A k \in Slots : /\ SentBy(Slot(k))' = SentBy(Slot(k))
                         /\ IsRequest(Slot(k))' <=> IsRequest(Slot(k))
    BY <1>2 DEF SentBy, IsRequest
  <1>4. WaitingIsSent'
    BY <1>1, <1>2, <1>3 DEF WaitingIsSent
  <1>5. WaitingInOrder'
    BY <1>2, <1>3 DEF WaitingInOrder
  <1>6. LogIsSent'
    <2>1. \A g \in AllFields : /\ log[g] # Len(sent) + 1
                               /\ log[g] # 0 => sent'[log[g]] = sent[log[g]]
      BY <1>1, LogTypes
    <2> QED BY <1>2, <1>3, <2>1 DEF LogIsSent
  <1>7. NothingForgotten'
    BY <1>1, <1>2, <1>3 DEF NothingForgotten
  <1> QED BY <1>4, <1>5, <1>6, <1>7

Unchanged == UNCHANGED <<pc, frame, rx, log, lambda, over, lc2, sent, lost>>

LEMMA NothingMoved ==
    ASSUME QueueInv, Unchanged
    PROVE  QueueInv'
  <1> USE DEF QueueInv, Unchanged
  <1>1. Slots' = Slots /\ \A k \in Slots : Slot(k)' = Slot(k)
    BY DEF Slots, Slot
  <1>2. \A k \in Slots : /\ SentBy(Slot(k))' = SentBy(Slot(k))
                         /\ IsRequest(Slot(k))' <=> IsRequest(Slot(k))
    BY <1>1 DEF SentBy, IsRequest
  <1>3. WaitingIsSent'
    BY <1>1, <1>2 DEF WaitingIsSent
  <1>4. WaitingInOrder'
    BY <1>1, <1>2 DEF WaitingInOrder
  <1>5. LogIsSent'
    BY <1>1, <1>2 DEF LogIsSent
  <1>6. NothingForgotten'
    BY <1>1, <1>2 DEF NothingForgotten
  <1> QED BY <1>3, <1>4, <1>5, <1>6

\* Another device writes fields of the log between two drains.
LEMMA Overwritten ==
    ASSUME Types, QueueInv, pc = "idle", UNCHANGED <<pc, frame, rx, sent, lost>>,
           NEW fields, Overwrite(fields),
           IF "lambda" \in fields THEN lambda' = lc2' ELSE UNCHANGED <<lambda, lc2>>
    PROVE  QueueInv'
  <1> USE DEF QueueInv
  <1>1. Slots' = Slots /\ Slots = 1 .. Len(rx) /\ \A k \in Slots : Slot(k)' = Slot(k) /\ Slot(k) = rx[k]
    BY DEF Slots, Slot
  <1>2. \A k \in Slots : /\ SentBy(Slot(k))' = SentBy(Slot(k))
                         /\ IsRequest(Slot(k))' <=> IsRequest(Slot(k))
    BY <1>1 DEF SentBy, IsRequest
  <1>3. /\ \A f \in AllFields : log'[f] = IF f \in fields THEN 0 ELSE log[f]
        /\ \A f \in AllFields : over'[f] = IF f \in fields THEN Gone ELSE over[f]
    BY DEF Overwrite
  <1>4. \A k \in Slots : Slot(k) \in Waits
    <2>1. DOMAIN rx = 1 .. Len(rx)
      BY DEF Types
    <2> QED BY <1>1, <2>1 DEF Waits
  <1>5. \A k \in Slots : ~ IsRequest(Slot(k)) => Slot(k).mark \notin Gone
    BY <1>4 DEF Gone, IsRequest
  <1>6. WaitingIsSent'
    BY <1>1, <1>2 DEF WaitingIsSent
  <1>7. WaitingInOrder'
    BY <1>1, <1>2 DEF WaitingInOrder
  <1>8. LogIsSent'
    <2>1. \A f \in AllFields : log'[f] # 0 =>
             log'[f] \notin lost' /\ log'[f] \notin over'[f] /\ f \in Fields(sent'[log'[f]].id)
      BY <1>3 DEF LogIsSent
    <2>2. ASSUME NEW f \in AllFields, NEW k \in Slots
          PROVE  /\ log'[f] <= SentBy(Slot(k))
                 /\ ~ IsRequest(Slot(k)) => log'[f] < SentBy(Slot(k)) /\ Slot(k).mark \notin over'[f]
      <3>1. /\ log[f] \in Nat /\ log[f] <= SentBy(Slot(k)) /\ SentBy(Slot(k)) \in Nat
            /\ ~ IsRequest(Slot(k)) => log[f] < SentBy(Slot(k)) /\ Slot(k).mark \notin over[f]
        BY LogTypes DEF LogIsSent
      <3> QED BY <1>3, <1>5, <3>1
    <2>3. lambda' = IF "lambda" \in AllFields /\ log'["lambda"] # 0
                    THEN LambdaOf(sent'[log'["lambda"]].raw) ELSE lc2'
      BY <1>3 DEF LogIsSent
    <2> QED BY <1>1, <1>2, <2>1, <2>2, <2>3 DEF LogIsSent
  <1>9. NothingForgotten'
    <2> SUFFICES ASSUME NEW m \in DOMAIN sent, m \notin lost,
                        ~ \E k \in Slots : ~ IsRequest(Slot(k)) /\ Slot(k).mark = m,
                        NEW f \in Fields(sent[m].id)
                 PROVE  log'[f] >= m \/ m \in over'[f]
      BY <1>1, <1>2 DEF NothingForgotten
    <2>1. f \in AllFields
      BY LogTypes
    <2>2. log[f] >= m \/ m \in over[f]
      BY DEF NothingForgotten
    <2>3. m \in Gone
      <3>1. \A g \in Waits : \E k \in Slots : g = Slot(k)
        <4>1. DOMAIN rx = 1 .. Len(rx)
          BY DEF Types
        <4> QED BY <1>1, <4>1 DEF Waits
      <3> QED BY <3>1 DEF Gone, IsRequest
    <2> QED BY <1>3, <2>1, <2>2, <2>3
  <1> QED BY <1>6, <1>7, <1>8, <1>9

LEMMA QueueInvInit == CanInit => QueueInv
  <1> SUFFICES ASSUME CanInit PROVE QueueInv
    OBVIOUS
  <1>1. /\ Slots = {} /\ DOMAIN sent = {} /\ lambda = 0 /\ lc2 = 0
        /\ log = [f \in AllFields |-> 0]
    BY DEF CanInit, Slots
  <1> QED BY <1>1 DEF QueueInv, WaitingIsSent, WaitingInOrder, LogIsSent, NothingForgotten

LEMMA QueueInvNext == Types /\ QueueInv /\ [CanNext]_canVars => QueueInv'
  <1> SUFFICES ASSUME Types, QueueInv, [CanNext]_canVars PROVE QueueInv'
    OBVIOUS
  <1>1. rx \in Seq(Requests \cup SensorFrames) /\ sent \in Seq(Sensors)
    BY DEF Types
  <1>2. rx # <<>> => /\ Len(Tail(rx)) = Len(rx) - 1 /\ Len(rx) \in Nat
                     /\ \A k \in 1 .. Len(rx) - 1 : Tail(rx)[k] = rx[k + 1]
                     /\ Head(rx) = rx[1]
    BY <1>1
  <1>3. ASSUME rx # <<>>, pc # "parse", pc' = "parse", frame' = Head(rx), rx' = Tail(rx),
               UNCHANGED <<sent, lost, log, lambda, over, lc2>>
        PROVE  QueueInv'
    <2>1. Slots = 1 .. Len(rx) /\ Slots' = 0 .. Len(rx) - 1
      BY <1>2, <1>3 DEF Slots
    <2>2. \A k \in Slots' : k + 1 \in Slots /\ Slot(k)' = Slot(k + 1)
      BY <1>2, <1>3, <2>1 DEF Slot
    <2>3. \A k \in Slots : k - 1 \in Slots'
      BY <1>2, <1>3, <2>1
    <2> QED BY <1>3, <2>2, <2>3, MovedOn
  <1>4. ASSUME StartDrain PROVE QueueInv'
    BY <1>3, <1>4 DEF StartDrain, Readable, data
  <1>5. ASSUME ReadNext PROVE QueueInv'
    <2>1. pc = "next" /\ UNCHANGED <<sent, log, lambda, over, lc2>>
      BY <1>5 DEF ReadNext, data
    <2>2. CASE rx = <<>>
      <3>1. pc' = "idle" /\ rx' = rx /\ lost' = lost
        BY <1>5, <2>2 DEF ReadNext
      <3>2. Slots = {} /\ Slots' = {}
        BY <2>1, <2>2, <3>1 DEF Slots
      <3>3. \A k \in Slots' : k + 0 \in Slots /\ Slot(k)' = Slot(k + 0)
        BY <3>2
      <3>4. \A k \in Slots : k - 0 \in Slots'
        BY <3>2
      <3> QED BY <2>1, <3>1, <3>3, <3>4, MovedOn
    <2>3. CASE rx # <<>> /\ ~ AtLimit
      <3>1. pc' = "parse" /\ frame' = Head(rx) /\ rx' = Tail(rx) /\ lost' = lost
        BY <1>5, <2>3 DEF ReadNext
      <3> QED BY <1>3, <2>1, <2>3, <3>1
    <2>4. CASE rx # <<>> /\ AtLimit
      <3>1. /\ pc' = "idle" /\ rx' = Tail(rx)
            /\ lost' = lost \cup (IF Head(rx).id = "request" THEN {} ELSE {Head(rx).mark})
        BY <1>5, <2>4 DEF ReadNext
      <3>2. Slots = 1 .. Len(rx) /\ Slots' = 1 .. Len(rx) - 1 /\ Slot(1) = Head(rx)
        BY <1>2, <2>1, <2>4, <3>1 DEF Slots, Slot
      <3>3. \A k \in Slots' : k + 1 \in Slots /\ Slot(k)' = Slot(k + 1) /\ k > 0
        BY <1>2, <2>4, <3>1, <3>2 DEF Slot
      <3>4. \A k \in Slots : k # 1 => k - 1 \in Slots'
        BY <1>2, <2>4, <3>2
      <3>5. lost' = lost \cup (IF IsRequest(Slot(1)) THEN {} ELSE {Slot(1).mark})
        BY <3>1, <3>2 DEF IsRequest
      <3> QED BY <2>1, <2>4, <3>3, <3>4, <3>5, LostAtLimit
    <2> QED BY <2>2, <2>3, <2>4
  <1>6. ASSUME Parse PROVE QueueInv'
    <2>1. pc = "parse" /\ pc' = "next" /\ UNCHANGED <<rx, sent, lost>>
      BY <1>6 DEF Parse
    <2>2. Slots = 0 .. Len(rx) /\ Slots' = 1 .. Len(rx) /\ Slot(0) = frame /\ Len(rx) \in Nat
      BY <1>1, <2>1 DEF Slots, Slot
    <2>3. \A k \in Slots' : k \in Slots /\ Slot(k)' = Slot(k) /\ k > 0
      BY <2>1, <2>2 DEF Slot
    <2>4. \A k \in Slots : k # 0 => k \in Slots'
      BY <2>2
    <2>5. 0 \in Slots
      BY <2>2
    <2>6. CASE IsRequest(frame)
      <3>1. UNCHANGED <<log, lambda, over, lc2>>
        BY <1>6, <2>6 DEF Parse, IsRequest, data
      <3> QED BY <2>1, <2>2, <2>3, <2>4, <2>5, <2>6, <3>1, RequestTaken
    <2>7. CASE ~ IsRequest(frame)
      <3>1. StoreSensor
        BY <1>6, <2>7 DEF Parse, IsRequest
      <3> QED BY <2>1, <2>2, <2>3, <2>4, <2>5, <2>7, <3>1, SensorTaken
    <2> QED BY <2>6, <2>7
  <1>7. ASSUME UNCHANGED <<pc, frame, log, lambda, over, lc2>>,
               NEW f, rx' = Append(rx, f), NEW n, n = Len(rx) + 1
        PROVE  /\ n \in Nat /\ (\A k \in Slots : k < n)
               /\ Slots' = Slots \cup {n} /\ Slot(n)' = f /\ (\A k \in Slots : Slot(k)' = Slot(k))
    <2>1. Len(rx) \in Nat /\ Len(rx') = n
      BY <1>1, <1>7
    <2>2. rx'[n] = f /\ \A k \in 1 .. Len(rx) : rx'[k] = rx[k]
      BY <1>1, <1>7
    <2>3. n \in Nat /\ n > 0 /\ \A k \in Slots : k < n
      BY <1>7, <2>1 DEF Slots
    <2>4. Slots' = Slots \cup {n}
      BY <1>7, <2>1 DEF Slots
    <2>5. Slot(n)' = f
      BY <2>2, <2>3 DEF Slot
    <2>6. \A k \in Slots : Slot(k)' = Slot(k)
      BY <1>7, <2>1, <2>2 DEF Slot, Slots
    <2> QED BY <2>3, <2>4, <2>5, <2>6
  <1>8. ASSUME NEW s \in Sensors, SendSensor(s) PROVE QueueInv'
    <2>0. PICK f, n : f = [id |-> s.id, raw |-> s.raw, mark |-> Len(sent) + 1] /\ n = Len(rx) + 1
      OBVIOUS
    <2>1. /\ sent' = Append(sent, s) /\ UNCHANGED <<pc, frame, log, lambda, over, lc2>>
          /\ \/ rx' = Append(rx, f) /\ UNCHANGED lost
             \/ lost' = lost \cup {Len(sent) + 1} /\ UNCHANGED rx
      BY <1>8, <2>0 DEF SendSensor, data
    <2>2. /\ sent' \in Seq(Sensors) /\ Len(sent') = Len(sent) + 1 /\ Len(sent) \in Nat
          /\ DOMAIN sent = 1 .. Len(sent) /\ DOMAIN sent' = 1 .. Len(sent')
          /\ \A m \in DOMAIN sent : m \in DOMAIN sent' /\ sent'[m] = sent[m]
          /\ sent'[Len(sent')] = s
      BY <1>1, <2>1
    <2>3. ~ IsRequest(f) /\ SentBy(f) = Len(sent') /\ f.mark = Len(sent') /\ f.id = s.id /\ f.raw = s.raw
      BY <2>0, <2>2, SensorRaw DEF IsRequest, SentBy
    <2>4. CASE rx' = Append(rx, f) /\ UNCHANGED lost
      <3>1. /\ n \in Nat /\ (\A k \in Slots : k < n)
            /\ Slots' = Slots \cup {n} /\ Slot(n)' = f /\ (\A k \in Slots : Slot(k)' = Slot(k))
        BY <1>7, <2>0, <2>1, <2>4
      <3>2. UNCHANGED <<log, lost, lambda, over, lc2>>
        BY <2>1, <2>4
      <3>3. /\ Len(sent') >= Len(sent)
            /\ sent'[f.mark].id = f.id /\ sent'[f.mark].raw = f.raw
        BY <2>2, <2>3
      <3>4. IsRequest(f) => sent' = sent
        BY <2>3
      <3>5. ~ IsRequest(f) =>
              /\ Len(sent') = Len(sent) + 1 /\ f.mark = Len(sent')
              /\ sent'[f.mark].id = f.id /\ sent'[f.mark].raw = f.raw
        BY <2>2, <2>3, <3>3
      <3> QED BY <2>2, <2>3, <3>1, <3>2, <3>3, <3>4, <3>5, PutBehind
    <2>5. CASE lost' = lost \cup {Len(sent) + 1} /\ UNCHANGED rx
      BY <2>1, <2>2, <2>5, NoRoom
    <2> QED BY <2>1, <2>4, <2>5
  <1>9. ASSUME NEW r \in Asked, SendRequest(r) PROVE QueueInv'
    <2>0. PICK f, n : f = [r EXCEPT !.after = Len(sent)] /\ n = Len(rx) + 1
      OBVIOUS
    <2>1. /\ UNCHANGED <<pc, frame, log, lambda, over, lc2, sent, lost>>
          /\ \/ rx' = Append(rx, f)
             \/ rx' = rx
      BY <1>9, <2>0 DEF SendRequest, data
    <2>2. IsRequest(f) /\ SentBy(f) = Len(sent)
      <3>1. Len(sent) \in 0 .. MaxFrames
        BY Bounds DEF Types
      <3> QED BY <2>0, <3>1, SentRequest DEF IsRequest, SentBy
    <2>3. CASE rx' = Append(rx, f)
      <3>1. /\ n \in Nat /\ (\A k \in Slots : k < n)
            /\ Slots' = Slots \cup {n} /\ Slot(n)' = f /\ (\A k \in Slots : Slot(k)' = Slot(k))
        BY <1>7, <2>0, <2>1, <2>3
      <3>2. /\ sent' \in Seq(Sensors) /\ Len(sent') >= Len(sent)
            /\ \A m \in DOMAIN sent : m \in DOMAIN sent' /\ sent'[m] = sent[m]
        BY <1>1, <2>1
      <3>3. SentBy(f) = Len(sent') /\ IsRequest(f) /\ sent' = sent /\ UNCHANGED <<log, lost, lambda, over, lc2>>
        BY <2>1, <2>2
      <3> QED BY <3>1, <3>2, <3>3, PutBehind
    <2>4. CASE rx' = rx
      <3>1. Unchanged
        BY <2>1, <2>4 DEF Unchanged
      <3> QED BY <3>1, NothingMoved
    <2> QED BY <2>1, <2>3, <2>4
  <1>10. CASE StoreLc2
    BY <1>10, Overwritten DEF StoreLc2, loop
  <1>11. CASE ReadFC
    <2>1. "lambda" \notin Fields("front_controls")
      BY LambdaField
    <2> QED BY <1>11, <2>1, Overwritten DEF ReadFC, loop
  <1>12. CASE UNCHANGED canVars
    <2>1. Unchanged
      BY <1>12 DEF Unchanged, canVars, loop, data
    <2> QED BY <2>1, NothingMoved
  <1> QED BY <1>4, <1>5, <1>6, <1>8, <1>9, <1>10, <1>11, <1>12, BusCases
----------------------------------------------------------------------------
(* What follows.                                                           *)

LEMMA QueueAlways == CanSpec => [](Types /\ QueueInv)
  <1>1. Types /\ QueueInv /\ [CanNext]_canVars => (Types /\ QueueInv)'
    BY TypesNext, QueueInvNext DEF QueueInv
  <1> QED BY <1>1, TypesInit, QueueInvInit, PTL DEF CanSpec

LEMMA DrainAlways == CanSpec => []DrainInv
  BY DrainInvInit, DrainInvNext, PTL DEF CanSpec

\* The variables keep their types, and neither the socket nor the drain's count
\* passes its limit (TypeOK).
THEOREM CanTypes == CanSpec => []TypeOK
  <1>1. DrainInv /\ Types => TypeOK
    <2> SUFFICES ASSUME DrainInv, Types PROVE TypeOK
      OBVIOUS
    <2>1. pc \in {"idle", "parse", "next"} /\ i \in 0 .. DrainLimit
      BY DEF DrainInv, Counters
    <2>2. /\ Len(rx) <= RxCap /\ Len(sent) <= MaxFrames /\ asks <= MaxAsks
          /\ \A f \in AllFields : log[f] \in 0 .. Len(sent)
          /\ \A f \in AllFields : over[f] \subseteq 1 .. Len(sent)
          /\ {lambda, lc2} \subseteq 0 .. 2^16 - 1 /\ level \in Levels
          /\ lost \subseteq 1 .. Len(sent)
      BY DEF Types
    <2>3. \A f \in Waits : f.id = "request" => f \in Requests
      <3>1. \A f \in Waits : f \in Requests \cup SensorFrames
        BY DEF Types, Waits
      <3> QED BY <3>1, FrameForm DEF IsRequest
    <2> QED BY <2>1, <2>2, <2>3 DEF TypeOK
  <1> QED BY <1>1, QueueAlways, DrainAlways, PTL

\* No two messages set the same field.
LEMMA FieldsApart ==
    ASSUME NEW a, NEW b, NEW f \in Fields(a), f \in Fields(b)
    PROVE  a = b
  <1> DEFINE ids == {"body_position", "body_accel", "ignitech_wb_2", "gps_loc", "gps_nav",
                     "gps_stat", "gps_time", "front_controls"}
             Of(g) ==
               CASE g \in {"yaw", "pitch", "roll"} -> "body_position"
                 [] g \in {"acc_forward", "acc_side", "acc_vert"} -> "body_accel"
                 [] g = "lambda" -> "ignitech_wb_2"
                 [] g \in {"lat", "lon"} -> "gps_loc"
                 [] g \in {"altitude", "gps_speed", "gps_heading"} -> "gps_nav"
                 [] g \in {"satV", "satU", "gpsfix", "pdop", "hdop", "vdop"} -> "gps_stat"
                 [] g = "gpstime" -> "gps_time"
                 [] OTHER -> "front_controls"
  <1>1. ASSUME NEW id, NEW g \in Fields(id) PROVE id = Of(g)
    <2>1. id \in ids
      BY <1>1 DEF Fields
    <2> QED BY <1>1, <2>1 DEF Fields
  <1>2. a = Of(f)
    BY <1>1
  <1>3. b = Of(f)
    BY <1>1
  <1> QED BY <1>2, <1>3

\* When the socket is drained, every field of the log is of the newest frame of
\* its sensor that was not lost and came after what another device wrote last, or
\* shows what that device wrote, whatever the limit, the socket and the sensors:
\* the drain loop, can_parse(), readFC() and the LC-2 (LogIsNewest).
THEOREM LogNewest == CanSpec => []LogIsNewest
  <1>1. Types /\ QueueInv => LogIsNewest
    <2> SUFFICES ASSUME Types, QueueInv, pc = "idle", rx = <<>>,
                        NEW s \in Sensors, NEW f \in Fields(s.id)
                 PROVE  log[f] = Max({k \in DOMAIN sent : sent[k].id = s.id /\ k \notin lost \cup over[f]} \cup {0})
      BY DEF LogIsNewest
    <2> DEFINE marks == {k \in DOMAIN sent : sent[k].id = s.id /\ k \notin lost \cup over[f]}
               S == marks \cup {0}
    <2>1. Slots = {}
      BY DEF Slots
    <2>2. /\ f \in AllFields /\ log[f] \in Nat /\ log[f] <= Len(sent) /\ Len(sent) \in Nat
          /\ DOMAIN sent = 1 .. Len(sent)
      BY LogTypes DEF AllFields
    <2>3. log[f] \in S
      <3> SUFFICES ASSUME log[f] # 0 PROVE log[f] \in marks
        OBVIOUS
      <3>1. log[f] \notin lost /\ log[f] \notin over[f] /\ f \in Fields(sent[log[f]].id)
        BY <2>2 DEF QueueInv, LogIsSent
      <3>2. sent[log[f]].id = s.id
        BY <3>1, FieldsApart
      <3> QED BY <2>2, <3>1, <3>2
    <2>4. \A k \in S : k <= log[f]
      <3> SUFFICES ASSUME NEW k \in marks PROVE k <= log[f]
        BY <2>2
      <3>1. \A g \in Fields(sent[k].id) : log[g] >= k \/ k \in over[g]
        BY <2>1 DEF QueueInv, NothingForgotten
      <3> QED BY <2>2, <3>1
    <2>5. S \in SUBSET (0 .. Len(sent))
      BY <2>2
    <2>6. Max(S) \in S /\ \A y \in S : y <= Max(S)
      <3> HIDE DEF S
      <3> QED BY <2>2, <2>3, <2>5, HasMax
    <2>7. Max(S) \in Nat
      BY <2>5, <2>6
    <2>8. log[f] = Max(S)
      <3> HIDE DEF S
      <3> QED BY <2>2, <2>3, <2>4, <2>6, <2>7
    <2> QED BY <2>8
  <1> QED BY <1>1, QueueAlways, PTL
----------------------------------------------------------------------------
(* What is answered.                                                       *)

Words == {0, 28, 32, 64, 96}

LEMMA EncodeSomething ==
    ASSUME NEW c, NEW r
    PROVE  Encode(c, r) # {}
  <1> DEFINE raw == Toward0(r - 4 * c.den * c.off, 4 * c.num)
             lower == IF raw > 0 /\ (r - 4 * c.den * c.off) % (4 * c.num) = 0 /\ ~Dyadic(c)
                      THEN {raw - 1} ELSE {}
  <1>1. Encode(c, r) = IF FitsType(c, raw) THEN {Bits(q, c.bits) : q \in {raw} \cup lower}
                       ELSE {Bits(raw, c.bits), {}, 0 .. c.bits - 1}
    BY DEF Encode
  <1>2. raw \in {raw} \cup lower
    OBVIOUS
  <1> HIDE DEF raw, lower
  <1> QED BY <1>1, <1>2

\* An answer of service 01 is for its PID, and carries the first field of it or,
\* for 0x80 and 0xA0, the word of 0x60.
LEMMA CurrentForm ==
    ASSUME NEW p, NEW lv, NEW a \in CurrentData(p, lv)
    PROVE  /\ a.mode = 1 /\ a.pid = p
           /\ \/ p \in Words /\ a.set = Field(S1(p, 1), Constant(p))
              \/ /\ p \in ReadOut
                 /\ \E v \in Encode(Obd2Conv(S1(p, 1)), Reading(p, lv)) : a.set = Field(S1(p, 1), v)
              \/ p \in {128, 160} /\ \E v : a.set = Field(S1(96, 1), v)
  <1>1. CASE p \in Words
    <2>1. CurrentData(p, lv) = {Answer(1, p, Field(S1(p, 1), Constant(p)))}
      BY <1>1 DEF CurrentData, Words, ReadOut
    <2> QED BY <1>1, <2>1 DEF Answer
  <1>2. CASE p \in ReadOut
    <2>1. CurrentData(p, lv) = ShowReading(p, lv)
      BY <1>2 DEF CurrentData, ReadOut
    <2>2. PICK v \in Encode(Obd2Conv(S1(p, 1)), Reading(p, lv)) :
            a = Answer(1, p, Field(S1(p, 1), v))
      BY <2>1 DEF ShowReading
    <2>3. a.mode = 1 /\ a.pid = p /\ a.set = Field(S1(p, 1), v)
      BY <2>2 DEF Answer
    <2> QED BY <1>2, <2>3
  <1>3. CASE p \in {128, 160}
    <2>1. PICK v : a = Answer(1, p, Field(S1(96, 1), v))
      BY <1>3 DEF CurrentData
    <2> QED BY <1>3, <2>1 DEF Answer
  <1>4. p \in Words \cup ReadOut \cup {128, 160}
    BY DEF CurrentData, Words, ReadOut
  <1> QED BY <1>1, <1>2, <1>3, <1>4

LEMMA CurrentAnswered ==
    ASSUME NEW p \in Words \cup ReadOut, NEW lv
    PROVE  CurrentData(p, lv) # {}
  <1>1. CASE p \in Words
    BY <1>1 DEF CurrentData, Words, ReadOut
  <1>2. CASE p \in ReadOut
    <2>1. CurrentData(p, lv) = ShowReading(p, lv)
      BY <1>2 DEF CurrentData, ReadOut
    <2>2. Encode(Obd2Conv(S1(p, 1)), Reading(p, lv)) # {}
      BY EncodeSomething
    <2> QED BY <2>1, <2>2 DEF ShowReading
  <1> QED BY <1>1, <1>2

\* An answer of service 35 is for its PID, and carries the number of its value.
LEMMA CustomForm ==
    ASSUME NEW p, NEW lv, NEW a \in Custom(p, lv)
    PROVE  /\ a.mode = 53 /\ a.pid = p /\ p \in 1 .. 4
           /\ a.set = Field(<<"custom", p, 1>>, Bits(CustomValue(p, lv), CustomConv(p).bits))
  <1>1. p \in 1 .. 4
    BY DEF Custom
  <1>2. a = Answer(53, p, Field(<<"custom", p, 1>>, Bits(CustomValue(p, lv), CustomConv(p).bits)))
    BY <1>1 DEF Custom
  <1> QED BY <1>1, <1>2 DEF Answer

LEMMA CustomFor == \A p, lv : \A a \in Custom(p, lv) : a.mode = 53 /\ a.pid = p
  <1> SUFFICES ASSUME NEW p, NEW lv, NEW a \in Custom(p, lv)
               PROVE  a.mode = 53 /\ a.pid = p
    OBVIOUS
  <1>1. \E v, f : a = Answer(53, p, Field(f, v))
    BY DEF Custom
  <1> QED BY <1>1 DEF Answer

\* The PIDs a scan tool learns of: those of the words 0x00, 0x20 and 0x40.
Scanned == {0, 11, 12, 13, 14, 17, 28, 32, 36, 64, 66, 92}

LEMMA AnnouncedIsScanned ==
    ASSUME NEW mode, NEW p, NEW lv, NEW a \in Answers(mode, p, lv),
           a.mode = 1, a.pid \in Scanned \cap Ranges
    PROVE  Announced(a.pid, a) \subseteq Scanned
  <1>1. mode = 1 /\ a \in CurrentData(p, lv)
    <2>1. a \notin Custom(p, lv)
      BY CustomFor
    <2> QED BY <2>1 DEF Answers
  <1>2. p = a.pid /\ p \in {0, 32, 64}
    BY <1>1, CurrentForm DEF Scanned, Ranges
  <1>3. a.set = Field(S1(p, 1), Constant(p))
    BY <1>1, <1>2, CurrentForm DEF ReadOut
  <1>4. a.set[S1(p, 1)] = Constant(p)
    BY <1>3 DEF Field
  <1>5. Announced(p, a) \subseteq {p + 32 - b : b \in Constant(p)}
    BY <1>4 DEF Announced
  <1>6. \A b \in Constant(p) : p + 32 - b \in Scanned
    BY <1>2 DEF Constant, Scanned
  <1> QED BY <1>2, <1>5, <1>6

LEMMA KnownInit == CanInit => known \subseteq Scanned
  BY DEF CanInit, Scanned

LEMMA KnownNext == known \subseteq Scanned /\ [CanNext]_canVars => (known \subseteq Scanned)'
  <1> SUFFICES ASSUME known \subseteq Scanned, [CanNext]_canVars PROVE known' \subseteq Scanned
    OBVIOUS
  <1>1. ASSUME Parse PROVE known' \subseteq Scanned
    <2>1. Process(frame) \/ UNCHANGED tool
      BY <1>1 DEF Parse
    <2>2. CASE Process(frame) /\ known' # known
      <3>1. PICK mode, p, a : /\ a \in Answers(mode, p, level)
                              /\ a.mode = 1 /\ a.pid \in known \cap Ranges
                              /\ known' = known \cup Announced(a.pid, a)
        <4>1. PICK m \in Understood(frame) : \E a \in Answers(m[1], m[2], level) :
                 known' = known \cup (IF a.mode = 1 /\ a.pid \in known \cap Ranges
                                      THEN Announced(a.pid, a) ELSE {})
          BY <2>2 DEF Process, tool
        <4>2. PICK a \in Answers(m[1], m[2], level) :
                 known' = known \cup (IF a.mode = 1 /\ a.pid \in known \cap Ranges
                                      THEN Announced(a.pid, a) ELSE {})
          BY <4>1
        <4>3. a.mode = 1 /\ a.pid \in known \cap Ranges
          BY <2>2, <4>2
        <4> QED BY <4>2, <4>3
      <3> QED BY <3>1, AnnouncedIsScanned
    <2> QED BY <2>1, <2>2 DEF tool
  <1>2. ASSUME ~ Parse PROVE known' = known
    BY <1>2, BusCases DEF StartDrain, ReadNext, SendSensor, SendRequest, StoreLc2, ReadFC, canVars, tool
  <1> QED BY <1>1, <1>2

\* A scan tool that starts from PID 0 only asks for PIDs that are answered, each
\* with its own word: obd2_process() (ScanIsTrue).
THEOREM ScanTrue == CanSpec => []ScanIsTrue
  <1>1. known \subseteq Scanned => ScanIsTrue
    <2> SUFFICES ASSUME NEW p \in Scanned
                 PROVE  /\ Answers(1, p, level) # {}
                        /\ \A a \in Answers(1, p, level) : S1(p, 1) \in DOMAIN a.set
      BY DEF ScanIsTrue
    <2>1. p \in Words \cup ReadOut /\ p \notin {128, 160}
      BY DEF Scanned, Words, ReadOut
    <2>2. Answers(1, p, level) = CurrentData(p, level)
      BY DEF Answers
    <2>3. Answers(1, p, level) # {}
      BY <2>1, <2>2, CurrentAnswered
    <2>4. ASSUME NEW a \in Answers(1, p, level) PROVE S1(p, 1) \in DOMAIN a.set
      <3>1. \E v : a.set = Field(S1(p, 1), v)
        BY <2>1, <2>2, CurrentForm
      <3> QED BY <3>1 DEF Field
    <2> QED BY <2>3, <2>4
  <1> QED BY <1>1, KnownInit, KnownNext, PTL DEF CanSpec
----------------------------------------------------------------------------
(* What an answer shows.                                                   *)

\* The lambda in the log is of the newest frame sent before the request in hand,
\* or the LC-2's if that came after it.
LEMMA LambdaIsNewest ==
    ASSUME Types, QueueInv, pc = "parse", IsRequest(frame)
    PROVE  \/ LambdaFrames = {} /\ lambda = lc2
           \/ /\ LambdaFrames # {} /\ lambda = LambdaOf(sent[Max(LambdaFrames)].raw)
              /\ sent[Max(LambdaFrames)] \in Sensors
              /\ sent[Max(LambdaFrames)].id = "ignitech_wb_2"
  <1> DEFINE n == frame.after
             marks == LambdaFrames
             shown == log["lambda"]
  <1>1. 0 \in Slots /\ Slot(0) = frame /\ \A k \in Slots : k = 0 \/ 0 < k
    BY LogTypes DEF Slots, Slot, Types
  <1>2. SentBy(Slot(0)) = n
    BY <1>1 DEF SentBy
  <1>3. n \in Nat /\ n <= Len(sent) /\ Len(sent) \in Nat /\ DOMAIN sent = 1 .. Len(sent)
    BY <1>1, <1>2, LogTypes DEF QueueInv, WaitingIsSent
  <1>4. marks \subseteq 1 .. n
    BY DEF LambdaFrames
  <1>5. \A k \in marks : /\ k \in DOMAIN sent /\ k <= n /\ k \notin lost /\ k \notin over["lambda"]
                        /\ sent[k].id = "ignitech_wb_2" /\ sent[k] \in Sensors
    BY <1>3, LogTypes DEF LambdaFrames
  <1>6. lambda = IF "lambda" \in AllFields /\ shown # 0 THEN LambdaOf(sent[shown].raw) ELSE lc2
    BY DEF QueueInv, LogIsSent
  <1>7. CASE "lambda" \notin AllFields
    <2>1. marks = {}
      <3> SUFFICES ASSUME NEW k \in marks PROVE FALSE
        OBVIOUS
      <3> QED BY <1>5, <1>7, LambdaIsSet DEF AllFields
    <2> QED BY <1>6, <1>7, <2>1
  <1>8. CASE "lambda" \in AllFields
    <2>1. shown \in Nat /\ shown <= n
      BY <1>1, <1>2, <1>8, LogTypes DEF QueueInv, LogIsSent
    <2>2. shown # 0 => shown \in marks
      <3> SUFFICES ASSUME shown # 0 PROVE shown \in marks
        OBVIOUS
      <3>1. shown \notin lost /\ shown \notin over["lambda"] /\ "lambda" \in Fields(sent[shown].id)
        BY <1>8 DEF QueueInv, LogIsSent
      <3>2. sent[shown].id = "ignitech_wb_2"
        BY <3>1, LambdaField
      <3> QED BY <2>1, <3>1, <3>2, <1>3 DEF LambdaFrames
    <2>3. \A k \in marks : k <= shown
      <3> SUFFICES ASSUME NEW k \in marks PROVE k <= shown
        OBVIOUS
      <3>1. ~ \E j \in Slots : ~ IsRequest(Slot(j)) /\ Slot(j).mark = k
        <4> SUFFICES ASSUME NEW j \in Slots, ~ IsRequest(Slot(j)), Slot(j).mark = k PROVE FALSE
          OBVIOUS
        <4>1. j # 0
          BY <1>1
        <4>2. SentBy(Slot(0)) < SentBy(Slot(j))
          BY <1>1, <4>1 DEF QueueInv, WaitingInOrder
        <4>3. SentBy(Slot(j)) = k
          BY LogTypes
        <4> QED BY <1>2, <1>3, <1>5, <4>2, <4>3
      <3>2. \A f \in Fields(sent[k].id) : log[f] >= k \/ k \in over[f]
        BY <3>1, <1>5 DEF QueueInv, NothingForgotten
      <3> QED BY <3>2, <1>5, <2>1, LambdaIsSet
    <2>4. CASE shown = 0
      <3>1. marks = {}
        BY <1>3, <1>4, <2>3, <2>4
      <3> QED BY <1>6, <2>4, <3>1
    <2>5. CASE shown # 0
      <3>1. marks \in SUBSET (0 .. n) /\ marks # {}
        BY <1>4, <2>2, <2>5
      <3> HIDE DEF marks, shown
      <3>2. Max(marks) \in marks /\ \A y \in marks : y <= Max(marks)
        BY <1>3, <3>1, HasMax
      <3>3. Max(marks) = shown
        <4> HIDE DEF n
        <4>1. n \in Nat /\ Max(marks) \in 0 .. n
          BY <1>3, <3>1, <3>2
        <4> QED BY <2>1, <2>2, <2>3, <2>5, <3>2, <4>1
      <3>4. lambda = LambdaOf(sent[Max(marks)].raw)
        BY <1>6, <1>8, <2>5, <3>3
      <3>5. sent[Max(marks)] \in Sensors /\ sent[Max(marks)].id = "ignitech_wb_2"
        BY <1>5, <3>2
      <3> QED BY <3>1, <3>4, <3>5 DEF marks
    <2> QED BY <2>4, <2>5
  <1> QED BY <1>7, <1>8

\* The conversions of the read-outs.
IsScaled(c) ==
    /\ c.signed = FALSE /\ c.bits \in {8, 16, 32}
    /\ c.num \in Nat \ {0} /\ c.den \in Nat /\ c.off \in Int

LEMMA ShownConv ==
    ASSUME NEW p \in ReadOut
    PROVE  IsScaled(Obd2Conv(S1(p, 1))) /\ (p # 166 => Obd2Conv(S1(p, 1)).bits \in {8, 16})
  <1>1. Obd2Conv(S1(p, 1)) = ConvFirst(p)
    BY DEF Obd2Conv, S1
  <1>2. p = 17 => ConvFirst(p) = Engine
    <2>1. ConvFirst(17) = Conv09to11(17)
      BY SMT DEF ConvFirst
    <2> QED BY <2>1 DEF Conv09to11
  <1>3. IsScaled(Engine) /\ Engine.bits = 8
    <2>1. Engine = [Scaled(8, 2451, 6250, 0) EXCEPT !.first = 0, !.last = 254]
      BY DEF Engine, UpTo, Between
    <2> QED BY <2>1 DEF IsScaled, Scaled
  <1>4. p = 11 => ConvFirst(p) = Plain(8)
    <2>1. ConvFirst(11) = Conv09to11(11)
      BY SMT DEF ConvFirst
    <2> QED BY <2>1 DEF Conv09to11
  <1>5. p = 12 => ConvFirst(p) = Scaled(16, 1, 4, 0)
    <2>1. ConvFirst(12) = Conv09to11(12)
      BY SMT DEF ConvFirst
    <2> QED BY <2>1 DEF Conv09to11
  <1>6. p = 13 => ConvFirst(p) = Plain(8)
    <2>1. ConvFirst(13) = Conv09to11(13)
      BY SMT DEF ConvFirst
    <2> QED BY <2>1 DEF Conv09to11
  <1>7. p = 14 => ConvFirst(p) = Scaled(8, 1, 2, -64)
    <2>1. ConvFirst(14) = Conv09to11(14)
      BY SMT DEF ConvFirst
    <2> QED BY <2>1 DEF Conv09to11
  <1>8. p = 36 => ConvFirst(p) = Ratio
    <2>1. ConvFirst(36) = Conv1Bto24(36)
      BY SMT DEF ConvFirst
    <2> QED BY <2>1 DEF Conv1Bto24
  <1>9. p = 66 => ConvFirst(p) = Scaled(16, 1, 1000, 0)
    <2>1. ConvFirst(66) = Conv3Dto44(66)
      BY SMT DEF ConvFirst
    <2> QED BY <2>1 DEF Conv3Dto44
  <1>10. p = 92 => ConvFirst(p) = Celsius
    <2>1. ConvFirst(92) = Conv55to5C(92)
      BY SMT DEF ConvFirst
    <2> QED BY <2>1 DEF Conv55to5C
  <1>11. p = 166 => ConvFirst(p) = Scaled(32, 1, 10, 0)
    <2>1. ConvFirst(166) = Conv6DtoA6(166)
      BY SMT DEF ConvFirst
    <2> QED BY <2>1 DEF Conv6DtoA6
  <1>12. CASE p \in {11, 13, 12, 14}
    <2>1. ConvFirst(p) \in {Scaled(8, 1, 1, 0), Scaled(16, 1, 4, 0), Scaled(8, 1, 2, -64)}
      BY <1>4, <1>5, <1>6, <1>7, <1>12 DEF Plain
    <2>2. ASSUME NEW c \in {Scaled(8, 1, 1, 0), Scaled(16, 1, 4, 0), Scaled(8, 1, 2, -64)}
          PROVE  IsScaled(c) /\ c.bits \in {8, 16}
      BY DEF IsScaled, Scaled
    <2> QED BY <1>1, <2>1, <2>2
  <1>13. CASE p \in {36, 66, 92}
    <2>1. ConvFirst(p) \in {Scaled(16, 1, 32768, 0), Scaled(16, 1, 1000, 0), Scaled(8, 1, 1, -40)}
      BY <1>8, <1>9, <1>10, <1>13 DEF Ratio, Celsius
    <2>2. ASSUME NEW c \in {Scaled(16, 1, 32768, 0), Scaled(16, 1, 1000, 0), Scaled(8, 1, 1, -40)}
          PROVE  IsScaled(c) /\ c.bits \in {8, 16}
      BY SMT DEF IsScaled, Scaled
    <2> QED BY <1>1, <2>1, <2>2
  <1>14. CASE p = 17
    BY <1>1, <1>2, <1>3, <1>14
  <1>15. CASE p = 166
    <2>1. IsScaled(Scaled(32, 1, 10, 0))
      BY DEF IsScaled, Scaled
    <2> QED BY <1>1, <1>11, <1>15, <2>1
  <1> QED BY <1>12, <1>13, <1>14, <1>15 DEF ReadOut

\* The read-outs are numbers of quarter steps.
LEMMA PickIsOne ==
    ASSUME NEW lv \in Levels, NEW low, NEW mid, NEW high
    PROVE  Pick(lv, low, mid, high) \in {low, mid, high}
  BY BusAssumption DEF Pick

LEMMA PickInt ==
    ASSUME NEW lv \in Levels, NEW low \in Int, NEW mid \in Int, NEW high \in Int
    PROVE  Pick(lv, low, mid, high) \in Int
  BY PickIsOne

LEMMA ReadingType ==
    ASSUME NEW p \in ReadOut, NEW lv \in Levels, lambda \in 0 .. 2^16 - 1
    PROVE  Reading(p, lv) \in Int
  <1>1. Q(p) \in Int
    <2>1. Obd2Conv(S1(p, 1)).den \in Nat
      BY ShownConv DEF IsScaled
    <2> QED BY <2>1 DEF Q
  <1>2. \A x \in Int : Km(x) \in Int
    BY DEF Km
  <1>3. \A low, mid, high \in Int : Pick(lv, low, mid, high) \in Int
    BY PickIsOne
  <1>4. \A low, mid, high \in Int : Q(p) * Pick(lv, low, mid, high) \in Int
    <2> SUFFICES ASSUME NEW low \in Int, NEW mid \in Int, NEW high \in Int
                 PROVE  Q(p) * Pick(lv, low, mid, high) \in Int
      OBVIOUS
    <2>1. Pick(lv, low, mid, high) \in Int
      BY <1>3
    <2>2. \A x, y \in Int : x * y \in Int
      OBVIOUS
    <2> QED BY <1>1, <2>1, <2>2, Zenon
  <1>5. CASE p = 11
    <2>1. Reading(p, lv) = Q(p) * Pick(lv, 0, 101, 300)
      BY <1>5 DEF Reading
    <2> QED BY <1>4, <2>1
  <1>6. CASE p = 12
    <2>1. Reading(p, lv) = Q(p) * Pick(lv, 0, 6000, 17000)
      BY <1>6 DEF Reading
    <2> QED BY <1>4, <2>1
  <1>7. CASE p = 13
    <2>1. Reading(p, lv) = Km(Q(p) * Pick(lv, 0, 60, 170))
      BY <1>7 DEF Reading
    <2> QED BY <1>2, <1>4, <2>1
  <1>8. CASE p = 14
    <2>1. Reading(p, lv) = Q(p) * Pick(lv, 0, 20, 100)
      BY <1>8 DEF Reading
    <2> QED BY <1>4, <2>1
  <1>9. CASE p = 17
    <2>1. Reading(p, lv) = Q(p) * Pick(lv, 0, 50, 100)
      BY <1>9 DEF Reading
    <2> QED BY <1>4, <2>1
  <1>10. CASE p = 36
    <2>1. Reading(p, lv) = (Q(p) * lambda) \div 1000
      BY <1>10 DEF Reading
    <2> QED BY <1>1, <2>1
  <1>11. CASE p = 66
    <2>1. Reading(p, lv) = Q(p) * Pick(lv, 0, 13, 70)
      BY <1>11 DEF Reading
    <2> QED BY <1>4, <2>1
  <1>12. CASE p = 92
    <2>1. Reading(p, lv) = (Q(p) * (Pick(lv, -40, 200, 500) - 32) * 5) \div 9
      BY <1>12 DEF Reading
    <2>2. Pick(lv, -40, 200, 500) - 32 \in Int
      BY PickInt
    <2>3. Q(p) * (Pick(lv, -40, 200, 500) - 32) * 5 \in Int
      BY <1>1, <2>2
    <2> QED BY <2>1, <2>3
  <1>13. CASE p = 166
    <2>1. Reading(p, lv) = Km((Q(p) * Pick(lv, 0, 2345, 99999)) \div 100)
      BY <1>13 DEF Reading
    <2>2. Q(p) * Pick(lv, 0, 2345, 99999) \in Int
      BY <1>4, SMT
    <2>3. (Q(p) * Pick(lv, 0, 2345, 99999)) \div 100 \in Int
      BY <2>2, SMT
    <2> QED BY <1>2, <2>1, <2>3, SMT
  <1> QED BY <1>5, <1>6, <1>7, <1>8, <1>9, <1>10, <1>11, <1>12, <1>13 DEF ReadOut

LEMMA SmallOdometer ==
    ASSUME NEW lv \in Levels
    PROVE  LET c == Obd2Conv(S1(166, 1))
           IN  (Reading(166, lv) - 4 * c.den * c.off) \div (4 * c.num) < Two(31)
  <1> DEFINE c == Obd2Conv(S1(166, 1))
             miles == Pick(lv, 0, 2345, 99999)
  <1>1. c = Scaled(32, 1, 10, 0)
    <2>1. ConvFirst(166) = Conv6DtoA6(166)
      BY SMT DEF ConvFirst
    <2>2. Conv6DtoA6(166) = Scaled(32, 1, 10, 0)
      BY DEF Conv6DtoA6
    <2> QED BY <2>1, <2>2 DEF Obd2Conv, S1
  <1>2. c.num = 1 /\ c.den = 10 /\ c.off = 0
    BY <1>1 DEF Scaled
  <1>3. miles \in Int /\ 0 <= miles /\ miles <= 99999
    BY PickIsOne, SMT
  <1>4. Reading(166, lv) = Km((Q(166) * miles) \div 100)
    BY DEF Reading
  <1>5. Q(166) = 40
    BY <1>2 DEF Q
  <1> HIDE DEF miles
  <1>6. \A x \in Int : 0 <= x /\ x <= 99999 =>
           LET y == (40 * x) \div 100 IN y \in Int /\ 0 <= y /\ y <= 40000
    BY SMT
  <1>7. \A y \in Int : 0 <= y /\ y <= 40000 => Km(y) \in Int /\ 0 <= Km(y) /\ Km(y) <= 100000
    BY SMT DEF Km
  <1>8. PICK r \in Int : r = Reading(166, lv) /\ 0 <= r /\ r <= 100000
    <2>1. PICK y \in Int : y = (40 * miles) \div 100 /\ 0 <= y /\ y <= 40000
      BY <1>3, <1>6, SMT
    <2>2. Km(y) \in Int /\ 0 <= Km(y) /\ Km(y) <= 100000
      BY <1>7, <2>1, SMT
    <2>3. Reading(166, lv) = Km(y)
      BY <1>4, <1>5, <2>1
    <2> QED BY <2>2, <2>3
  <1>9. Two(31) = 2147483648
    BY SMT DEF Two
  <1>10. (r - 4 * 10 * 0) \div (4 * 1) < 2147483648
    BY <1>8, SMT
  <1> QED BY <1>2, <1>8, <1>9, <1>10 DEF c

\* An answer of service 01 shows the reading, if the field can hold it.
LEMMA CurrentShows ==
    ASSUME NEW p \in ReadOut, NEW lv \in Levels, lambda \in 0 .. 2^16 - 1,
           NEW a \in CurrentData(p, lv), InType(a, {Reading(p, lv)})
    PROVE  Shows(a, {Reading(p, lv)})
  <1> DEFINE c == Obd2Conv(S1(p, 1))
             r == Reading(p, lv)
             raw == (r - 4 * c.den * c.off) \div (4 * c.num)
  <1>1. PICK v \in Encode(c, r) : a.set = Field(S1(p, 1), v)
    BY CurrentForm DEF ReadOut, Words
  <1>2. DOMAIN a.set = {S1(p, 1)} /\ a.set[S1(p, 1)] = v
    BY <1>1 DEF Field
  <1>3. AnswerConv(S1(p, 1)) = c
    BY DEF AnswerConv, S1
  <1>4. FitsType(c, raw)
    BY <1>2, <1>3 DEF InType
  <1>5. c.signed = FALSE /\ c.bits \in 0 .. 32 /\ c.num \in Nat \ {0} /\ c.den \in Nat /\ c.off \in Int
    <2>1. IsScaled(c)
      BY ShownConv
    <2> HIDE DEF c
    <2> QED BY <2>1 DEF IsScaled
  <1>6. r \in Int
    BY ReadingType
  <1>7. raw < Two(31)
    <2>1. CASE p = 166
      BY <2>1, SmallOdometer
    <2>2. CASE p # 166
      <3>1. c.bits \in {8, 16}
        BY <2>2, ShownConv
      <3>2. raw < Two(c.bits)
        BY <1>4, <1>5, <3>1 DEF FitsType, Two
      <3>3. raw \in Int
        BY <1>5, <1>6
      <3>4. Two(8) < Two(31) /\ Two(16) < Two(31) /\ Two(8) \in Int /\ Two(16) \in Int /\ Two(31) \in Int
        BY DEF Two
      <3> HIDE DEF c, raw
      <3> QED BY <3>1, <3>2, <3>3, <3>4
    <2> QED BY <2>1, <2>2
  <1> HIDE DEF c, r
  <1>8. Decode(c, v) <= r /\ r - Decode(c, v) <= 4 * c.num
    <2>1. raw >= 0
      BY <1>4, <1>5 DEF FitsType
    <2> QED BY <2>1, <1>4, <1>5, <1>6, <1>7, EncodeWithinStep
  <1>9. \A f \in DOMAIN a.set : AnswerConv(f) = c /\ a.set[f] = v
    BY <1>2, <1>3
  <1>10. Shows(a, {r})
    BY <1>8, <1>9 DEF Shows
  <1> QED BY <1>10 DEF r

LEMMA GearValue == \A lv : CustomValue(2, lv) = GearByte(Pick(lv, "", "N", "3"))
  BY SMT DEF CustomValue

\* And one of service 35 the value.
LEMMA CustomShows ==
    ASSUME NEW p, NEW lv \in Levels, NEW a \in Custom(p, lv), InType(a, {4 * CustomValue(p, lv)})
    PROVE  Shows(a, {4 * CustomValue(p, lv)})
  <1> DEFINE c == CustomConv(p)
             f0 == <<"custom", p, 1>>
             n == CustomValue(p, lv)
             v == Bits(n, c.bits)
  <1>1. p \in 1 .. 4 /\ a.set = Field(f0, v)
    BY CustomForm
  <1>2. DOMAIN a.set = {f0} /\ a.set[f0] = v
    BY <1>1 DEF Field
  <1>3. AnswerConv(f0) = c
    BY DEF AnswerConv
  <1>4. /\ c.signed = FALSE /\ c.bits \in {8, 16, 32} /\ c.num = 1 /\ c.den = 1 /\ c.off = 0
    BY DEF CustomConv, Plain, Scaled
  <1>5. n \in Int /\ n < Two(31)
    <2>1. Two(31) = 2147483648
      BY SMT DEF Two
    <2>2. CASE p = 1
      <3>1. n = Pick(lv, 0, 5, 7)
        BY <2>2 DEF CustomValue
      <3> QED BY <2>1, <3>1, PickIsOne, SMT
    <2>3. CASE p = 2
      <3>1. n = GearByte(Pick(lv, "", "N", "3"))
        BY <2>3, GearValue
      <3>2. Pick(lv, "", "N", "3") \in {"", "N", "3"}
        BY PickIsOne
      <3>3. GearByte("") = -48 /\ GearByte("N") = 0 /\ GearByte("3") = 3
        BY DEF GearByte
      <3>4. n \in {0, 3, -48}
        BY <3>1, <3>2, <3>3
      <3> QED BY <2>1, <3>4, SMT
    <2>4. CASE p = 3
      <3>1. n = Pick(lv, 0, 60, 70000)
        BY <2>4, SMT DEF CustomValue
      <3> QED BY <2>1, <3>1, PickIsOne, SMT
    <2>5. CASE p = 4
      <3>1. n = Km(Pick(lv, 0, 1234, 80000)) \div 10
        BY <2>5, SMT DEF CustomValue
      <3>2. PICK y \in Int : y = Pick(lv, 0, 1234, 80000) /\ 0 <= y /\ y <= 80000
        BY PickIsOne
      <3>3. \A x \in Int : 0 <= x /\ x <= 80000 =>
               LET z == Km(x) \div 10 IN z \in Int /\ z <= 20000
        BY SMT DEF Km
      <3>4. PICK z \in Int : z = Km(y) \div 10 /\ z <= 20000
        BY <3>2, <3>3, SMT
      <3> QED BY <2>1, <3>1, <3>2, <3>4
    <2> QED BY <1>1, <2>2, <2>3, <2>4, <2>5
  <1>6. FitsType(c, (4 * n - 4 * c.den * c.off) \div (4 * c.num))
    BY <1>1, <1>2, <1>3 DEF InType
  <1>7. (4 * n - 4 * c.den * c.off) \div (4 * c.num) = n
    BY <1>4, <1>5
  <1>8. n >= 0 /\ (c.bits < 31 => n < Two(c.bits))
    BY <1>4, <1>6, <1>7 DEF FitsType, Two
  <1> HIDE DEF c, n
  <1>9. Number(c, v) = n
    <2>1. c.bits \in 0 .. 32 /\ n \in Nat
      BY <1>4, <1>5, <1>8
    <2> QED BY <1>4, <1>5, <1>8, <2>1, NumberOfBits
  <1>10. Decode(c, v) = 4 * n
    BY <1>4, <1>5, <1>9 DEF Decode
  <1>11. \A f \in DOMAIN a.set : AnswerConv(f) = c /\ a.set[f] = v
    BY <1>2, <1>3
  <1> HIDE DEF v
  <1>12. Shows(a, {4 * n})
    BY <1>4, <1>5, <1>10, <1>11 DEF Shows
  <1> QED BY <1>12 DEF n

\* Lambda, in steps of 0.001, keeps within its 16 bits.
LambdaFits == \A s \in Sensors : s.id = "ignitech_wb_2" => s.raw * 10 < 2^16

LEMMA FitsScaled ==
    ASSUME LambdaFits, NEW s \in Sensors, s.id = "ignitech_wb_2"
    PROVE  s.raw \in Nat /\ LambdaOf(s.raw) = s.raw * 10
  <1>1. s.raw \in Nat /\ s.raw * 10 < 2^16
    BY SensorRaw DEF LambdaFits
  <1>2. \A x \in Nat : x < 2^16 => x % 2^16 = x
    BY SMT
  <1>3. s.raw * 10 \in Nat
    BY <1>1
  <1> QED BY <1>1, <1>2, <1>3 DEF LambdaOf

\* The lambda an answer should show is what the log holds.
LEMMA LambdaIsDue ==
    ASSUME LambdaFits, Types, QueueInv, pc = "parse", IsRequest(frame)
    PROVE  LambdaDue = Reading(36, level)
  <1>1. Reading(36, level) = (Q(36) * lambda) \div 1000
    BY DEF Reading
  <1>2. CASE LambdaFrames = {} /\ lambda = lc2
    BY <1>1, <1>2 DEF LambdaDue
  <1>3. CASE LambdaFrames # {} /\ ~(LambdaFrames = {} /\ lambda = lc2)
    <2> DEFINE s == sent[Max(LambdaFrames)]
    <2>1. lambda = LambdaOf(s.raw) /\ s \in Sensors /\ s.id = "ignitech_wb_2"
      BY <1>3, LambdaIsNewest
    <2>2. s.raw \in Nat /\ LambdaOf(s.raw) = s.raw * 10
      BY <2>1, FitsScaled
    <2>3. LambdaDue = (Q(36) * s.raw) \div 100
      BY <1>3 DEF LambdaDue
    <2>4. Q(36) = 131072
      <3>1. ConvFirst(36) = Conv1Bto24(36)
        BY SMT DEF ConvFirst
      <3>2. Conv1Bto24(36) = Ratio
        BY DEF Conv1Bto24
      <3>3. Obd2Conv(S1(36, 1)).den = 32768
        BY <3>1, <3>2 DEF Obd2Conv, S1, Ratio, Scaled
      <3> QED BY <3>3, SMT DEF Q
    <2>5. \A x \in Nat : (131072 * (x * 10)) \div 1000 = (131072 * x) \div 100
      BY SMT
    <2> QED BY <1>1, <2>1, <2>2, <2>3, <2>4, <2>5
  <1> QED BY <1>2, <1>3, LambdaIsNewest

\* An answer shows the reading the engine has, within a step of its field if
\* the field can hold it, and for lambda that of the newest sensor frame sent
\* before the request, or the LC-2's if that came after it: can_parse(),
\* obd2_process() and the LC-2 (AnswerShowsReading).  The sensor's lambda must fit
\* the 16 bits of log_data.lambda.
THEOREM AnswerTrue ==
    ASSUME LambdaFits
    PROVE  CanSpec => AnswerShowsReading
  <1>1. ASSUME Types, QueueInv, CanNext, answer' # answer, InType(answer', Expected(answer'))
        PROVE  Shows(answer', Expected(answer'))
    <2>1. CASE ReadNext
      <3>1. answer'.set = <<>>
        BY <2>1 DEF ReadNext, NoAnswer, Answer
      <3>2. DOMAIN answer'.set = {}
        BY <3>1
      <3> QED BY <3>2 DEF Shows
    <2>2. CASE Parse
      <3>1. pc = "parse" /\ IsRequest(frame) /\ Process(frame)
        BY <1>1, <2>2 DEF Parse, tool, IsRequest
      <3>2. PICK m \in Understood(frame) : \E a \in Answers(m[1], m[2], level) : answer' = a
        BY <1>1, <3>1 DEF Process, tool
      <3>3. PICK a \in Answers(m[1], m[2], level) : answer' = a
        BY <3>2
      <3>4. PICK p : p = m[2]
        OBVIOUS
      <3>5. level \in Levels /\ lambda \in 0 .. 2^16 - 1
        BY <1>1 DEF Types
      <3>6. CASE a \in Custom(p, level)
        <4>1. a.mode = 53 /\ a.pid = p
          BY <3>6, CustomFor
        <4>2. Expected(a) = {4 * CustomValue(p, level)}
          BY <4>1 DEF Expected
        <4> QED BY <1>1, <3>3, <3>5, <3>6, <4>2, CustomShows
      <3>7. CASE a \in CurrentData(p, level)
        <4>1. a.mode = 1 /\ a.pid = p
          BY <3>7, CurrentForm
        <4>2. CASE p \in ReadOut
          <5>1. Expected(a) = {Reading(p, level)}
            <6>1. p = 36 => Expected(a) = {LambdaDue}
              BY <4>1 DEF Expected
            <6>2. p # 36 => Expected(a) = {Reading(p, level)}
              BY <4>1, <4>2 DEF Expected
            <6> QED BY <1>1, <3>1, <6>1, <6>2, LambdaIsDue
          <5> QED BY <1>1, <3>3, <3>5, <3>7, <4>2, <5>1, CurrentShows
        <4>3. CASE p \notin ReadOut
          <5>1. Expected(a) = {}
            BY <4>1, <4>3 DEF Expected, ReadOut
          <5> QED BY <3>3, <5>1 DEF Shows
        <4> QED BY <4>2, <4>3
      <3> QED BY <3>3, <3>4, <3>6, <3>7 DEF Answers
    <2> QED
      BY <1>1, <2>1, <2>2, BusCases DEF StartDrain, SendSensor, SendRequest, StoreLc2, ReadFC, canVars, tool
  <1>2. (Types /\ QueueInv) /\ [CanNext]_canVars
          => [answer' # answer /\ InType(answer', Expected(answer'))
                => Shows(answer', Expected(answer'))]_canVars
    BY <1>1
  <1> QED BY <1>2, QueueAlways, PTL DEF CanSpec, AnswerShowsReading
----------------------------------------------------------------------------
(* Requests are served in order.                                           *)

Frames == Requests \cup SensorFrames

\* The requests among the first k frames of a queue.
ByPrefix(q, f) ==
    /\ f \in [0 .. Len(q) -> Seq(Frames)]
    /\ f[0] = <<>>
    /\ \A k \in 1 .. Len(q) : f[k] = IF IsRequest(q[k]) THEN Append(f[k - 1], q[k]) ELSE f[k - 1]

LEMMA RequestsByPrefix ==
    ASSUME NEW q \in Seq(Frames)
    PROVE  \E f : ByPrefix(q, f) /\ RequestsIn(q) = f[Len(q)]
  <1> DEFINE len == Len(q)
             next == [k \in 1 .. len |-> [s \in Seq(Frames) |-> IF IsRequest(q[k]) THEN Append(s, q[k]) ELSE s]]
             Step(f, k) == IF IsRequest(q[k]) THEN Append(f[k - 1], q[k]) ELSE f[k - 1]
             IsUpTo(f) == f = [k \in 0 .. len |->
                                 CASE k = 0                         -> <<>>
                                   [] k > 0 /\ q[k].id = "request" -> Append(f[k - 1], q[k])
                                   [] OTHER                         -> f[k - 1]]
             upTo == CHOOSE f : IsUpTo(f)
  <1>1. len \in Nat
    OBVIOUS
  <1>2. next \in [1 .. len -> [Seq(Frames) -> Seq(Frames)]]
    <2>1. ASSUME NEW k \in 1 .. len, NEW s \in Seq(Frames)
          PROVE  (IF IsRequest(q[k]) THEN Append(s, q[k]) ELSE s) \in Seq(Frames)
      <3>1. q[k] \in Frames
        OBVIOUS
      <3> HIDE DEF len
      <3> QED BY <3>1
    <2> HIDE DEF len
    <2> QED BY <2>1
  <1>3. PICK g \in [0 .. len -> Seq(Frames)] :
          g[0] = <<>> /\ \A k \in 1 .. len : g[k] = next[k][g[k - 1]]
    <2>1. <<>> \in Seq(Frames)
      OBVIOUS
    <2>2. Recursion(len, Seq(Frames), <<>>, next)
      <3> HIDE DEF len, next
      <3> QED BY <1>1, <1>2, <2>1 DEF Recursion
    <2> HIDE DEF len, next
    <2>3. PICK g : Solves(g, len, Seq(Frames), <<>>, next)
      BY <2>2, RecursionUpTo
    <2> QED BY <2>3 DEF Solves
  <1>4. \A k \in 1 .. len : g[k] = Step(g, k)
    <2> SUFFICES ASSUME NEW k \in 1 .. len PROVE g[k] = Step(g, k)
      OBVIOUS
    <2>1. k - 1 \in 0 .. len
      BY <1>1
    <2>2. g[k - 1] \in Seq(Frames)
      BY <2>1
    <2> HIDE DEF len
    <2> QED BY <1>3, <2>2
  <1>5. \A f, k : k \in 0 .. len =>
          (CASE k = 0                        -> <<>>
            [] k > 0 /\ q[k].id = "request" -> Append(f[k - 1], q[k])
            [] OTHER                         -> f[k - 1]) = IF k = 0 THEN <<>> ELSE Step(f, k)
    <2> SUFFICES ASSUME NEW f, NEW k \in 0 .. len
                 PROVE  (CASE k = 0                        -> <<>>
                           [] k > 0 /\ q[k].id = "request" -> Append(f[k - 1], q[k])
                           [] OTHER                         -> f[k - 1]) = IF k = 0 THEN <<>> ELSE Step(f, k)
      OBVIOUS
    <2>1. k = 0 \/ (k > 0 /\ k # 0)
      BY <1>1
    <2>2. k > 0 => k # 0
      BY <1>1
    <2> HIDE DEF len
    <2> QED BY <2>1, <2>2, Zenon DEF IsRequest
  <1>6. IsUpTo(g)
    <2>1. g = [k \in 0 .. len |-> g[k]]
      OBVIOUS
    <2>2. \A k \in 0 .. len : g[k] = IF k = 0 THEN <<>> ELSE Step(g, k)
      <3> HIDE DEF len, Step, next
      <3>1. \A k \in 0 .. len : k = 0 \/ k \in 1 .. len
        BY <1>1
      <3> QED BY <1>3, <1>4, <3>1
    <2> HIDE DEF len, Step
    <2> QED BY <1>5, <2>1, <2>2, Zenon
  <1>7. IsUpTo(upTo)
    <2> HIDE DEF IsUpTo
    <2> QED BY <1>6
  <1>8. \A k \in 0 .. len : upTo[k] = IF k = 0 THEN <<>> ELSE Step(upTo, k)
    <2> HIDE DEF len, Step, upTo
    <2> QED BY <1>5, <1>7, ZenonT(60)
  <1>9. RequestsIn(q) = upTo[len]
    BY DEF RequestsIn
  <1> HIDE DEF upTo
  <1>10. 0 .. len \subseteq {k \in 0 .. len : upTo[k] = g[k]}
    <2> DEFINE S == {k \in 0 .. len : upTo[k] = g[k]}
    <2> HIDE DEF len
    <2>1. 0 \in S
      BY <1>1, <1>3, <1>8
    <2>2. \A k \in 0 .. len - 1 : k \in S => k + 1 \in S
      <3> SUFFICES ASSUME NEW k \in 0 .. len - 1, upTo[k] = g[k]
                   PROVE  k + 1 \in 0 .. len /\ upTo[k + 1] = g[k + 1]
        OBVIOUS
      <3>1. k + 1 \in 1 .. len /\ (k + 1) - 1 = k /\ k + 1 \in 0 .. len /\ k + 1 # 0
        BY <1>1
      <3>2. upTo[k + 1] = Step(upTo, k + 1) /\ g[k + 1] = Step(g, k + 1)
        BY <1>4, <1>8, <3>1
      <3> QED BY <3>1, <3>2
    <2> HIDE DEF S
    <2>3. 0 .. len \subseteq S
      BY <1>1, <2>1, <2>2, InductionUpTo
    <2> QED BY <2>3 DEF S
  <1>11. RequestsIn(q) = g[len]
    <2> HIDE DEF len
    <2> QED BY <1>1, <1>9, <1>10
  <1>12. ByPrefix(q, g)
    BY <1>3, <1>4 DEF ByPrefix
  <1> QED BY <1>11, <1>12

LEMMA NoRequests == RequestsIn(<<>>) = <<>>
  <1>1. <<>> \in Seq(Frames) /\ Len(<<>>) = 0
    OBVIOUS
  <1>2. PICK f : ByPrefix(<<>>, f) /\ RequestsIn(<<>>) = f[0]
    BY <1>1, RequestsByPrefix
  <1> QED BY <1>2 DEF ByPrefix

LEMMA RequestsBehind ==
    ASSUME NEW q \in Seq(Frames), NEW x \in Frames
    PROVE  RequestsIn(Append(q, x)) =
             IF IsRequest(x) THEN Append(RequestsIn(q), x) ELSE RequestsIn(q)
  <1> DEFINE p == Append(q, x)
  <1>1. p \in Seq(Frames) /\ Len(p) = Len(q) + 1 /\ Len(q) \in Nat /\ p[Len(q) + 1] = x
    OBVIOUS
  <1>2. \A k \in 1 .. Len(q) : p[k] = q[k]
    OBVIOUS
  <1>3. PICK f : ByPrefix(q, f) /\ RequestsIn(q) = f[Len(q)]
    BY RequestsByPrefix
  <1> HIDE DEF p
  <1>4. PICK g : ByPrefix(p, g) /\ RequestsIn(p) = g[Len(p)]
    BY <1>1, RequestsByPrefix
  <1>5. 0 .. Len(q) \subseteq {k \in 0 .. Len(q) : f[k] = g[k]}
    <2> DEFINE S == {k \in 0 .. Len(q) : f[k] = g[k]}
    <2>1. 0 \in S
      BY <1>1, <1>3, <1>4 DEF ByPrefix
    <2>2. \A k \in 0 .. Len(q) - 1 : k \in S => k + 1 \in S
      <3> SUFFICES ASSUME NEW k \in 0 .. Len(q) - 1, f[k] = g[k] PROVE f[k + 1] = g[k + 1]
        BY <1>1
      <3>1. k + 1 \in 1 .. Len(q) /\ k + 1 \in 1 .. Len(p) /\ (k + 1) - 1 = k /\ p[k + 1] = q[k + 1]
        BY <1>1, <1>2
      <3>2. f[k + 1] = IF IsRequest(q[k + 1]) THEN Append(f[k], q[k + 1]) ELSE f[k]
        BY <1>3, <3>1 DEF ByPrefix
      <3>3. g[k + 1] = IF IsRequest(q[k + 1]) THEN Append(g[k], q[k + 1]) ELSE g[k]
        BY <1>4, <3>1 DEF ByPrefix
      <3> QED BY <3>2, <3>3
    <2> HIDE DEF S
    <2>3. 0 .. Len(q) \subseteq S
      BY <1>1, <2>1, <2>2, InductionUpTo
    <2> QED BY <2>3 DEF S
  <1>6. f[Len(q)] = g[Len(q)]
    BY <1>1, <1>5
  <1>7. g[Len(q) + 1] = IF IsRequest(x) THEN Append(g[Len(q)], x) ELSE g[Len(q)]
    <2>1. Len(q) + 1 \in 1 .. Len(p) /\ (Len(q) + 1) - 1 = Len(q)
      BY <1>1
    <2> QED BY <1>1, <1>4, <2>1 DEF ByPrefix
  <1> QED BY <1>1, <1>3, <1>4, <1>6, <1>7 DEF p

LEMMA RequestsAhead ==
    ASSUME NEW q \in Seq(Frames), q # <<>>
    PROVE  RequestsIn(q) = (IF IsRequest(Head(q)) THEN <<Head(q)>> ELSE <<>>) \o RequestsIn(Tail(q))
  <1> DEFINE t == Tail(q)
             ahead == IF IsRequest(Head(q)) THEN <<Head(q)>> ELSE <<>>
  <1>1. /\ t \in Seq(Frames) /\ Len(q) = Len(t) + 1 /\ Len(t) \in Nat /\ q[1] = Head(q)
        /\ Head(q) \in Frames
    OBVIOUS
  <1>2. \A k \in 1 .. Len(t) : t[k] = q[k + 1]
    OBVIOUS
  <1>3. ahead \in Seq(Frames)
    BY <1>1
  <1> HIDE DEF t
  <1>4. PICK f : ByPrefix(q, f) /\ RequestsIn(q) = f[Len(q)]
    BY RequestsByPrefix
  <1>5. PICK g : ByPrefix(t, g) /\ RequestsIn(t) = g[Len(t)]
    BY <1>1, RequestsByPrefix
  <1>6. 0 .. Len(t) \subseteq {k \in 0 .. Len(t) : f[k + 1] = ahead \o g[k]}
    <2> DEFINE S == {k \in 0 .. Len(t) : f[k + 1] = ahead \o g[k]}
    <2>1. 0 \in S
      <3>1. g[0] = <<>> /\ f[0] = <<>>
        BY <1>4, <1>5 DEF ByPrefix
      <3>2. f[1] = IF IsRequest(q[1]) THEN Append(f[0], q[1]) ELSE f[0]
        <4>1. 1 \in 1 .. Len(q) /\ 1 - 1 = 0
          BY <1>1
        <4> QED BY <1>4, <4>1 DEF ByPrefix
      <3>3. f[1] = ahead
        BY <1>1, <3>1, <3>2
      <3>4. ahead \o <<>> = ahead
        BY <1>3
      <3>5. 0 + 1 = 1 /\ 0 \in 0 .. Len(t)
        BY <1>1
      <3> HIDE DEF ahead
      <3> QED BY <3>1, <3>3, <3>4, <3>5
    <2>2. \A k \in 0 .. Len(t) - 1 : k \in S => k + 1 \in S
      <3> SUFFICES ASSUME NEW k \in 0 .. Len(t) - 1, f[k + 1] = ahead \o g[k]
                   PROVE  k + 1 \in 0 .. Len(t) /\ f[(k + 1) + 1] = ahead \o g[k + 1]
        OBVIOUS
      <3>1. /\ k + 1 \in 1 .. Len(t) /\ (k + 1) + 1 \in 1 .. Len(q) /\ k \in 0 .. Len(t)
            /\ (k + 1) - 1 = k /\ ((k + 1) + 1) - 1 = k + 1
        BY <1>1
      <3>2. g[k + 1] = IF IsRequest(t[k + 1]) THEN Append(g[k], t[k + 1]) ELSE g[k]
        BY <1>5, <3>1 DEF ByPrefix
      <3>3. f[(k + 1) + 1] = IF IsRequest(t[k + 1]) THEN Append(f[k + 1], t[k + 1]) ELSE f[k + 1]
        BY <1>2, <1>4, <3>1 DEF ByPrefix
      <3>4. g[k] \in Seq(Frames) /\ t[k + 1] \in Frames
        <4>1. g \in [0 .. Len(t) -> Seq(Frames)]
          BY <1>5 DEF ByPrefix
        <4>2. t[k + 1] \in Frames
          BY <1>1, <3>1
        <4> QED BY <3>1, <4>1, <4>2
      <3> HIDE DEF ahead
      <3>5. ahead \o Append(g[k], t[k + 1]) = Append(ahead \o g[k], t[k + 1])
        BY <1>3, <3>4, SMTT(60)
      <3>6. f[(k + 1) + 1] = ahead \o g[k + 1]
        BY <3>2, <3>3, <3>5, Zenon
      <3> QED BY <3>1, <3>6
    <2> HIDE DEF S
    <2>3. 0 .. Len(t) \subseteq S
      BY <1>1, <2>1, <2>2, InductionUpTo
    <2> QED BY <2>3 DEF S
  <1>7. f[Len(t) + 1] = ahead \o g[Len(t)]
    <2>1. Len(t) \in 0 .. Len(t)
      BY <1>1
    <2> HIDE DEF ahead
    <2> QED BY <1>6, <2>1, Zenon
  <1> QED BY <1>1, <1>4, <1>5, <1>7 DEF t

\* What the steps do to the queue.
LEMMA QueueForm ==
    ASSUME Types
    PROVE  /\ Queue \in Seq(Frames) /\ rx \in Seq(Frames)
           /\ pc # "parse" => Queue = rx
           /\ pc = "parse" => frame \in Frames /\ Queue # <<>> /\ Head(Queue) = frame /\ Tail(Queue) = rx
  <1>1. rx \in Seq(Frames) /\ (pc = "parse" => frame \in Frames)
    BY DEF Types, Frames
  <1>2. CASE pc = "parse"
    <2>1. Queue = <<frame>> \o rx
      BY <1>2 DEF Queue
    <2> QED BY <1>1, <1>2, <2>1
  <1>3. CASE pc # "parse"
    <2>1. Queue = <<>> \o rx
      BY <1>3 DEF Queue
    <2> QED BY <1>1, <1>3, <2>1
  <1> QED BY <1>2, <1>3

\* The head of the queue leaves it: the line moves on if it is a request.
LEMMA HeadLeaves ==
    ASSUME NEW q \in Seq(Frames), q # <<>>
    PROVE  IF IsRequest(Head(q))
           THEN RequestsIn(q) # <<>> /\ Head(RequestsIn(q)) = Head(q) /\ Tail(RequestsIn(q)) = RequestsIn(Tail(q))
           ELSE RequestsIn(q) = RequestsIn(Tail(q))
  <1>1. Tail(q) \in Seq(Frames) /\ Head(q) \in Frames
    OBVIOUS
  <1>2. PICK f : ByPrefix(Tail(q), f) /\ RequestsIn(Tail(q)) = f[Len(Tail(q))]
    BY <1>1, RequestsByPrefix
  <1>3. RequestsIn(Tail(q)) \in Seq(Frames)
    <2>1. Len(Tail(q)) \in 0 .. Len(Tail(q))
      BY <1>1
    <2>2. f \in [0 .. Len(Tail(q)) -> Seq(Frames)]
      BY <1>2 DEF ByPrefix
    <2> QED BY <1>2, <2>1, <2>2
  <1>4. PICK s \in Seq(Frames) : s = RequestsIn(Tail(q))
    BY <1>3
  <1>5. CASE IsRequest(Head(q))
    <2>1. RequestsIn(q) = <<Head(q)>> \o s
      BY <1>4, <1>5, RequestsAhead
    <2>2. LET w == <<Head(q)>> \o s IN w # <<>> /\ Head(w) = Head(q) /\ Tail(w) = s
      BY <1>1
    <2> QED BY <1>4, <1>5, <2>1, <2>2
  <1>6. CASE ~ IsRequest(Head(q))
    <2>1. RequestsIn(q) = <<>> \o s
      BY <1>4, <1>6, RequestsAhead
    <2> QED BY <1>4, <1>6, <2>1
  <1> QED BY <1>5, <1>6

LEMMA LineStarts == CanInit => Line!LineInit
  <1> SUFFICES ASSUME CanInit PROVE Line!LineInit
    OBVIOUS
  <1>1. Queue = <<>> \o <<>>
    BY DEF CanInit, Queue
  <1>2. Queue = <<>>
    BY <1>1
  <1> QED BY <1>2, NoRequests DEF CanInit, Waiting, Line!LineInit

LEMMA LineMoves ==
    ASSUME Types, Types', [CanNext]_canVars
    PROVE  [Line!Take \/ Line!Done \/ Line!Ask]_(Line!lineVars)
  <1> USE DEF Line!Ask, Line!Take, Line!Done, Line!lineVars
  <1>1. \A q : Queue = q => Waiting = RequestsIn(q)
    BY DEF Waiting
  <1>2. \A q : Queue' = q => Waiting' = RequestsIn(q)
    BY DEF Waiting
  <1>3. ASSUME Queue' = Queue PROVE Waiting' = Waiting
    BY <1>3 DEF Waiting
  <1>4. ASSUME Queue # <<>>, Queue \in Seq(Frames), Queue' = Tail(Queue),
               served' = NoRequest \/ (IsRequest(Head(Queue)) /\ served' = Head(Queue))
        PROVE  Line!Take \/ Line!Done
    <2>1. PICK q \in Seq(Frames) : q = Queue
      BY <1>4
    <2>2. Waiting = RequestsIn(q) /\ Waiting' = RequestsIn(Tail(q))
      BY <1>1, <1>2, <1>4, <2>1
    <2>3. CASE IsRequest(Head(q))
      BY <1>4, <2>1, <2>2, <2>3, HeadLeaves
    <2>4. CASE ~ IsRequest(Head(q))
      BY <1>4, <2>1, <2>2, <2>4, HeadLeaves
    <2> QED BY <2>3, <2>4
  <1>5. CASE StartDrain
    <2>1. /\ pc = "idle" /\ pc' = "parse" /\ rx # <<>>
          /\ frame' = Head(rx) /\ rx' = Tail(rx) /\ served' = served
      BY <1>5 DEF StartDrain, Readable
    <2>2. Queue = rx /\ Queue' = <<Head(rx)>> \o Tail(rx) /\ rx \in Seq(Frames)
      BY <2>1, QueueForm DEF Queue
    <2>3. Queue' = Queue
      BY <2>1, <2>2
    <2> QED BY <1>3, <2>1, <2>3
  <1>6. CASE Parse
    <2>1. pc = "parse" /\ pc' = "next" /\ rx' = rx
      BY <1>6 DEF Parse
    <2>2. Queue \in Seq(Frames) /\ Queue # <<>> /\ Head(Queue) = frame /\ Tail(Queue) = rx
      BY <2>1, QueueForm
    <2>3. Queue' = rx
      <3>1. Queue' = <<>> \o rx
        BY <2>1 DEF Queue
      <3> QED BY <3>1, QueueForm
    <2>4. served' = NoRequest \/ (IsRequest(frame) /\ served' = frame)
      BY <1>6 DEF Parse, Process, IsRequest
    <2> QED BY <1>4, <2>2, <2>3, <2>4
  <1>7. CASE ReadNext
    <2>1. pc = "next" /\ served' = NoRequest /\ Queue = rx /\ rx \in Seq(Frames)
      BY <1>7, QueueForm DEF ReadNext
    <2>2. CASE rx = <<>>
      <3>1. pc' = "idle" /\ rx' = rx
        BY <1>7, <2>2 DEF ReadNext
      <3>2. Queue' = <<>> \o rx
        BY <3>1 DEF Queue
      <3> QED BY <1>3, <2>1, <2>2, <3>2
    <2>3. CASE rx # <<>> /\ AtLimit
      <3>1. pc' = "idle" /\ rx' = Tail(rx)
        BY <1>7, <2>3 DEF ReadNext
      <3>2. Queue' = <<>> \o Tail(rx)
        BY <3>1 DEF Queue
      <3>3. Queue' = Tail(Queue)
        BY <2>1, <2>3, <3>2
      <3> QED BY <1>4, <2>1, <2>3, <3>3
    <2>4. CASE rx # <<>> /\ ~AtLimit
      <3>1. pc' = "parse" /\ rx' = Tail(rx) /\ frame' = Head(rx)
        BY <1>7, <2>4 DEF ReadNext
      <3>2. Queue' = <<Head(rx)>> \o Tail(rx)
        BY <3>1 DEF Queue
      <3>3. Queue' = Queue
        BY <2>1, <2>4, <3>2
      <3> QED BY <1>3, <2>1, <3>3
    <2> QED BY <2>2, <2>3, <2>4
  \* What is put behind the socket's frames is put behind the queue.
  <1>8. ASSUME NEW f \in Frames, UNCHANGED <<pc, frame>>, rx' = Append(rx, f)
        PROVE  Queue \in Seq(Frames) /\ Queue' = Append(Queue, f)
    <2>1. Queue \in Seq(Frames) /\ rx \in Seq(Frames)
      BY QueueForm
    <2>2. CASE pc = "parse"
      <3>1. Queue = <<frame>> \o rx /\ Queue' = <<frame>> \o Append(rx, f)
        BY <1>8, <2>2 DEF Queue
      <3> QED BY <1>8, <2>1, <2>2, <3>1, QueueForm
    <2>3. CASE pc # "parse"
      <3>1. Queue = <<>> \o rx /\ Queue' = <<>> \o Append(rx, f)
        BY <1>8, <2>3 DEF Queue
      <3> QED BY <1>8, <2>1, <3>1
    <2> QED BY <2>2, <2>3
  <1>9. ASSUME UNCHANGED <<pc, frame, rx, served>> PROVE Queue' = Queue /\ served' = served
    BY <1>9 DEF Queue
  <1>10. ASSUME NEW s \in Sensors, SendSensor(s)
         PROVE  Waiting' = Waiting /\ served' = served
    <2>1. UNCHANGED <<pc, frame, served>>
      BY <1>10 DEF SendSensor
    <2>2. CASE rx' = rx
      BY <1>3, <1>9, <2>1, <2>2
    <2>3. CASE rx' # rx
      <3> DEFINE g == [id |-> s.id, raw |-> s.raw, mark |-> Len(sent) + 1]
      <3>1. rx' = Append(rx, g)
        BY <1>10, <2>3 DEF SendSensor
      <3>2. s.id # "request" /\ s.raw \in 0 .. 2^16 - 1
        BY SensorRaw
      <3>3. Len(sent) + 1 \in Nat
        BY LogTypes
      <3>4. g \in SensorFrames
        BY <3>2, <3>3 DEF SensorFrames
      <3>5. PICK f \in Frames : f = g /\ ~ IsRequest(f)
        BY <3>2, <3>4 DEF Frames, IsRequest
      <3> HIDE DEF g
      <3>6. Queue \in Seq(Frames) /\ Queue' = Append(Queue, f)
        BY <1>8, <2>1, <3>1, <3>5
      <3>7. PICK q \in Seq(Frames) : q = Queue
        BY <3>6
      <3>8. Waiting = RequestsIn(q) /\ Waiting' = RequestsIn(Append(q, f))
        BY <1>1, <1>2, <3>6, <3>7
      <3> QED BY <2>1, <3>5, <3>8, RequestsBehind
    <2> QED BY <2>2, <2>3
  <1>11. ASSUME NEW r \in Asked, SendRequest(r)
         PROVE  Line!Ask \/ (Waiting' = Waiting /\ served' = served)
    <2>1. UNCHANGED <<pc, frame, served>>
      BY <1>11 DEF SendRequest
    <2>2. CASE rx' = rx
      BY <1>3, <1>9, <2>1, <2>2
    <2>3. CASE rx' # rx
      <3> DEFINE g == [r EXCEPT !.after = Len(sent)]
      <3>1. rx' = Append(rx, g)
        BY <1>11, <2>3 DEF SendRequest
      <3>2. Len(sent) \in 0 .. MaxFrames
        BY LogTypes DEF Types
      <3>3. g \in Requests /\ g.id = "request"
        BY <3>2, SentRequest
      <3>4. PICK f \in Requests : f = g /\ IsRequest(f)
        BY <3>3 DEF IsRequest
      <3>5. f \in Frames
        BY DEF Frames
      <3> HIDE DEF g
      <3>6. Queue \in Seq(Frames) /\ Queue' = Append(Queue, f)
        BY <1>8, <2>1, <3>1, <3>4, <3>5
      <3>7. PICK q \in Seq(Frames) : q = Queue
        BY <3>6
      <3>8. Waiting = RequestsIn(q) /\ Waiting' = RequestsIn(Append(q, f))
        BY <1>1, <1>2, <3>6, <3>7
      <3>9. Waiting' = Append(Waiting, f)
        BY <3>4, <3>5, <3>8, RequestsBehind
      <3> QED BY <2>1, <3>9
    <2> QED BY <2>2, <2>3
  <1>12. CASE UNCHANGED canVars
    BY <1>3, <1>9, <1>12 DEF canVars, loop
  <1>13. CASE StoreLc2 \/ ReadFC
    BY <1>3, <1>9, <1>13 DEF StoreLc2, ReadFC, loop
  <1>14. Line!Take \/ Line!Done \/ Line!Ask \/ (Waiting' = Waiting /\ served' = served)
    BY <1>5, <1>6, <1>7, <1>10, <1>11, <1>12, <1>13, BusCases
  <1> QED BY <1>14

\* The drain loop with its limit, the kernel's socket and the sensors' frames
\* between them serve requests in the order they were sent, each once at most,
\* whatever the limits: every step is one of the line's, or none (the safety
\* half of ServesInOrder).
THEOREM InOrder == CanSpec => Line!LineInit /\ [][Line!Take \/ Line!Done \/ Line!Ask]_(Line!lineVars)
  <1>1. Types /\ Types' /\ [CanNext]_canVars => [Line!Take \/ Line!Done \/ Line!Ask]_(Line!lineVars)
    BY LineMoves
  <1> QED BY <1>1, LineStarts, QueueAlways, PTL DEF CanSpec
=============================================================================

------------------------------- MODULE Codec -------------------------------
(***************************************************************************)
(* One message on its way: a struct is filled, packed into the bytes of a  *)
(* frame, and unpacked into a struct on the receiver's stack that holds    *)
(* whatever was there.  The struct is filled with raw words, as documented *)
(* in the header, or by encoding physical values.                          *)
(***************************************************************************)
EXTENDS Obd2Layout, Obd2Units, DeviceLayout

CONSTANTS
    Pids,     \* PIDs of service 01 that are sent
    BigRaw    \* bound: largest raw value encoded, where the type allows more

ASSUME CodecAssumption == Pids \subseteq 0..255 /\ BigRaw \in 0 .. 2^30 - 1

VARIABLES
    stage,    \* "idle", "filled", "sent", "received" or "refused"
    msg,      \* the message: its kind and what its switches see
    src,      \* the sender's struct: the fields of the message
    phys,     \* the values encoded into it
    frame,    \* the bytes
    dst       \* the receiver's struct: every field of the type

codecVars == <<stage, msg, src, phys, frame, dst>>

Message(kind, a, b, c) == [kind |-> kind, a |-> a, b |-> b, c |-> c]

\* Service and PID of an OBD2 message; type, fc_st and fc_st_us_mux of ISO-TP.
Messages ==
    {Message("obd2", 1, p, 0) : p \in Pids} \cup {Message("obd2", 2, p, 0) : p \in {1, 2}}
    \cup {Message("obd2", s, 0, 0) : s \in {3, 10}}
    \cup {Message("iso_tp", t, 0, 0) : t \in 0..4} \cup {Message("iso_tp", 3, 1, u) : u \in {6, 7}}
    \cup {Message(k, 0, 0, 0) : k \in Kinds \ {"iso_tp"}}

MessageLayout(m) ==
    CASE m.kind = "obd2"   -> PackLayout(m.a, m.b)
      [] m.kind = "iso_tp" -> PackIsoTp(m.a, m.b, m.c)
      [] OTHER             -> DevicePackLayout(m.kind)

\* The fields that select others have the value of the message.
Selectors(m) ==
    CASE m.kind = "obd2" /\ m.a = 1 ->
            Field(Name("service"), 1) ++ Field(Name("parameter_id_service01"), m.b)
      [] m.kind = "obd2" /\ m.a = 2 ->
            Field(Name("service"), 2) ++ Field(Name("parameter_id_service02"), m.b)
      [] m.kind = "obd2" /\ m.a > 2 -> Field(Name("service"), m.a)
      [] m.kind = "iso_tp"          -> Field("type", m.a) ++ Field("fc_st", m.b) ++ Field("fc_st_us_mux", m.c)
      [] OTHER                      -> <<>>

Conv(m, f) == IF m.kind = "obd2" THEN Obd2Conv(f) ELSE DeviceConv(m.kind, f)

StructOf(m) ==
    CASE m.kind = "obd2" ->
            UNION {DOMAIN MessageLayout(n) : n \in {o \in Messages : o.kind = "obd2"}}
      [] m.kind = "iso_tp" ->
            UNION {DOMAIN MessageLayout(n) : n \in {o \in Messages : o.kind = "iso_tp"}}
      [] OTHER -> DOMAIN MessageLayout(m)
----------------------------------------------------------------------------
(* Words within the documented range: none, the lowest, the highest bit of *)
(* the largest one, and the largest one.                                   *)

Largest(m, f) ==
    LET c == Conv(m, f)
    IN  CASE m.kind = "obd2" -> Obd2Doc(f).top \cap Ones(Obd2Doc(f).bits)
          [] m.kind # "obd2" /\ c.last = -1 -> Ones(c.bits)
          [] OTHER           -> Bits(c.last, c.bits)
Word(w, m, f) ==
    CASE w = "zero" -> {}
      [] w = "one"  -> {0}
      [] w = "high" -> {k \in Largest(m, f) : \A j \in Largest(m, f) : j <= k}
      [] w = "all"  -> Largest(m, f)

\* Raw values whose physical values are encoded, on the step and off it.
LastRaw(c) == IF c.last # -1 THEN c.last
              ELSE IF c.bits < 30 THEN 2^(IF c.signed THEN c.bits - 1 ELSE c.bits) - 1 ELSE BigRaw
RawProbe(w, c) ==
    CASE w = "zero" -> c.first
      [] w = "one"  -> c.first + 1
      [] w = "high" -> LastRaw(c) \div 2
      [] w = "all"  -> LastRaw(c)
Physical(w, quarter, c) == 4 * (RawProbe(w, c) * c.num + c.den * c.off) + quarter * c.num
----------------------------------------------------------------------------
CodecInit ==
    /\ stage = "idle" /\ msg = Message("obd2", 3, 0, 0)
    /\ src = <<>> /\ phys = <<>> /\ frame = {} /\ dst = <<>>

\* The struct is filled field by field; the receiver's holds old words.
Fill(m, words, values) ==
    /\ stage = "idle"
    /\ stage' = "filled" /\ msg' = m /\ phys' = values
    /\ src' = [f \in DOMAIN MessageLayout(m) |->
                 IF f \in DOMAIN Selectors(m) THEN Bits(Selectors(m)[f], 8) ELSE words[f]]
    /\ \E old \in {{}, {0, 2, 5}} : dst' = [f \in StructOf(m) |-> old]
    /\ frame' = {}

FillWords(m) ==
    \E w \in {"zero", "one", "high", "all"} :
        Fill(m, [f \in DOMAIN MessageLayout(m) |-> Word(w, m, f)], <<>>)

FillEncoded(m) ==
    \E w \in {"zero", "one", "high", "all"}, quarter \in 0..3, lower \in BOOLEAN :
        LET values == [f \in DOMAIN MessageLayout(m) \ DOMAIN Selectors(m) |->
                         Physical(w, quarter, Conv(m, f))]
            encoded(f) == Encode(Conv(m, f), values[f])
            value(f, v) == Number(Conv(m, f), v)
        IN  Fill(m, [f \in DOMAIN values |->
                       CHOOSE v \in encoded(f) :
                          \A u \in encoded(f) :
                             IF lower THEN value(f, v) <= value(f, u)
                                      ELSE value(f, v) >= value(f, u)], values)

\* _pack: switches on the struct's own fields, clears the bytes, writes.
PackLayoutOf(s) ==
    LET n(f) == IF f \in DOMAIN s THEN Number(Plain(8), s[f]) ELSE 0
    IN  CASE msg.kind = "obd2" ->
                PackLayout(n(Name("service")),
                           n(IF n(Name("service")) = 1 THEN Name("parameter_id_service01")
                             ELSE Name("parameter_id_service02")))
          [] msg.kind = "iso_tp" -> PackIsoTp(n("type"), n("fc_st"), n("fc_st_us_mux"))
          [] OTHER -> DevicePackLayout(msg.kind)

Pack ==
    /\ stage = "filled"
    /\ \E room \in {Size(msg.kind) - 1, 8} :
          IF room < Size(msg.kind)
          THEN stage' = "refused" /\ UNCHANGED frame
          ELSE stage' = "sent" /\ frame' = PackAll(PackLayoutOf(src), src)
    /\ UNCHANGED <<msg, src, phys, dst>>

\* _unpack: switches on what it has just read.
UnpackLayoutOf(bytes) ==
    LET n(s) == Number(Plain(8), Get(s, bytes))
    IN  CASE msg.kind = "obd2" ->
                UnpackLayout(n(UnpackHeader[Name("service")]),
                             n(Pid01[Name("parameter_id_service01")]))
          [] msg.kind = "iso_tp" ->
                LET iso == UnpackIsoTp(3, 1, 7)
                IN  UnpackIsoTp(n(iso["type"]), n(iso["fc_st"]), n(iso["fc_st_us_mux"]))
          [] OTHER -> DeviceUnpackLayout(msg.kind)

Unpack ==
    /\ stage = "sent"
    /\ \E size \in {Size(msg.kind) - 1, 8} :
          IF size < Size(msg.kind)
          THEN stage' = "refused" /\ UNCHANGED dst
          ELSE stage' = "received" /\ dst' = UnpackAll(UnpackLayoutOf(frame), frame, dst)
    /\ UNCHANGED <<msg, src, phys, frame>>

\* The structs and the frame go out of scope.
Leave ==
    /\ stage \in {"received", "refused"}
    /\ stage' = "idle" /\ msg' = Message("obd2", 3, 0, 0)
    /\ src' = <<>> /\ phys' = <<>> /\ frame' = {} /\ dst' = <<>>

CodecNext ==
    \/ \E m \in Messages : FillWords(m) \/ FillEncoded(m)
    \/ Pack
    \/ Unpack
    \/ Leave

CodecSpec == CodecInit /\ [][CodecNext]_codecVars
----------------------------------------------------------------------------
(* Properties.                                                             *)

\* pack() writes inside the bytes it asks for, whatever the struct holds.
PackStaysInBuffer == frame \subseteq 0 .. Byte * Size(msg.kind) - 1

\* Documented wider than they are sent: response (0..15 in 2 bits) and the mode
\* of a request (0..255 in 6).
Narrow(m) ==
    CASE m.kind = "obd2"    -> {Name("response")}
      [] m.kind = "request" -> {"mode"}
      [] OTHER              -> {}

\* Every field that was sent arrives with the value it had, whichever of the
\* message's fields share its bytes.
SentFieldsArrive ==
    stage = "received" => \A f \in DOMAIN src \ Narrow(msg) : dst[f] = src[f]

\* A physical value that is encoded, sent and decoded is off by a step at most.
ReadingWithinOneStep ==
    stage = "received" =>
        \A f \in DOMAIN phys \ Narrow(msg) :
            LET c   == Conv(msg, f)
                got == Decode(c, dst[f])
            IN  got <= phys[f] /\ phys[f] - got <= 4 * c.num
=============================================================================

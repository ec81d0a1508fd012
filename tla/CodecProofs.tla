---------------------------- MODULE CodecProofs ----------------------------
(***************************************************************************)
(* The messages of the generated code: their signals lie apart and inside  *)
(* the bytes, unpack() reads them where pack() wrote them, so every field  *)
(* arrives; and no pack() writes behind the bytes it asks for.  CodecInv,  *)
(* for every message: what a struct is filled with suits its signals, and  *)
(* the arms taken are the message's own.                                   *)
(***************************************************************************)
EXTENDS Codec, OperatorProofs

(* OBD2: the arms of the switches.                                         *)

Shapes == {Shape(0, 0), Shape(1, 8), Shape(1, 16), Shape(1, 32),
           Shape(2, 8), Shape(2, 16), Shape(4, 8), Shape(5, 8)}

LEMMA PackShapes ==
    ASSUME NEW p
    PROVE  PackShape(p) \in Shapes /\ PackService02(p) \in Shapes
  <1> USE DEF Shapes, NoData
  <1>1. Pack00to1F(p) \in Shapes BY DEF Pack00to1F
  <1>2. Pack20to33(p) \in Shapes BY DEF Pack20to33
  <1>3. Pack34to45(p) \in Shapes BY DEF Pack34to45
  <1>4. Pack46to5F(p) \in Shapes BY DEF Pack46to5F
  <1>5. Pack60to8E(p) \in Shapes BY DEF Pack60to8E
  <1>6. PackA0toC0(p) \in Shapes BY DEF PackA0toC0
  <1>7. PackService02(p) \in Shapes BY DEF PackService02
  <1> QED BY <1>1, <1>2, <1>3, <1>4, <1>5, <1>6, <1>7 DEF PackShape

LEMMA SameShapes ==
    ASSUME NEW p
    PROVE  UnpackShape(p) = PackShape(p) /\ UnpackService02(p) = PackService02(p)
  <1>1. Unpack00to1F(p) = Pack00to1F(p) BY DEF Unpack00to1F, Pack00to1F
  <1>2. Unpack20to33(p) = Pack20to33(p) BY DEF Unpack20to33, Pack20to33
  <1>3. Unpack34to45(p) = Pack34to45(p) BY DEF Unpack34to45, Pack34to45
  <1>4. Unpack46to5F(p) = Pack46to5F(p) BY DEF Unpack46to5F, Pack46to5F
  <1>5. Unpack60to8E(p) = Pack60to8E(p) BY DEF Unpack60to8E, Pack60to8E
  <1>6. UnpackA0toC0(p) = PackA0toC0(p) BY DEF UnpackA0toC0, PackA0toC0
  <1>7. UnpackService02(p) = PackService02(p) BY DEF UnpackService02, PackService02
  <1> QED BY <1>1, <1>2, <1>3, <1>4, <1>5, <1>6, <1>7 DEF PackShape, UnpackShape

\* pack() and unpack(), hundreds of lines each, agree on every service and PID:
\* the fields that are written and those that are read, and where.
THEOREM SameLayouts ==
    ASSUME NEW s, NEW p
    PROVE  UnpackLayout(s, p) = PackLayout(s, p)
  BY SameShapes DEF UnpackLayout, PackLayout, UnpackHeader, PackHeader

LEMMA HeaderInside == Inside(PackHeader, 0 .. 15)
  <1>1. DOMAIN PackHeader = {Name("length"), Name("response"), Name("service")}
    BY DEF PackHeader
  <1>2. /\ Name("length") # Name("response") /\ Name("length") # Name("service")
        /\ Name("response") # Name("service")
    BY DEF Name
  <1>3. /\ PackHeader[Name("length")] = Intel(0, 8)
        /\ PackHeader[Name("response")] = Intel(14, 2)
        /\ PackHeader[Name("service")] = Intel(8, 6)
    BY <1>2 DEF PackHeader, Byte
  <1>4. /\ Places(PackHeader[Name("length")]) = 0 .. 7
        /\ Places(PackHeader[Name("response")]) = 14 .. 15
        /\ Places(PackHeader[Name("service")]) = 8 .. 13
    <2>1. /\ Places(Intel(0, 8)) = 0 .. 0 + 8 - 1
          /\ Places(Intel(14, 2)) = 14 .. 14 + 2 - 1
          /\ Places(Intel(8, 6)) = 8 .. 8 + 6 - 1
      BY IntelPlaces
    <2> QED BY <2>1, <1>3
  <1>5. \A f \in DOMAIN PackHeader : IsSignal(PackHeader[f])
    BY <1>1, <1>3, SignalTypes
  <1>6. Apart(PackHeader)
    BY <1>1, <1>4 DEF Apart
  <1> QED BY <1>1, <1>4, <1>5, <1>6 DEF Inside

LEMMA PidInside == Inside(Pid01, 16 .. 23) /\ Inside(Pid02, 16 .. 23)
  <1>1. /\ Pid01 = Field(Name("parameter_id_service01"), Intel(16, 8))
        /\ Pid02 = Field(Name("parameter_id_service02"), Intel(16, 8))
    BY DEF Pid01, Pid02, Field, Byte
  <1>2. \A f : Inside(Field(f, Intel(16, 8)), 16 .. 16 + 8 - 1)
    BY OneField
  <1> QED BY <1>1, <1>2

\* The place of a bit of a big-endian signal, and a signal per position.
LEMMA MotorolaPlaces ==
    ASSUME NEW at \in Nat, NEW len \in Nat
    PROVE  Places(Motorola(at, len)) = {Sent(q) : q \in at .. at + len - 1}
  <1>1. ASSUME NEW k \in Ones(len)
        PROVE  Place(Motorola(at, len), k) \in {Sent(q) : q \in at .. at + len - 1}
    <2>1. at + len - 1 - k \in at .. at + len - 1
      BY DEF Ones
    <2> QED BY <2>1 DEF Place, Motorola
  <1>2. ASSUME NEW q \in at .. at + len - 1
        PROVE  Sent(q) \in Places(Motorola(at, len))
    <2>1. at + len - 1 - q \in Ones(len) /\ at + len - 1 - (at + len - 1 - q) = q
      BY DEF Ones
    <2>2. Place(Motorola(at, len), at + len - 1 - q) = Sent(q)
      BY <2>1 DEF Place, Motorola
    <2> QED BY <2>1, <2>2 DEF Places, Motorola
  <1> QED BY <1>1, <1>2 DEF Places, Motorola

LEMMA SentInData ==
    ASSUME NEW q \in 24 .. 63
    PROVE  Sent(q) \in 24 .. 63
  BY DEF Sent, Byte

LEMMA DataInside ==
    ASSUME NEW s, NEW p, NEW shape \in Shapes
    PROVE  Inside(Data(s, p, shape), 24 .. 63)
  <1> DEFINE c == shape.count
             w == shape.width
             d == Data(s, p, shape)
             At(i) == 24 + (i - 1) * w
  <1>1. c \in Nat /\ w \in Nat /\ c * w <= 40
    BY DEF Shapes, Shape
  <1>2. DOMAIN d = {<<s, p, i>> : i \in 1..c}
    BY DEF Data
  <1>3. \A i \in 1..c : d[<<s, p, i>>] = Motorola(At(i), w)
    BY DEF Data, Byte
  <1>4. \A i \in 1..c : At(i) \in Nat /\ At(i) >= 24 /\ At(i) + w - 1 <= 63
    BY DEF Shapes, Shape
  <1>5. \A i \in 1..c : Places(d[<<s, p, i>>]) = {Sent(q) : q \in At(i) .. At(i) + w - 1}
    BY <1>1, <1>3, <1>4, MotorolaPlaces
  <1>6. \A i \in 1..c : Places(d[<<s, p, i>>]) \subseteq 24 .. 63
    <2> SUFFICES ASSUME NEW i \in 1..c, NEW x \in Places(d[<<s, p, i>>])
                 PROVE  x \in 24 .. 63
      OBVIOUS
    <2>1. PICK q \in At(i) .. At(i) + w - 1 : x = Sent(q)
      BY <1>5
    <2>2. q \in 24 .. 63
      BY <1>1, <1>4
    <2> QED BY <2>1, <2>2, SentInData
  <1>7. \A i \in 1..c : IsSignal(d[<<s, p, i>>])
    BY <1>1, <1>3, <1>4, SignalTypes
  <1>8. ASSUME NEW i \in 1..c, NEW j \in 1..c, i # j
        PROVE  Places(d[<<s, p, i>>]) \cap Places(d[<<s, p, j>>]) = {}
    <2> SUFFICES ASSUME NEW x \in Places(d[<<s, p, i>>]), x \in Places(d[<<s, p, j>>])
                 PROVE  FALSE
      OBVIOUS
    <2>1. PICK q \in At(i) .. At(i) + w - 1 : x = Sent(q)
      BY <1>5
    <2>2. PICK r \in At(j) .. At(j) + w - 1 : x = Sent(r)
      BY <1>5
    <2>3. q \in Int /\ r \in Int
      BY <1>1, <1>4
    <2>4. q = r
      BY <2>1, <2>2, <2>3, SentInjective
    <2>5. At(i) + w <= At(j) \/ At(j) + w <= At(i)
      BY <1>8 DEF Shapes, Shape
    <2> QED BY <2>1, <2>2, <2>4, <2>5, <1>4, <1>1
  <1>9. Apart(d)
    <2> SUFFICES ASSUME NEW f \in DOMAIN d, NEW g \in DOMAIN d, f # g
                 PROVE  Places(d[f]) \cap Places(d[g]) = {}
      BY DEF Apart
    <2>1. PICK i \in 1..c : f = <<s, p, i>> BY <1>2
    <2>2. PICK j \in 1..c : g = <<s, p, j>> BY <1>2
    <2>3. i # j BY <2>1, <2>2
    <2> QED BY <2>1, <2>2, <2>3, <1>8
  <1> QED BY <1>2, <1>6, <1>7, <1>9 DEF Inside

\* Every OBD2 message: its signals lie apart, in the eight bytes.
LEMMA Obd2Inside ==
    ASSUME NEW s, NEW p
    PROVE  Inside(PackLayout(s, p), 0 .. 63)
  <1>1. /\ Inside(PackHeader ++ Pid01, (0 .. 15) \cup (16 .. 23))
        /\ Inside(PackHeader ++ Pid02, (0 .. 15) \cup (16 .. 23))
    <2>1. (0 .. 15) \cap (16 .. 23) = {}
      OBVIOUS
    <2> QED BY <2>1, HeaderInside, PidInside, TwoLayouts
  <1>2. Inside(PackHeader ++ Pid01, 0 .. 23) /\ Inside(PackHeader ++ Pid02, 0 .. 23)
    BY <1>1, InsideMore
  <1>3. (0 .. 23) \cap (24 .. 63) = {}
    OBVIOUS
  <1>4. /\ Inside(PackHeader ++ Pid01 ++ Data("s1", p, PackShape(p)), (0 .. 23) \cup (24 .. 63))
        /\ Inside(PackHeader ++ Pid02 ++ Data("s2", p, PackService02(p)), (0 .. 23) \cup (24 .. 63))
    BY <1>2, <1>3, PackShapes, DataInside, TwoLayouts
  <1>5. /\ Inside(PackHeader ++ Pid01 ++ Data("s1", p, PackShape(p)), 0 .. 63)
        /\ Inside(PackHeader ++ Pid02 ++ Data("s2", p, PackService02(p)), 0 .. 63)
    BY <1>4, InsideMore
  <1>6. Inside(PackHeader, 0 .. 63)
    BY HeaderInside, InsideMore
  <1> QED BY <1>5, <1>6 DEF PackLayout
----------------------------------------------------------------------------
(* The other messages.                                                     *)

LEMMA GpsTimeFills == Fills(PackGpsTime, 56)
  <1> DEFINE l1 == Field("day", Intel(0, 8))
             l2 == l1 ++ Field("month", Intel(8, 8))
             l3 == l2 ++ Field("year", Intel(16, 16))
             l4 == l3 ++ Field("hour", Intel(32, 8))
             l5 == l4 ++ Field("minute", Intel(40, 8))
             l6 == l5 ++ Field("second", Intel(48, 8))
  <1> HIDE DEF l1, l2, l3, l4, l5, l6
  <1>1. Fills(l1, 8)
    BY FirstField DEF l1
  <1>2. Fills(l2, 16)
    BY <1>1, NextField DEF l2
  <1>3. Fills(l3, 32)
    BY <1>2, NextField DEF l3
  <1>4. Fills(l4, 40)
    BY <1>3, NextField DEF l4
  <1>5. Fills(l5, 48)
    BY <1>4, NextField DEF l5
  <1>6. Fills(l6, 56)
    BY <1>5, NextField DEF l6
  <1>7. PackGpsTime = l6
    BY DEF PackGpsTime, l1, l2, l3, l4, l5, l6
  <1> QED BY <1>6, <1>7

LEMMA GpsLocFills == Fills(PackGpsLoc, 64)
  <1> DEFINE l1 == Field("lat", Intel(0, 32))
             l2 == l1 ++ Field("long", Intel(32, 32))
  <1> HIDE DEF l1, l2
  <1>1. Fills(l1, 32)
    BY FirstField DEF l1
  <1>2. Fills(l2, 64)
    BY <1>1, NextField DEF l2
  <1>3. PackGpsLoc = l2
    BY DEF PackGpsLoc, l1, l2
  <1> QED BY <1>2, <1>3

LEMMA GpsNavFills == Fills(PackGpsNav, 48)
  <1> DEFINE l1 == Field("speed", Intel(0, 16))
             l2 == l1 ++ Field("heading", Intel(16, 16))
             l3 == l2 ++ Field("altitude", Intel(32, 16))
  <1> HIDE DEF l1, l2, l3
  <1>1. Fills(l1, 16)
    BY FirstField DEF l1
  <1>2. Fills(l2, 32)
    BY <1>1, NextField DEF l2
  <1>3. Fills(l3, 48)
    BY <1>2, NextField DEF l3
  <1>4. PackGpsNav = l3
    BY DEF PackGpsNav, l1, l2, l3
  <1> QED BY <1>3, <1>4

LEMMA GpsStatFills == Fills(PackGpsStat, 64)
  <1> DEFINE l1 == Field("active", Intel(0, 6))
             l2 == l1 ++ Field("type", Intel(6, 4))
             l3 == l2 ++ Field("visible", Intel(10, 6))
             l4 == l3 ++ Field("pdop", Intel(16, 16))
             l5 == l4 ++ Field("hdop", Intel(32, 16))
             l6 == l5 ++ Field("vdop", Intel(48, 16))
  <1> HIDE DEF l1, l2, l3, l4, l5, l6
  <1>1. Fills(l1, 6)
    BY FirstField DEF l1
  <1>2. Fills(l2, 10)
    BY <1>1, NextField DEF l2
  <1>3. Fills(l3, 16)
    BY <1>2, NextField DEF l3
  <1>4. Fills(l4, 32)
    BY <1>3, NextField DEF l4
  <1>5. Fills(l5, 48)
    BY <1>4, NextField DEF l5
  <1>6. Fills(l6, 64)
    BY <1>5, NextField DEF l6
  <1>7. PackGpsStat = l6
    BY DEF PackGpsStat, l1, l2, l3, l4, l5, l6
  <1> QED BY <1>6, <1>7

LEMMA FrontControlsFills == Fills(PackFrontControls, 32)
  <1> DEFINE l1 == Field("brake", Intel(2, 1))
             l2 == l1 ++ Field("horn", Intel(3, 1))
             l3 == l2 ++ Field("left", Intel(4, 1))
             l4 == l3 ++ Field("right", Intel(5, 1))
             l5 == l4 ++ Field("high", Intel(6, 1))
             l6 == l5 ++ Field("kill", Intel(7, 1))
             l7 == l6 ++ Field("clutch", Intel(10, 1))
             l8 == l7 ++ Field("kickstand", Intel(11, 1))
             l9 == l8 ++ Field("neutral", Intel(12, 1))
             l10 == l9 ++ Field("voltage", Intel(16, 16))
  <1> HIDE DEF l1, l2, l3, l4, l5, l6, l7, l8, l9, l10
  <1>1. Fills(l1, 3)
    BY FirstField DEF l1
  <1>2. Fills(l2, 4)
    BY <1>1, NextField DEF l2
  <1>3. Fills(l3, 5)
    BY <1>2, NextField DEF l3
  <1>4. Fills(l4, 6)
    BY <1>3, NextField DEF l4
  <1>5. Fills(l5, 7)
    BY <1>4, NextField DEF l5
  <1>6. Fills(l6, 8)
    BY <1>5, NextField DEF l6
  <1>7. Fills(l7, 11)
    BY <1>6, NextField DEF l7
  <1>8. Fills(l8, 12)
    BY <1>7, NextField DEF l8
  <1>9. Fills(l9, 13)
    BY <1>8, NextField DEF l9
  <1>10. Fills(l10, 32)
    BY <1>9, NextField DEF l10
  <1>11. PackFrontControls = l10
    BY DEF PackFrontControls, l1, l2, l3, l4, l5, l6, l7, l8, l9, l10
  <1> QED BY <1>10, <1>11

LEMMA BodyPositionFills == Fills(PackBodyPosition, 37)
  <1> DEFINE l1 == Field("roll", Intel(0, 12))
             l2 == l1 ++ Field("pitch", Intel(12, 12))
             l3 == l2 ++ Field("yaw", Intel(24, 13))
  <1> HIDE DEF l1, l2, l3
  <1>1. Fills(l1, 12)
    BY FirstField DEF l1
  <1>2. Fills(l2, 24)
    BY <1>1, NextField DEF l2
  <1>3. Fills(l3, 37)
    BY <1>2, NextField DEF l3
  <1>4. PackBodyPosition = l3
    BY DEF PackBodyPosition, l1, l2, l3
  <1> QED BY <1>3, <1>4

LEMMA BodyAccelFills == Fills(PackBodyAccel, 48)
  <1> DEFINE l1 == Field("x", Intel(0, 16))
             l2 == l1 ++ Field("y", Intel(16, 16))
             l3 == l2 ++ Field("z", Intel(32, 16))
  <1> HIDE DEF l1, l2, l3
  <1>1. Fills(l1, 16)
    BY FirstField DEF l1
  <1>2. Fills(l2, 32)
    BY <1>1, NextField DEF l2
  <1>3. Fills(l3, 48)
    BY <1>2, NextField DEF l3
  <1>4. PackBodyAccel = l3
    BY DEF PackBodyAccel, l1, l2, l3
  <1> QED BY <1>3, <1>4

LEMMA Wb2AndRequestInside ==
    Inside(PackWb2, 0 .. 63) /\ Inside(PackRequest, 0 .. 63)
  <1>1. Fills(Field("lambda", Intel(0, 16)), 16) /\ Fills(Field("mode", Intel(8, 6)), 14)
    BY FirstField
  <1>2. Fills(Field("mode", Intel(8, 6)) ++ Field("pid", Intel(16, 8)), 24)
    BY <1>1, NextField
  <1> QED BY <1>1, <1>2, InsideMore DEF Fills, PackWb2, PackRequest

Devices == Kinds \ {"iso_tp"}

\* Every message of the devices: its signals lie apart, in the bytes of its size.
LEMMA DeviceInside ==
    ASSUME NEW kind \in Devices
    PROVE  Inside(DevicePackLayout(kind), 0 .. Byte * Size(kind) - 1)
  <1>1. CASE kind = "gps_time"
    <2>1. DevicePackLayout(kind) = PackGpsTime /\ Byte * Size(kind) - 1 = 63
      BY <1>1 DEF DevicePackLayout, Size, Byte
    <2>2. Inside(PackGpsTime, 0 .. 63)
      BY GpsTimeFills, InsideMore DEF Fills
    <2> QED BY <2>1, <2>2
  <1>2. CASE kind = "gps_loc"
    <2>1. DevicePackLayout(kind) = PackGpsLoc /\ Byte * Size(kind) - 1 = 63
      BY <1>2 DEF DevicePackLayout, Size, Byte
    <2>2. Inside(PackGpsLoc, 0 .. 63)
      BY GpsLocFills, InsideMore DEF Fills
    <2> QED BY <2>1, <2>2
  <1>3. CASE kind = "gps_nav"
    <2>1. DevicePackLayout(kind) = PackGpsNav /\ Byte * Size(kind) - 1 = 63
      BY <1>3 DEF DevicePackLayout, Size, Byte
    <2>2. Inside(PackGpsNav, 0 .. 63)
      BY GpsNavFills, InsideMore DEF Fills
    <2> QED BY <2>1, <2>2
  <1>4. CASE kind = "gps_stat"
    <2>1. DevicePackLayout(kind) = PackGpsStat /\ Byte * Size(kind) - 1 = 63
      BY <1>4 DEF DevicePackLayout, Size, Byte
    <2>2. Inside(PackGpsStat, 0 .. 63)
      BY GpsStatFills, InsideMore DEF Fills
    <2> QED BY <2>1, <2>2
  <1>5. CASE kind = "front_controls"
    <2>1. DevicePackLayout(kind) = PackFrontControls /\ Byte * Size(kind) - 1 = 31
      BY <1>5 DEF DevicePackLayout, Size, Byte
    <2>2. Inside(PackFrontControls, 0 .. 31)
      BY FrontControlsFills, InsideMore DEF Fills
    <2> QED BY <2>1, <2>2
  <1>6. CASE kind = "body_position"
    <2>1. DevicePackLayout(kind) = PackBodyPosition /\ Byte * Size(kind) - 1 = 39
      BY <1>6 DEF DevicePackLayout, Size, Byte
    <2>2. Inside(PackBodyPosition, 0 .. 39)
      BY BodyPositionFills, InsideMore DEF Fills
    <2> QED BY <2>1, <2>2
  <1>7. CASE kind = "body_accel"
    <2>1. DevicePackLayout(kind) = PackBodyAccel /\ Byte * Size(kind) - 1 = 47
      BY <1>7 DEF DevicePackLayout, Size, Byte
    <2>2. Inside(PackBodyAccel, 0 .. 47)
      BY BodyAccelFills, InsideMore DEF Fills
    <2> QED BY <2>1, <2>2
  <1>8. CASE kind = "ignitech_wb_2"
    <2>1. DevicePackLayout(kind) = PackWb2 /\ Byte * Size(kind) - 1 = 63
      BY <1>8 DEF DevicePackLayout, Size, Byte
    <2> QED BY <2>1, Wb2AndRequestInside
  <1>9. CASE kind = "request"
    <2>1. DevicePackLayout(kind) = PackRequest /\ Byte * Size(kind) - 1 = 63
      BY <1>9 DEF DevicePackLayout, Size, Byte
    <2> QED BY <2>1, Wb2AndRequestInside
  <1> QED BY <1>1, <1>2, <1>3, <1>4, <1>5, <1>6, <1>7, <1>8, <1>9 DEF Devices, Kinds

\* As for OBD2: pack() and unpack() of a device's message agree.
LEMMA SameDeviceLayouts ==
    ASSUME NEW kind \in Devices
    PROVE  DeviceUnpackLayout(kind) = DevicePackLayout(kind)
  <1>1. /\ UnpackGpsTime = PackGpsTime /\ UnpackGpsLoc = PackGpsLoc
        /\ UnpackGpsNav = PackGpsNav /\ UnpackGpsStat = PackGpsStat
        /\ UnpackFrontControls = PackFrontControls
        /\ UnpackBodyPosition = PackBodyPosition /\ UnpackBodyAccel = PackBodyAccel
        /\ UnpackWb2 = PackWb2 /\ UnpackRequest = PackRequest
    BY DEF UnpackGpsTime, PackGpsTime, UnpackGpsLoc, PackGpsLoc, UnpackGpsNav, PackGpsNav,
           UnpackGpsStat, PackGpsStat, UnpackFrontControls, PackFrontControls,
           UnpackBodyPosition, PackBodyPosition, UnpackBodyAccel, PackBodyAccel,
           UnpackWb2, PackWb2, UnpackRequest, PackRequest
  <1> QED BY <1>1 DEF Devices, Kinds, DeviceUnpackLayout, DevicePackLayout

(* ISO-TP.                                                                 *)

LEMMA IsoTpInside ==
    ASSUME NEW t, NEW st, NEW us
    PROVE  Inside(PackIsoTp(t, st, us), 0 .. 63)
  <1> DEFINE Rest == (0 .. 3) \cup (8 .. 23)
             timed == CASE st = 0 -> Field("fc_st_ms", Intel(16, 7))
                        [] st = 1 -> Field("fc_st_us_mux", Intel(20, 3)) ++
                                     (IF us = 7 THEN Field("fc_st_us", Intel(16, 4)) ELSE <<>>)
                        [] OTHER  -> <<>>
             flow == Field("fc_flag", Intel(0, 4)) ++ Field("fc_block_size", Intel(8, 8))
                     ++ Field("fc_st", Intel(23, 1)) ++ timed
             rest == CASE t = 0 -> Field("sf_size", Intel(0, 4))
                       [] t = 1 -> Field("ff_size", Motorola(4, 12))
                       [] t = 2 -> Field("cf_index", Intel(0, 4))
                       [] t = 3 -> flow
                       [] OTHER -> <<>>
  <1>1. Inside(Field("sf_size", Intel(0, 4)), Rest) /\ Inside(Field("cf_index", Intel(0, 4)), Rest)
    <2>1. Fills(Field("sf_size", Intel(0, 4)), 4) /\ Fills(Field("cf_index", Intel(0, 4)), 4)
      BY FirstField
    <2> QED BY <2>1, InsideMore DEF Fills
  <1>2. Inside(Field("ff_size", Motorola(4, 12)), Rest)
    <2>1. Places(Motorola(4, 12)) = {Sent(q) : q \in 4 .. 4 + 12 - 1}
      BY MotorolaPlaces
    <2>2. \A q \in 4 .. 4 + 12 - 1 : Sent(q) \in Rest
      BY DEF Sent, Byte
    <2>3. IsSignal(Motorola(4, 12))
      BY SignalTypes
    <2> QED BY <2>1, <2>2, <2>3 DEF Inside, Apart, Field
  <1>3. Inside(timed, 16 .. 22)
    <2>1. Inside(Field("fc_st_ms", Intel(16, 7)), 16 .. 22)
      <3>1. Inside(Field("fc_st_ms", Intel(16, 7)), 16 .. 16 + 7 - 1)
        BY OneField
      <3> QED BY <3>1
    <2>2. Inside(Field("fc_st_us_mux", Intel(20, 3)), 20 .. 22)
      <3>1. Inside(Field("fc_st_us_mux", Intel(20, 3)), 20 .. 20 + 3 - 1)
        BY OneField
      <3> QED BY <3>1
    <2>3. Inside(IF us = 7 THEN Field("fc_st_us", Intel(16, 4)) ELSE <<>>, 16 .. 19)
      <3>1. Inside(Field("fc_st_us", Intel(16, 4)), 16 .. 16 + 4 - 1)
        BY OneField
      <3> QED BY <3>1, NoField
    <2>4. (20 .. 22) \cap (16 .. 19) = {}
      OBVIOUS
    <2>5. Inside(Field("fc_st_us_mux", Intel(20, 3))
                 ++ (IF us = 7 THEN Field("fc_st_us", Intel(16, 4)) ELSE <<>>), 16 .. 22)
      <3>1. Inside(Field("fc_st_us_mux", Intel(20, 3))
                   ++ (IF us = 7 THEN Field("fc_st_us", Intel(16, 4)) ELSE <<>>),
                   (20 .. 22) \cup (16 .. 19))
        BY <2>2, <2>3, <2>4, TwoLayouts
      <3> QED BY <3>1, InsideMore
    <2>6. Inside(<<>>, 16 .. 22)
      BY NoField
    <2> QED BY <2>1, <2>5, <2>6
  <1>4. Inside(flow, Rest)
    <2> HIDE DEF timed
    <2>1. Inside(Field("fc_flag", Intel(0, 4)) ++ Field("fc_block_size", Intel(8, 8)),
                 (0 .. 3) \cup (8 .. 15))
      <3>1. Inside(Field("fc_flag", Intel(0, 4)), 0 .. 3)
        <4>1. Inside(Field("fc_flag", Intel(0, 4)), 0 .. 0 + 4 - 1)
          BY OneField
        <4> QED BY <4>1
      <3>2. Inside(Field("fc_block_size", Intel(8, 8)), 8 .. 15)
        <4>1. Inside(Field("fc_block_size", Intel(8, 8)), 8 .. 8 + 8 - 1)
          BY OneField
        <4> QED BY <4>1
      <3>3. (0 .. 3) \cap (8 .. 15) = {}
        OBVIOUS
      <3> QED BY <3>1, <3>2, <3>3, TwoLayouts
    <2>2. Inside(Field("fc_st", Intel(23, 1)), 23 .. 23)
      <3>1. Inside(Field("fc_st", Intel(23, 1)), 23 .. 23 + 1 - 1)
        BY OneField
      <3> QED BY <3>1
    <2>3. ((0 .. 3) \cup (8 .. 15)) \cap (23 .. 23) = {}
      OBVIOUS
    <2>4. Inside(Field("fc_flag", Intel(0, 4)) ++ Field("fc_block_size", Intel(8, 8))
                 ++ Field("fc_st", Intel(23, 1)), ((0 .. 3) \cup (8 .. 15)) \cup (23 .. 23))
      BY <2>1, <2>2, <2>3, TwoLayouts
    <2>5. (((0 .. 3) \cup (8 .. 15)) \cup (23 .. 23)) \cap (16 .. 22) = {}
      OBVIOUS
    <2>6. Inside(flow, (((0 .. 3) \cup (8 .. 15)) \cup (23 .. 23)) \cup (16 .. 22))
      BY <2>4, <2>5, <1>3, TwoLayouts
    <2>7. (((0 .. 3) \cup (8 .. 15)) \cup (23 .. 23)) \cup (16 .. 22) \subseteq Rest
      OBVIOUS
    <2> HIDE DEF flow, Rest
    <2> QED BY <2>6, <2>7, InsideMore
  <1>5. Inside(rest, Rest)
    <2> HIDE DEF flow, Rest
    <2> QED BY <1>1, <1>2, <1>4, NoField
  <1>6. Inside(Field("type", Intel(4, 4)), 4 .. 7)
    <2>1. Inside(Field("type", Intel(4, 4)), 4 .. 4 + 4 - 1)
      BY OneField
    <2> QED BY <2>1
  <1>7. (4 .. 7) \cap Rest = {}
    OBVIOUS
  <1>8. Inside(Field("type", Intel(4, 4)) ++ rest, (4 .. 7) \cup Rest)
    <2> HIDE DEF rest, Rest
    <2> QED BY <1>5, <1>6, <1>7, TwoLayouts
  <1>9. (4 .. 7) \cup Rest \subseteq 0 .. 63
    OBVIOUS
  <1>10. PackIsoTp(t, st, us) = Field("type", Intel(4, 4)) ++ rest
    BY DEF PackIsoTp
  <1> HIDE DEF rest, Rest
  <1> QED BY <1>8, <1>9, <1>10, InsideMore

LEMMA InsideWithin ==
    ASSUME NEW layout, NEW n, Inside(layout, 0 .. n - 1)
    PROVE  Within(layout, n)
  BY DEF Inside, Within
----------------------------------------------------------------------------
(* What arrives, and where pack() writes.                                  *)

\* A field of any OBD2 message that holds a value of its width arrives in the
\* receiver's struct with that value, and the fields of other PIDs keep the old
\* word, whichever service, PID and contents (obd2_obd2_pack, obd2_obd2_unpack).
THEOREM Obd2Arrives ==
    ASSUME NEW s, NEW p, NEW struct, NEW old,
           \A f \in DOMAIN PackLayout(s, p) : struct[f] \subseteq Ones(PackLayout(s, p)[f].len),
           NEW g \in DOMAIN old
    PROVE  UnpackAll(UnpackLayout(s, p), PackAll(PackLayout(s, p), struct), old)[g] =
              IF g \in DOMAIN PackLayout(s, p) THEN struct[g] ELSE old[g]
  <1>1. /\ Apart(PackLayout(s, p))
        /\ \A f \in DOMAIN PackLayout(s, p) : IsSignal(PackLayout(s, p)[f])
    BY Obd2Inside DEF Inside
  <1> QED BY <1>1, SameLayouts, UnpackOfPack

\* The same of every message of the devices and of the OBD2 request.
THEOREM DeviceFieldsArrive ==
    ASSUME NEW kind \in Devices, NEW struct, NEW old,
           \A f \in DOMAIN DevicePackLayout(kind) :
              struct[f] \subseteq Ones(DevicePackLayout(kind)[f].len),
           NEW g \in DOMAIN old
    PROVE  UnpackAll(DeviceUnpackLayout(kind), PackAll(DevicePackLayout(kind), struct), old)[g] =
              IF g \in DOMAIN DevicePackLayout(kind) THEN struct[g] ELSE old[g]
  <1>1. /\ Apart(DevicePackLayout(kind))
        /\ \A f \in DOMAIN DevicePackLayout(kind) : IsSignal(DevicePackLayout(kind)[f])
    BY DeviceInside DEF Inside
  <1> QED BY <1>1, SameDeviceLayouts, UnpackOfPack

KindInv == msg.kind \in {"obd2"} \cup Kinds

LEMMA KindOfMessage ==
    ASSUME NEW m \in Messages
    PROVE  m.kind \in {"obd2"} \cup Kinds
  BY DEF Messages, Message, Kinds

LEMMA KindInvInit == CodecInit => KindInv
  BY DEF CodecInit, KindInv, Message

LEMMA KindInvNext == KindInv /\ [CodecNext]_codecVars => KindInv'
  <1> SUFFICES ASSUME KindInv, [CodecNext]_codecVars PROVE KindInv'
    OBVIOUS
  <1>1. ASSUME NEW m \in Messages, FillWords(m) \/ FillEncoded(m) PROVE KindInv'
    <2>1. msg' = m
      BY <1>1 DEF FillWords, FillEncoded, Fill
    <2> QED BY <2>1, KindOfMessage DEF KindInv
  <1>2. CASE Pack BY <1>2 DEF Pack, KindInv
  <1>3. CASE Unpack BY <1>3 DEF Unpack, KindInv
  <1>4. CASE Leave BY <1>4 DEF Leave, KindInv, Message
  <1>5. CASE UNCHANGED codecVars BY <1>5 DEF codecVars, KindInv
  <1> QED BY <1>1, <1>2, <1>3, <1>4, <1>5 DEF CodecNext

LEMMA LayoutWithin ==
    ASSUME KindInv
    PROVE  Within(PackLayoutOf(src), Byte * Size(msg.kind))
  <1>1. CASE msg.kind = "obd2"
    <2>1. \A s, p : Within(PackLayout(s, p), 64)
      <3> TAKE s, p
      <3>1. Inside(PackLayout(s, p), 0 .. 64 - 1)
        BY Obd2Inside
      <3> QED BY <3>1, InsideWithin
    <2>2. \E s, p : PackLayoutOf(src) = PackLayout(s, p)
      BY <1>1 DEF PackLayoutOf
    <2>3. Byte * Size(msg.kind) = 64
      BY <1>1 DEF Byte, Size
    <2> QED BY <2>1, <2>2, <2>3
  <1>2. CASE msg.kind = "iso_tp"
    <2>1. \A t, st, us : Within(PackIsoTp(t, st, us), 64)
      <3> TAKE t, st, us
      <3>1. Inside(PackIsoTp(t, st, us), 0 .. 64 - 1)
        BY IsoTpInside
      <3> QED BY <3>1, InsideWithin
    <2>2. \E t, st, us : PackLayoutOf(src) = PackIsoTp(t, st, us)
      BY <1>2 DEF PackLayoutOf
    <2>3. Byte * Size(msg.kind) = 64
      BY <1>2 DEF Byte, Size
    <2> QED BY <2>1, <2>2, <2>3
  <1>3. CASE msg.kind \in Devices
    <2>1. PackLayoutOf(src) = DevicePackLayout(msg.kind)
      BY <1>3 DEF PackLayoutOf, Devices, Kinds
    <2> QED BY <1>3, <2>1, DeviceInside, InsideWithin
  <1> QED BY <1>1, <1>2, <1>3 DEF KindInv, Devices

\* No pack() of any message writes behind the bytes it asks its caller for,
\* whatever the struct and its switches hold, for any PIDs (PackStaysInBuffer).
THEOREM PackStays == CodecSpec => []PackStaysInBuffer
  <1>1. CodecInit => PackStaysInBuffer
    BY DEF CodecInit, PackStaysInBuffer
  <1>2. KindInv /\ PackStaysInBuffer /\ [CodecNext]_codecVars => PackStaysInBuffer'
    <2> SUFFICES ASSUME KindInv, PackStaysInBuffer, [CodecNext]_codecVars
                 PROVE  PackStaysInBuffer'
      OBVIOUS
    <2>1. ASSUME NEW m \in Messages, FillWords(m) \/ FillEncoded(m) PROVE PackStaysInBuffer'
      <3>1. frame' = {}
        BY <2>1 DEF FillWords, FillEncoded, Fill
      <3> QED BY <3>1 DEF PackStaysInBuffer
    <2>2. CASE Pack
      <3>1. msg' = msg /\ frame' \in {frame, PackAll(PackLayoutOf(src), src)}
        BY <2>2 DEF Pack
      <3>2. PackAll(PackLayoutOf(src), src) \subseteq 0 .. Byte * Size(msg.kind) - 1
        BY LayoutWithin, PackWithin
      <3> QED BY <3>1, <3>2 DEF PackStaysInBuffer
    <2>3. CASE Unpack BY <2>3 DEF Unpack, PackStaysInBuffer
    <2>4. CASE Leave BY <2>4 DEF Leave, PackStaysInBuffer
    <2>5. CASE UNCHANGED codecVars BY <2>5 DEF codecVars, PackStaysInBuffer
    <2> QED BY <2>1, <2>2, <2>3, <2>4, <2>5 DEF CodecNext
  <1> QED BY <1>1, <1>2, KindInvInit, KindInvNext, PTL DEF CodecSpec
----------------------------------------------------------------------------
(* Values that are encoded: what the types and scales of a signal allow.   *)

\* The literals of the powers, apart from where they are used.
LEMMA PowerTable ==
    /\ Two(1) = 2 /\ Two(2) = 4 /\ Two(3) = 8 /\ Two(4) = 16 /\ Two(6) = 64 /\ Two(7) = 128
    /\ Two(8) = 256 /\ Two(12) = 4096 /\ Two(13) = 8192 /\ Two(15) = 32768 /\ Two(16) = 65536
    /\ Two(30) = 1073741824
  BY DEF Two

\* A field's type, scale and limits suit a signal of this width.
Fits(c, len) ==
    /\ c.bits \in {8, 16, 32} /\ len \in 1 .. c.bits
    /\ c.signed \in BOOLEAN /\ (c.signed => c.bits = 16 /\ c.last = -1)
    /\ c.num \in Nat \ {0} /\ c.den \in Nat /\ c.off \in Int
    /\ c.first \in 0 .. 8 /\ c.first + 1 < Two(len)
    /\ \/ c.last = -1 /\ len = c.bits
       \/ c.last \in Nat /\ c.last < Two(len) /\ c.last < Two(30)

LEMMA ProbeFits ==
    ASSUME NEW c, NEW len, Fits(c, len), NEW w \in {"zero", "one", "high", "all"}
    PROVE  /\ RawProbe(w, c) \in Nat
           /\ RawProbe(w, c) < Two(len) /\ RawProbe(w, c) < Two(30)
           /\ c.signed => RawProbe(w, c) < Two(15)
           /\ FitsType(c, RawProbe(w, c))
  <1> DEFINE cap == LastRaw(c)
  <1>1. /\ \A k \in 0 .. 32 : Two(k) \in Nat
        /\ Two(len) <= Two(c.bits) /\ Two(30) \in Nat
        /\ Two(15) <= Two(16) /\ Two(16) < Two(30) /\ Two(8) < Two(30) /\ Two(30) <= Two(32)
    <2>1. len \in 0 .. c.bits /\ c.bits \in 0 .. 32
      BY DEF Fits
    <2>2. \A k \in 0 .. 32 : Two(k) \in Nat
      BY PowersGrow
    <2>3. Two(len) <= Two(c.bits)
      BY <2>1, PowersGrow
    <2>4. Two(30) <= Two(32)
      BY PowersGrow
    <2> QED BY <2>2, <2>3, <2>4, PowerTable
  <1>2. cap \in Nat /\ cap < Two(len) /\ cap < Two(30) /\ (c.signed => cap < Two(15))
    <2>1. CASE c.last # -1
      BY <2>1 DEF LastRaw, Fits
    <2>2. CASE c.last = -1 /\ c.bits = 32
      <3>1. cap = BigRaw
        BY <2>2 DEF LastRaw
      <3>2. BigRaw \in 0 .. Two(30) - 1
        BY CodecAssumption DEF Two
      <3>3. len = 32 /\ ~c.signed
        BY <2>2 DEF Fits
      <3> HIDE DEF cap
      <3> QED BY <1>1, <3>1, <3>2, <3>3
    <2>3. CASE c.last = -1 /\ c.bits \in {8, 16} /\ ~c.signed
      <3>1. cap = Two(c.bits) - 1
        BY <2>3 DEF LastRaw, Two
      <3>2. len = c.bits
        BY <2>3 DEF Fits
      <3> HIDE DEF cap
      <3> QED BY <1>1, <2>3, <3>1, <3>2, PowerTable
    <2>4. CASE c.last = -1 /\ c.signed
      <3>1. c.bits = 16 /\ len = 16
        BY <2>4 DEF Fits
      <3>2. cap = Two(c.bits - 1) - 1
        BY <2>4, <3>1 DEF LastRaw, Two
      <3>3. cap = Two(15) - 1
        BY <3>1, <3>2
      <3> HIDE DEF cap
      <3> QED BY <1>1, <2>4, <3>1, <3>3, PowerTable
    <2> QED BY <2>1, <2>2, <2>3, <2>4 DEF Fits
  <1>3. c.first \in Nat /\ c.first + 1 < Two(len) /\ c.first + 1 < Two(30) /\ (c.signed => c.first + 1 < Two(15))
    <2>1. c.first \in 0 .. 8 /\ c.first + 1 < Two(len)
      BY DEF Fits
    <2> QED BY <2>1, PowerTable
  <1>4. cap \div 2 \in Nat /\ cap \div 2 <= cap
    <2> HIDE DEF cap
    <2> QED BY <1>2
  <1> HIDE DEF cap
  <1>5. /\ RawProbe(w, c) \in Nat /\ RawProbe(w, c) < Two(len) /\ RawProbe(w, c) < Two(30)
        /\ c.signed => RawProbe(w, c) < Two(15)
    <2>1. RawProbe(w, c) \in {c.first, c.first + 1, cap \div 2, cap}
      BY DEF RawProbe, cap
    <2>2. len \in 0 .. 32
      BY DEF Fits
    <2> QED BY <1>1, <1>2, <1>3, <1>4, <2>1, <2>2
  <1>6. FitsType(c, RawProbe(w, c))
    <2> DEFINE q == RawProbe(w, c)
    <2>1. c.bits \in {8, 16, 32} /\ (c.signed => c.bits = 16) /\ c.bits \in 0 .. 32 /\ len \in 0 .. 32
      BY DEF Fits
    <2>2. CASE c.signed
      <3>1. FitsType(c, q) <=> q \in -Two(c.bits - 1) .. Two(c.bits - 1) - 1
        BY <2>2 DEF FitsType, Two
      <3>2. c.bits - 1 = 15
        BY <2>1, <2>2
      <3> HIDE DEF q
      <3>3. q \in Nat /\ q < Two(15) /\ Two(15) \in Nat
        BY <1>1, <1>5, <2>2 DEF q
      <3>4. q \in -Two(15) .. Two(15) - 1
        BY <3>3
      <3>5. Two(c.bits - 1) = Two(15)
        BY <3>2
      <3> QED BY <3>1, <3>4, <3>5 DEF q
    <2>3. CASE ~c.signed
      <3>1. FitsType(c, q) <=> q >= 0 /\ (c.bits > 30 \/ q < Two(c.bits))
        BY <2>3 DEF FitsType, Two
      <3> HIDE DEF q
      <3>2. q \in Nat /\ q < Two(len)
        BY <1>5 DEF q
      <3>3. q >= 0 /\ (c.bits > 30 \/ q < Two(c.bits))
        BY <1>1, <2>1, <3>2
      <3> QED BY <3>1, <3>3 DEF q
    <2> QED BY <2>2, <2>3
  <1> QED BY <1>5, <1>6

\* One word or two, of which one is the least and one the greatest.
OneOrTwo(c, E) == \E a, b : E = {a, b} /\ Number(c, a) \in Int /\ Number(c, b) \in Int

\* The signal has room for the word, which decodes to a value a step below at most.
Carries(c, len, r, v) ==
    v \subseteq Ones(len) /\ Decode(c, v) <= r /\ r - Decode(c, v) <= 4 * c.num

\* Encoding one of these values gives such words.
LEMMA ProbeEncoded ==
    ASSUME NEW c, NEW len, Fits(c, len), NEW w \in {"zero", "one", "high", "all"},
           NEW quarter \in 0 .. 3
    PROVE  /\ OneOrTwo(c, Encode(c, Physical(w, quarter, c)))
           /\ \A v \in Encode(c, Physical(w, quarter, c)) : Carries(c, len, Physical(w, quarter, c), v)
  <1> DEFINE r == Physical(w, quarter, c)
  <1> HIDE DEF r
  <1> DEFINE q == RawProbe(w, c)
             m == 4 * c.num
             base == 4 * c.den * c.off
             steps == r - base
             small == quarter * c.num
  <1>1. /\ q \in Nat /\ q < Two(len) /\ q < Two(30) /\ (c.signed => q < Two(15))
        /\ FitsType(c, q)
    BY ProbeFits
  <1>2. /\ c.bits \in {8, 16, 32} /\ len \in 1 .. c.bits /\ (c.signed => c.bits = 16)
        /\ c.num \in Nat \ {0} /\ c.den \in Nat /\ c.off \in Int
    BY DEF Fits
  <1>3. m \in Nat /\ m > 0 /\ small \in Nat /\ small < m /\ base \in Int
    BY <1>2
  <1> HIDE DEF q
  <1>4. r \in Int /\ steps = m * q + small
    <2>1. r = 4 * (q * c.num + c.den * c.off) + quarter * c.num
      BY DEF Physical, q, r
    <2>2. q * c.num \in Int /\ c.den * c.off \in Int /\ m * q = 4 * (q * c.num)
          /\ base = 4 * (c.den * c.off)
      BY <1>1, <1>2
    <2> QED BY <1>3, <2>1, <2>2
  <1> HIDE DEF m, small
  <1>5. steps \div m = q /\ steps % m = small
    <2>1. (m * q + small) \div m = q /\ (m * q + small) % m = small
      BY <1>1, <1>3, DivModUnique
    <2> QED BY <1>4, <2>1
  <1> HIDE DEF steps
  <1>6. steps >= 0
    <2>1. m * q \in Nat
      BY <1>1, <1>3
    <2>2. small \in Nat
      BY <1>3
    <2> QED BY <1>4, <2>1, <2>2
  <1>7. Toward0(steps, m) = q
    BY <1>5, <1>6 DEF Toward0
  <1>8. Encode(c, r) = {Bits(k, c.bits) : k \in {q} \cup
                          (IF q > 0 /\ steps % m = 0 /\ ~Dyadic(c) THEN {q - 1} ELSE {})}
    BY <1>1, <1>7 DEF Encode, steps, m, base
  <1>9. ASSUME NEW k \in Nat, k <= q
        PROVE  Number(c, Bits(k, c.bits)) = k /\ Bits(k, c.bits) \subseteq Ones(len)
    <2>1. /\ \A j \in 0 .. 32 : Two(j) \in Nat
          /\ Two(len) <= Two(c.bits) /\ Two(30) <= Two(31)
      <3>1. len \in 0 .. c.bits /\ c.bits \in 0 .. 32
        BY <1>2
      <3> QED BY <3>1, PowersGrow
    <2>2. /\ k < Two(31) /\ k < Two(len) /\ (c.bits < 31 => k < Two(c.bits))
          /\ c.signed => k < Two(c.bits - 1)
      <3>1. len \in 0 .. 32 /\ c.bits \in 0 .. 32
        BY <1>2
      <3>2. c.signed => c.bits - 1 = 15
        BY <1>2
      <3>3. c.signed => Two(c.bits - 1) = Two(15)
        BY <3>2
      <3>4. k < Two(31) /\ k < Two(len) /\ k < Two(c.bits)
        BY <1>1, <1>9, <2>1, <3>1
      <3>5. c.signed => k < Two(15)
        BY <1>1, <1>9, <2>1
      <3> QED BY <3>3, <3>4, <3>5
    <2>3. Number(c, Bits(k, c.bits)) = k
      BY <1>2, <1>9, <2>2, NumberOfBits
    <2>4. CASE len \in 0 .. 31
      <3>1. Bits(k, c.bits) \subseteq 0 .. len - 1
        BY <1>2, <1>9, <2>2, <2>4, SmallBits
      <3> QED BY <2>3, <3>1 DEF Ones
    <2>5. CASE len = 32
      <3>1. c.bits = 32
        BY <1>2, <2>5
      <3> QED BY <2>3, <2>5, <3>1 DEF Ones, Bits
    <2> QED BY <1>2, <2>4, <2>5
  <1>10. \A k \in {q} \cup (IF q > 0 /\ steps % m = 0 /\ ~Dyadic(c) THEN {q - 1} ELSE {}) :
            k \in Nat /\ k <= q
    BY <1>1
  <1>11. \E a, b : Encode(c, r) = {a, b} /\ Number(c, a) \in Int /\ Number(c, b) \in Int
    <2>1. CASE q > 0 /\ steps % m = 0 /\ ~Dyadic(c)
      <3>1. Encode(c, r) = {Bits(q, c.bits), Bits(q - 1, c.bits)}
        BY <1>8, <2>1
      <3>2. q - 1 \in Nat /\ q - 1 <= q /\ q <= q
        BY <1>1, <2>1
      <3> QED BY <1>1, <1>9, <3>1, <3>2
    <2>2. CASE ~(q > 0 /\ steps % m = 0 /\ ~Dyadic(c))
      <3>1. Encode(c, r) = {Bits(q, c.bits), Bits(q, c.bits)}
        BY <1>8, <2>2
      <3>2. q <= q
        BY <1>1
      <3> QED BY <1>1, <1>9, <3>1, <3>2
    <2> QED BY <2>1, <2>2
  <1>12. ASSUME NEW v \in Encode(c, r) PROVE v \subseteq Ones(len)
    <2>1. PICK k \in Nat : k <= q /\ v = Bits(k, c.bits)
      BY <1>8, <1>10
    <2> QED BY <1>9, <2>1
  <1>13. ASSUME NEW v \in Encode(c, r) PROVE Decode(c, v) <= r /\ r - Decode(c, v) <= 4 * c.num
    <2>1. (r - 4 * c.den * c.off) \div (4 * c.num) = q
      BY <1>5 DEF steps, m, base
    <2>2. q < Two(31)
      <3>1. Two(30) <= Two(31) /\ Two(30) \in Nat /\ Two(31) \in Nat
        BY PowersGrow
      <3> QED BY <1>1, <3>1
    <2>3. /\ (r - 4 * c.den * c.off) \div (4 * c.num) >= 0
          /\ FitsType(c, (r - 4 * c.den * c.off) \div (4 * c.num))
          /\ (r - 4 * c.den * c.off) \div (4 * c.num) < Two(31)
      BY <1>1, <2>1, <2>2
    <2>4. c.bits \in 0 .. 32 /\ (c.signed => c.bits \in 1 .. 31)
      BY <1>2
    <2> QED BY <1>2, <1>4, <1>13, <2>3, <2>4, EncodeWithinStep
  <1>14. OneOrTwo(c, Encode(c, r)) /\ \A v \in Encode(c, r) : Carries(c, len, r, v)
    BY <1>11, <1>12, <1>13 DEF OneOrTwo, Carries
  <1> QED BY <1>14, Zenon DEF r
----------------------------------------------------------------------------
(* Every device's message: its fields' types suit its signals.             *)

\* A switch of message m suits a signal of this width.
SuitsSwitch(m, f, len) ==
    /\ len \in 1 .. 8
    /\ Selectors(m)[f] \in Nat /\ Selectors(m)[f] < Two(len)

\* So does a field that is not narrow: what the struct is filled with has room.
SuitsField(m, f, len) ==
    f \notin Narrow(m) =>
        IF f \in DOMAIN Selectors(m)
        THEN SuitsSwitch(m, f, len)
        ELSE Fits(Conv(m, f), len) /\ Largest(m, f) \subseteq Ones(len)

Suits(m, layout) == \A f \in DOMAIN layout : SuitsField(m, f, layout[f].len)

LEMMA NoneSuits ==
    ASSUME NEW m
    PROVE  Suits(m, <<>>)
  BY DEF Suits

LEMMA OneSuits ==
    ASSUME NEW m, NEW f, NEW s, SuitsField(m, f, s.len)
    PROVE  Suits(m, Field(f, s))
  BY DEF Suits, Field

LEMMA BothSuit ==
    ASSUME NEW m, NEW a, NEW b, Suits(m, a), Suits(m, b)
    PROVE  Suits(m, a ++ b)
  <1> SUFFICES ASSUME NEW f \in DOMAIN (a ++ b) PROVE SuitsField(m, f, (a ++ b)[f].len)
    BY DEF Suits
  <1>1. f \in DOMAIN a \cup DOMAIN b
    BY BothDomain, Zenon
  <1>2. CASE f \in DOMAIN a
    <2>1. (a ++ b)[f] = a[f]
      BY <1>2, FromFirst, Zenon
    <2> QED BY <2>1, <1>2 DEF Suits
  <1>3. CASE f \notin DOMAIN a
    <2>1. f \in DOMAIN b
      BY <1>1, <1>3
    <2>2. (a ++ b)[f] = b[f]
      BY <1>3, <2>1, FromSecond, Zenon
    <2> QED BY <2>1, <2>2 DEF Suits
  <1> QED BY <1>2, <1>3

\* A device's field: only its scale and limits count.
LEMMA DeviceField ==
    ASSUME NEW m, m.kind # "obd2", NEW f, f \notin DOMAIN Selectors(m),
           NEW len, Fits(Conv(m, f), len)
    PROVE  SuitsField(m, f, len)
  <1> DEFINE c == Conv(m, f)
  <1>1. CASE c.last = -1
    <2>1. Largest(m, f) = Ones(c.bits) /\ c.bits = len
      BY <1>1 DEF Largest, Fits
    <2> QED BY <2>1 DEF SuitsField
  <1>2. CASE c.last # -1
    <2>1. Largest(m, f) = Bits(c.last, c.bits)
      BY <1>2 DEF Largest
    <2>2. c.last \in Nat /\ c.last < Two(len) /\ len \in 1 .. 32 /\ c.bits \in Nat /\ len <= c.bits /\ c.bits <= 32
      BY <1>2 DEF Fits
    <2>3. Bits(c.last, c.bits) \subseteq Ones(len)
      <3> HIDE DEF c
      <3>1. CASE len \in 0 .. 31
        BY <2>2, <3>1, SmallBits DEF Ones
      <3>2. CASE len = 32
        BY <2>2, <3>2 DEF Bits, Ones
      <3> QED BY <2>2, <3>1, <3>2
    <2> QED BY <2>1, <2>3 DEF SuitsField
  <1> QED BY <1>1, <1>2

LEMMA NoSwitches ==
    ASSUME NEW m, m.kind \notin {"obd2", "iso_tp"}
    PROVE  DOMAIN Selectors(m) = {}
  BY DEF Selectors

LEMMA WidePower == Two(32) \in Nat /\ Two(30) <= Two(32)
  BY PowersGrow

LEMMA GpsTimeSuits ==
    ASSUME NEW m, m.kind = "gps_time"
    PROVE  Suits(m, PackGpsTime)
  <1>1. /\ Fits(ConvGpsTime("day"), 8) /\ Fits(ConvGpsTime("month"), 8)
        /\ Fits(ConvGpsTime("year"), 16) /\ Fits(ConvGpsTime("hour"), 8)
        /\ Fits(ConvGpsTime("minute"), 8) /\ Fits(ConvGpsTime("second"), 8)
    <2>1. /\ ConvGpsTime("day") = Between(1, 31, Plain(8)) /\ ConvGpsTime("month") = Between(1, 12, Plain(8))
          /\ ConvGpsTime("year") = Between(1, -1, Plain(16)) /\ ConvGpsTime("hour") = UpTo(23, Plain(8))
          /\ ConvGpsTime("minute") = UpTo(59, Plain(8)) /\ ConvGpsTime("second") = UpTo(59, Plain(8))
      BY DEF ConvGpsTime
    <2>2. /\ Fits(Between(1, 31, Plain(8)), 8) /\ Fits(Between(1, 12, Plain(8)), 8)
          /\ Fits(Between(1, -1, Plain(16)), 16) /\ Fits(UpTo(23, Plain(8)), 8)
          /\ Fits(UpTo(59, Plain(8)), 8)
      BY PowerTable DEF Fits, UpTo, Between, Plain, Scaled
    <2> QED BY <2>1, <2>2
  <1>2. \A f, len : Fits(ConvGpsTime(f), len) => SuitsField(m, f, len)
    BY DeviceField, NoSwitches DEF Conv, DeviceConv
  <1>3. \A at, len : Intel(at, len).len = len
    BY DEF Intel
  <1>4. /\ Suits(m, Field("day", Intel(0, 8))) /\ Suits(m, Field("month", Intel(8, 8)))
        /\ Suits(m, Field("year", Intel(16, 16))) /\ Suits(m, Field("hour", Intel(32, 8)))
        /\ Suits(m, Field("minute", Intel(40, 8))) /\ Suits(m, Field("second", Intel(48, 8)))
    BY <1>1, <1>2, <1>3, OneSuits
  <1> QED BY <1>4, BothSuit DEF PackGpsTime

LEMMA GpsLocSuits ==
    ASSUME NEW m, m.kind = "gps_loc"
    PROVE  Suits(m, PackGpsLoc)
  <1>1. Fits(ConvGpsLoc("lat"), 32) /\ Fits(ConvGpsLoc("long"), 32)
    BY PowerTable, WidePower DEF ConvGpsLoc, Fits, UpTo, Between, Plain, Scaled
  <1>2. \A f, len : Fits(ConvGpsLoc(f), len) => SuitsField(m, f, len)
    BY DeviceField, NoSwitches DEF Conv, DeviceConv
  <1>3. \A at, len : Intel(at, len).len = len
    BY DEF Intel
  <1>4. Suits(m, Field("lat", Intel(0, 32))) /\ Suits(m, Field("long", Intel(32, 32)))
    BY <1>1, <1>2, <1>3, OneSuits
  <1> QED BY <1>4, BothSuit DEF PackGpsLoc

LEMMA GpsNavSuits ==
    ASSUME NEW m, m.kind = "gps_nav"
    PROVE  Suits(m, PackGpsNav)
  <1>1. /\ Fits(ConvGpsNav("speed"), 16) /\ Fits(ConvGpsNav("heading"), 16)
        /\ Fits(ConvGpsNav("altitude"), 16)
    <2>1. /\ ConvGpsNav("speed") = Scaled(16, 1, 10, 0) /\ ConvGpsNav("heading") = UpTo(35990, Scaled(16, 1, 10, 0))
          /\ ConvGpsNav("altitude") = Plain(16)
      BY DEF ConvGpsNav
    <2>2. /\ Fits(Scaled(16, 1, 10, 0), 16) /\ Fits(UpTo(35990, Scaled(16, 1, 10, 0)), 16)
          /\ Fits(Plain(16), 16)
      BY PowerTable DEF Fits, UpTo, Between, Plain, Scaled
    <2> QED BY <2>1, <2>2
  <1>2. \A f, len : Fits(ConvGpsNav(f), len) => SuitsField(m, f, len)
    BY DeviceField, NoSwitches DEF Conv, DeviceConv
  <1>3. \A at, len : Intel(at, len).len = len
    BY DEF Intel
  <1>4. /\ Suits(m, Field("speed", Intel(0, 16))) /\ Suits(m, Field("heading", Intel(16, 16)))
        /\ Suits(m, Field("altitude", Intel(32, 16)))
    BY <1>1, <1>2, <1>3, OneSuits
  <1> QED BY <1>4, BothSuit DEF PackGpsNav

LEMMA GpsStatSuits ==
    ASSUME NEW m, m.kind = "gps_stat"
    PROVE  Suits(m, PackGpsStat)
  <1>1. /\ Fits(ConvGpsStat("active"), 6) /\ Fits(ConvGpsStat("type"), 4)
        /\ Fits(ConvGpsStat("visible"), 6) /\ Fits(ConvGpsStat("pdop"), 16)
        /\ Fits(ConvGpsStat("hdop"), 16) /\ Fits(ConvGpsStat("vdop"), 16)
    <2>1. /\ ConvGpsStat("active") = UpTo(63, Plain(8)) /\ ConvGpsStat("type") = UpTo(15, Plain(8))
          /\ ConvGpsStat("visible") = UpTo(63, Plain(8)) /\ ConvGpsStat("pdop") = Scaled(16, 1, 10, 0)
          /\ ConvGpsStat("hdop") = Scaled(16, 1, 10, 0) /\ ConvGpsStat("vdop") = Scaled(16, 1, 10, 0)
      BY DEF ConvGpsStat
    <2>2. /\ Fits(UpTo(63, Plain(8)), 6) /\ Fits(UpTo(15, Plain(8)), 4)
          /\ Fits(Scaled(16, 1, 10, 0), 16)
      BY PowerTable DEF Fits, UpTo, Between, Plain, Scaled
    <2> QED BY <2>1, <2>2
  <1>2. \A f, len : Fits(ConvGpsStat(f), len) => SuitsField(m, f, len)
    BY DeviceField, NoSwitches DEF Conv, DeviceConv
  <1>3. \A at, len : Intel(at, len).len = len
    BY DEF Intel
  <1>4. /\ Suits(m, Field("active", Intel(0, 6))) /\ Suits(m, Field("type", Intel(6, 4)))
        /\ Suits(m, Field("visible", Intel(10, 6))) /\ Suits(m, Field("pdop", Intel(16, 16)))
        /\ Suits(m, Field("hdop", Intel(32, 16))) /\ Suits(m, Field("vdop", Intel(48, 16)))
    BY <1>1, <1>2, <1>3, OneSuits
  <1> QED BY <1>4, BothSuit DEF PackGpsStat

LEMMA FrontControlsSuits ==
    ASSUME NEW m, m.kind = "front_controls"
    PROVE  Suits(m, PackFrontControls)
  <1>1. /\ Fits(ConvFrontControls("brake"), 1) /\ Fits(ConvFrontControls("horn"), 1)
        /\ Fits(ConvFrontControls("left"), 1) /\ Fits(ConvFrontControls("right"), 1)
        /\ Fits(ConvFrontControls("high"), 1) /\ Fits(ConvFrontControls("kill"), 1)
        /\ Fits(ConvFrontControls("clutch"), 1) /\ Fits(ConvFrontControls("kickstand"), 1)
        /\ Fits(ConvFrontControls("neutral"), 1) /\ Fits(ConvFrontControls("voltage"), 16)
    BY PowerTable, WidePower DEF ConvFrontControls, Fits, UpTo, Between, Plain, Scaled
  <1>2. \A f, len : Fits(ConvFrontControls(f), len) => SuitsField(m, f, len)
    BY DeviceField, NoSwitches DEF Conv, DeviceConv
  <1>3. \A at, len : Intel(at, len).len = len
    BY DEF Intel
  <1>4. /\ Suits(m, Field("brake", Intel(2, 1))) /\ Suits(m, Field("horn", Intel(3, 1)))
        /\ Suits(m, Field("left", Intel(4, 1))) /\ Suits(m, Field("right", Intel(5, 1)))
        /\ Suits(m, Field("high", Intel(6, 1))) /\ Suits(m, Field("kill", Intel(7, 1)))
        /\ Suits(m, Field("clutch", Intel(10, 1))) /\ Suits(m, Field("kickstand", Intel(11, 1)))
        /\ Suits(m, Field("neutral", Intel(12, 1))) /\ Suits(m, Field("voltage", Intel(16, 16)))
    BY <1>1, <1>2, <1>3, OneSuits
  <1> QED BY <1>4, BothSuit DEF PackFrontControls

LEMMA BodyPositionSuits ==
    ASSUME NEW m, m.kind = "body_position"
    PROVE  Suits(m, PackBodyPosition)
  <1>1. /\ Fits(ConvBodyPosition("roll"), 12) /\ Fits(ConvBodyPosition("pitch"), 12)
        /\ Fits(ConvBodyPosition("yaw"), 13)
    BY PowerTable, WidePower DEF ConvBodyPosition, Fits, UpTo, Between, Plain, Scaled
  <1>2. \A f, len : Fits(ConvBodyPosition(f), len) => SuitsField(m, f, len)
    BY DeviceField, NoSwitches DEF Conv, DeviceConv
  <1>3. \A at, len : Intel(at, len).len = len
    BY DEF Intel
  <1>4. /\ Suits(m, Field("roll", Intel(0, 12))) /\ Suits(m, Field("pitch", Intel(12, 12)))
        /\ Suits(m, Field("yaw", Intel(24, 13)))
    BY <1>1, <1>2, <1>3, OneSuits
  <1> QED BY <1>4, BothSuit DEF PackBodyPosition

LEMMA BodyAccelSuits ==
    ASSUME NEW m, m.kind = "body_accel"
    PROVE  Suits(m, PackBodyAccel)
  <1>1. /\ Fits(ConvBodyAccel("x"), 16) /\ Fits(ConvBodyAccel("y"), 16)
        /\ Fits(ConvBodyAccel("z"), 16)
    BY PowerTable, WidePower DEF ConvBodyAccel, Fits, UpTo, Between, Plain, Scaled
  <1>2. \A f, len : Fits(ConvBodyAccel(f), len) => SuitsField(m, f, len)
    BY DeviceField, NoSwitches DEF Conv, DeviceConv
  <1>3. \A at, len : Intel(at, len).len = len
    BY DEF Intel
  <1>4. /\ Suits(m, Field("x", Intel(0, 16))) /\ Suits(m, Field("y", Intel(16, 16)))
        /\ Suits(m, Field("z", Intel(32, 16)))
    BY <1>1, <1>2, <1>3, OneSuits
  <1> QED BY <1>4, BothSuit DEF PackBodyAccel

LEMMA Wb2Suits ==
    ASSUME NEW m, m.kind = "ignitech_wb_2"
    PROVE  Suits(m, PackWb2)
  <1>1. Fits(ConvWb2("lambda"), 16)
    BY PowerTable, WidePower DEF ConvWb2, Fits, UpTo, Between, Plain, Scaled
  <1>2. \A f, len : Fits(ConvWb2(f), len) => SuitsField(m, f, len)
    BY DeviceField, NoSwitches DEF Conv, DeviceConv
  <1>3. \A at, len : Intel(at, len).len = len
    BY DEF Intel
  <1>4. Suits(m, Field("lambda", Intel(0, 16)))
    BY <1>1, <1>2, <1>3, OneSuits
  <1> QED BY <1>4, BothSuit DEF PackWb2

LEMMA RequestSuits ==
    ASSUME NEW m, m.kind = "request"
    PROVE  Suits(m, PackRequest)
  <1>1. Fits(ConvRequest("pid"), 8)
    BY PowerTable DEF ConvRequest, Fits, Plain, Scaled
  <1>2. Conv(m, "pid") = ConvRequest("pid")
    BY DEF Conv, DeviceConv
  <1>3. SuitsField(m, "pid", 8)
    BY <1>1, <1>2, DeviceField, NoSwitches
  <1>4. SuitsField(m, "mode", 6)
    BY DEF SuitsField, Narrow
  <1>5. \A at, len : Intel(at, len).len = len
    BY DEF Intel
  <1>6. Suits(m, Field("mode", Intel(8, 6))) /\ Suits(m, Field("pid", Intel(16, 8)))
    BY <1>3, <1>4, <1>5, OneSuits
  <1> QED BY <1>6, BothSuit DEF PackRequest

\* The switches of an ISO-TP message.
LEMMA IsoTpSelectors ==
    ASSUME NEW m, m.kind = "iso_tp"
    PROVE  /\ DOMAIN Selectors(m) = {"type", "fc_st", "fc_st_us_mux"}
           /\ Selectors(m)["type"] = m.a /\ Selectors(m)["fc_st"] = m.b
           /\ Selectors(m)["fc_st_us_mux"] = m.c
  <1> DEFINE g == Field("type", m.a) ++ Field("fc_st", m.b) ++ Field("fc_st_us_mux", m.c)
  <1>1. Selectors(m) = g
    BY DEF Selectors
  <1>2. "type" # "fc_st" /\ "fc_st" # "fc_st_us_mux" /\ "type" # "fc_st_us_mux"
    OBVIOUS
  <1>3. DOMAIN g = {"type", "fc_st", "fc_st_us_mux"}
    <2> DEFINE x == "type"
               y == "fc_st"
               z == "fc_st_us_mux"
               u == m.a
               v == m.b
               w == m.c
    <2> HIDE DEF x, y, z, u, v, w
    <2>1. DOMAIN (Field(x, u) ++ Field(y, v)) = {x, y}
      BY ONLY TwoDomain, Zenon
    <2>2. DOMAIN (Field(x, u) ++ Field(y, v) ++ Field(z, w)) =
            DOMAIN (Field(x, u) ++ Field(y, v)) \cup DOMAIN Field(z, w)
      BY ONLY BothDomain, Zenon
    <2>3. DOMAIN Field(z, w) = {z}
      BY ONLY FieldIs, Zenon
    <2>4. DOMAIN (Field(x, u) ++ Field(y, v) ++ Field(z, w)) = {x, y, z}
      BY ONLY <2>1, <2>2, <2>3
    <2> QED BY <2>4 DEF x, y, z, u, v, w
  <1>4. g["type"] = m.a
    BY ThreeFirst
  <1>5. g["fc_st"] = m.b
    BY <1>2, ThreeSecond
  <1>6. g["fc_st_us_mux"] = m.c
    BY <1>2, ThreeThird
  <1> HIDE DEF g
  <1> QED BY <1>1, <1>3, <1>4, <1>5, <1>6

LEMMA IsoTpSuits ==
    ASSUME NEW m, m.kind = "iso_tp", m.a \in 0 .. 4, m.b \in {0, 1}, m.c \in 0 .. 7,
           NEW t, NEW st, NEW us
    PROVE  Suits(m, PackIsoTp(t, st, us))
  <1> DEFINE timed == CASE st = 0 -> Field("fc_st_ms", Intel(16, 7))
                        [] st = 1 -> Field("fc_st_us_mux", Intel(20, 3)) ++
                                     (IF us = 7 THEN Field("fc_st_us", Intel(16, 4)) ELSE <<>>)
                        [] OTHER  -> <<>>
             flow == Field("fc_flag", Intel(0, 4)) ++ Field("fc_block_size", Intel(8, 8))
                     ++ Field("fc_st", Intel(23, 1)) ++ timed
             rest == CASE t = 0 -> Field("sf_size", Intel(0, 4))
                       [] t = 1 -> Field("ff_size", Motorola(4, 12))
                       [] t = 2 -> Field("cf_index", Intel(0, 4))
                       [] t = 3 -> flow
                       [] OTHER -> <<>>
  <1>1. /\ Fits(ConvIsoTp("sf_size"), 4) /\ Fits(ConvIsoTp("ff_size"), 12)
        /\ Fits(ConvIsoTp("cf_index"), 4) /\ Fits(ConvIsoTp("fc_flag"), 4)
        /\ Fits(ConvIsoTp("fc_block_size"), 8) /\ Fits(ConvIsoTp("fc_st_ms"), 7)
        /\ Fits(ConvIsoTp("fc_st_us"), 4)
    <2>1. /\ ConvIsoTp("sf_size") = UpTo(7, Plain(8)) /\ ConvIsoTp("ff_size") = Between(8, 4095, Plain(16))
          /\ ConvIsoTp("cf_index") = UpTo(15, Plain(8)) /\ ConvIsoTp("fc_flag") = UpTo(2, Plain(8))
          /\ ConvIsoTp("fc_block_size") = Plain(8) /\ ConvIsoTp("fc_st_ms") = UpTo(127, Plain(8))
          /\ ConvIsoTp("fc_st_us") = Between(1, 9, Scaled(8, 100, 1, 0))
      BY DEF ConvIsoTp
    <2>2. /\ Fits(UpTo(7, Plain(8)), 4) /\ Fits(Between(8, 4095, Plain(16)), 12)
          /\ Fits(UpTo(15, Plain(8)), 4) /\ Fits(UpTo(2, Plain(8)), 4)
          /\ Fits(Plain(8), 8) /\ Fits(UpTo(127, Plain(8)), 7)
          /\ Fits(Between(1, 9, Scaled(8, 100, 1, 0)), 4)
      BY PowerTable DEF Fits, UpTo, Between, Plain, Scaled
    <2> QED BY <2>1, <2>2
  <1>2. \A f, len : f \notin DOMAIN Selectors(m) /\ Fits(ConvIsoTp(f), len) => SuitsField(m, f, len)
    BY DeviceField DEF Conv, DeviceConv
  <1>3. /\ DOMAIN Selectors(m) = {"type", "fc_st", "fc_st_us_mux"}
        /\ Selectors(m)["type"] = m.a /\ Selectors(m)["fc_st"] = m.b
        /\ Selectors(m)["fc_st_us_mux"] = m.c
    BY IsoTpSelectors
  <1>4. SuitsField(m, "type", 4) /\ SuitsField(m, "fc_st", 1) /\ SuitsField(m, "fc_st_us_mux", 3)
    BY <1>3, PowerTable DEF SuitsField, SuitsSwitch
  <1>5. \A at, len : Intel(at, len).len = len /\ Motorola(at, len).len = len
    BY DEF Intel, Motorola
  <1>6. /\ Suits(m, Field("sf_size", Intel(0, 4))) /\ Suits(m, Field("ff_size", Motorola(4, 12)))
        /\ Suits(m, Field("cf_index", Intel(0, 4))) /\ Suits(m, Field("fc_flag", Intel(0, 4)))
        /\ Suits(m, Field("fc_block_size", Intel(8, 8))) /\ Suits(m, Field("fc_st_ms", Intel(16, 7)))
        /\ Suits(m, Field("fc_st_us", Intel(16, 4)))
    BY <1>1, <1>2, <1>3, <1>5, OneSuits
  <1>7. /\ Suits(m, Field("type", Intel(4, 4))) /\ Suits(m, Field("fc_st", Intel(23, 1)))
        /\ Suits(m, Field("fc_st_us_mux", Intel(20, 3)))
    BY <1>4, <1>5, OneSuits
  <1>8. Suits(m, timed)
    BY <1>6, <1>7, BothSuit, NoneSuits
  <1>9. Suits(m, flow)
    <2> HIDE DEF timed
    <2> QED BY <1>6, <1>7, <1>8, BothSuit
  <1>10. Suits(m, rest)
    <2> HIDE DEF flow
    <2> QED BY <1>6, <1>9, NoneSuits
  <1>11. PackIsoTp(t, st, us) = Field("type", Intel(4, 4)) ++ rest
    BY DEF PackIsoTp
  <1> HIDE DEF rest
  <1> QED BY <1>7, <1>10, <1>11, BothSuit

\* Every message of the devices and of ISO-TP.
LEMMA DeviceSuits ==
    ASSUME NEW m, m.kind \in Devices
    PROVE  Suits(m, DevicePackLayout(m.kind))
  BY GpsTimeSuits, GpsLocSuits, GpsNavSuits, GpsStatSuits, FrontControlsSuits, BodyPositionSuits,
     BodyAccelSuits, Wb2Suits, RequestSuits DEF Devices, Kinds, DevicePackLayout
----------------------------------------------------------------------------
(* The same of OBD2: the units of its fields and the widths they are       *)
(* sent in.                                                                *)

LEMMA ByteUnits ==
    /\ Fits(Plain(8), 8) /\ Fits(Percent, 8) /\ Fits(Engine, 8) /\ Fits(Trim, 8) /\ Fits(Celsius, 8)
    /\ Fits(SensorV, 8) /\ Fits(Torque, 8) /\ Fits(Scaled(8, 3, 1, 0), 8)
    /\ Fits(Scaled(8, 1, 2, -64), 8) /\ Fits(Scaled(8, 10, 1, 0), 8)
  BY PowerTable DEF Percent, Engine, Trim, Celsius, SensorV, Torque, Fits, UpTo, Between, Plain, Scaled

LEMMA WordUnits ==
    /\ Fits(Plain(16), 16) /\ Fits(Catalyst, 16) /\ Fits(Ratio, 16) /\ Fits(Volt, 16)
    /\ Fits(UpTo(16384, Volt), 16) /\ Fits(Current, 16) /\ Fits(Scaled(16, 1, 4, 0), 16)
    /\ Fits(Signed(Scaled(16, 1, 4, 0)), 16) /\ Fits(Scaled(16, 1, 100, 0), 16)
    /\ Fits(Scaled(16, 79, 1000, 0), 16) /\ Fits(Scaled(16, 10, 1, 0), 16)
    /\ Fits(Scaled(16, 1, 1000, 0), 16) /\ Fits(Scaled(16, 20, 51, 0), 16)
    /\ Fits(Scaled(16, 1, 200, 0), 16) /\ Fits(Scaled(16, 1, 1, -32767), 16)
    /\ Fits(Scaled(16, 1, 128, -210), 16) /\ Fits(Scaled(16, 1, 20, 0), 16)
  BY PowerTable DEF Catalyst, Ratio, Volt, Current, Fits, UpTo, Between, Signed, Plain, Scaled

LEMMA LongUnits == Fits(Plain(32), 32) /\ Fits(Scaled(32, 1, 10, 0), 32)
  BY PowerTable, WidePower DEF Fits, Plain, Scaled

\* The width of the first field of a PID that has data.
HasData == (0 .. 18) \cup (20 .. 28) \cup (31 .. 112) \cup {128, 142, 160, 166, 192}
Width(p) ==
    IF p \in {0, 1, 32, 64, 65, 96, 128, 160, 166, 192} THEN 32
    ELSE IF p \in {2, 3, 12, 16, 31, 49, 50, 77, 78, 83, 84, 89, 93, 94, 99}
                  \cup (33 .. 43) \cup (52 .. 63) \cup (66 .. 68) THEN 16
    ELSE 8

LEMMA ShapeWidths ==
    ASSUME NEW p \in 0 .. 255, PackShape(p).count > 0
    PROVE  p \in HasData /\ PackShape(p).width = Width(p)
  <1>1. CASE p \in 0 .. 31
    <2>1. PackShape(p) = Pack00to1F(p)
      BY <1>1 DEF PackShape
    <2> QED BY <1>1, <2>1 DEF Pack00to1F, Shape, NoData, HasData, Width
  <1>2. CASE p \in 32 .. 51
    <2>1. PackShape(p) = Pack20to33(p)
      BY <1>2 DEF PackShape
    <2> QED BY <1>2, <2>1 DEF Pack20to33, Shape, NoData, HasData, Width
  <1>3. CASE p \in 52 .. 69
    <2>1. PackShape(p) = Pack34to45(p)
      BY <1>3 DEF PackShape
    <2> QED BY <1>3, <2>1 DEF Pack34to45, Shape, NoData, HasData, Width
  <1>4. CASE p \in 70 .. 95
    <2>1. PackShape(p) = Pack46to5F(p)
      BY <1>4 DEF PackShape
    <2> QED BY <1>4, <2>1 DEF Pack46to5F, Shape, NoData, HasData, Width
  <1>5. CASE p \in 96 .. 159
    <2>1. PackShape(p) = Pack60to8E(p)
      BY <1>5 DEF PackShape
    <2> QED BY <1>5, <2>1 DEF Pack60to8E, Shape, NoData, HasData, Width
  <1>6. CASE p \in 160 .. 255
    <2>1. PackShape(p) = PackA0toC0(p)
      BY <1>6, SMTT(60) DEF PackShape
    <2> QED BY <1>6, <2>1 DEF PackA0toC0, Shape, NoData, HasData, Width
  <1> QED BY <1>1, <1>2, <1>3, <1>4, <1>5, <1>6

LEMMA Fit00to08 ==
    ASSUME NEW p \in 0 .. 8
    PROVE  Fits(Conv00to08(p), Width(p))
  <1>1. /\ p \in {0, 1} => Conv00to08(p) = Plain(32) /\ Width(p) = 32
        /\ p \in {2, 3} => Conv00to08(p) = Plain(16) /\ Width(p) = 16
        /\ p = 4        => Conv00to08(p) = Engine /\ Width(p) = 8
        /\ p = 5        => Conv00to08(p) = Celsius /\ Width(p) = 8
        /\ p \in 6 .. 8 => Conv00to08(p) = Trim /\ Width(p) = 8
    BY DEF Conv00to08, Width
  <1> QED BY <1>1, ByteUnits, WordUnits, LongUnits

LEMMA Fit09to11 ==
    ASSUME NEW p \in 9 .. 17
    PROVE  Fits(Conv09to11(p), Width(p))
  <1>1. /\ p = 9          => Conv09to11(p) = Trim /\ Width(p) = 8
        /\ p = 10         => Conv09to11(p) = Scaled(8, 3, 1, 0) /\ Width(p) = 8
        /\ p \in {11, 13} => Conv09to11(p) = Plain(8) /\ Width(p) = 8
        /\ p = 12         => Conv09to11(p) = Scaled(16, 1, 4, 0) /\ Width(p) = 16
        /\ p = 14         => Conv09to11(p) = Scaled(8, 1, 2, -64) /\ Width(p) = 8
        /\ p = 15         => Conv09to11(p) = Celsius /\ Width(p) = 8
        /\ p = 16         => Conv09to11(p) = Scaled(16, 1, 100, 0) /\ Width(p) = 16
        /\ p = 17         => Conv09to11(p) = Engine /\ Width(p) = 8
    BY DEF Conv09to11, Width
  <1> QED BY <1>1, ByteUnits, WordUnits

LEMMA Fit12to1A ==
    ASSUME NEW p \in 18 .. 26
    PROVE  Fits(Conv12to1A(p), Width(p))
  <1>1. /\ p = 18 => Conv12to1A(p) = Plain(8) /\ Width(p) = 8
        /\ p # 18 => Conv12to1A(p) = SensorV /\ Width(p) = 8
    BY DEF Conv12to1A, Width
  <1> QED BY <1>1, ByteUnits

LEMMA Fit1Bto24 ==
    ASSUME NEW p \in {27, 28} \cup 31 .. 36
    PROVE  Fits(Conv1Bto24(p), Width(p))
  <1>1. /\ p = 27         => Conv1Bto24(p) = SensorV /\ Width(p) = 8
        /\ p = 28         => Conv1Bto24(p) = Plain(8) /\ Width(p) = 8
        /\ p \in {31, 33} => Conv1Bto24(p) = Plain(16) /\ Width(p) = 16
        /\ p = 32         => Conv1Bto24(p) = Plain(32) /\ Width(p) = 32
        /\ p = 34         => Conv1Bto24(p) = Scaled(16, 79, 1000, 0) /\ Width(p) = 16
        /\ p = 35         => Conv1Bto24(p) = Scaled(16, 10, 1, 0) /\ Width(p) = 16
        /\ p = 36         => Conv1Bto24(p) = Ratio /\ Width(p) = 16
    BY DEF Conv1Bto24, Width
  <1> QED BY <1>1, ByteUnits, WordUnits, LongUnits

LEMMA Fit25to2C ==
    ASSUME NEW p \in 37 .. 44
    PROVE  Fits(Conv25to2C(p), Width(p))
  <1>1. /\ p = 44 => Conv25to2C(p) = Percent /\ Width(p) = 8
        /\ p # 44 => Conv25to2C(p) = Ratio /\ Width(p) = 16
    BY DEF Conv25to2C, Width
  <1> QED BY <1>1, ByteUnits, WordUnits

LEMMA Fit2Dto34 ==
    ASSUME NEW p \in 45 .. 52
    PROVE  Fits(Conv2Dto34(p), Width(p))
  <1>1. /\ p = 45         => Conv2Dto34(p) = Trim /\ Width(p) = 8
        /\ p \in {46, 47} => Conv2Dto34(p) = Percent /\ Width(p) = 8
        /\ p \in {48, 51} => Conv2Dto34(p) = Plain(8) /\ Width(p) = 8
        /\ p = 49         => Conv2Dto34(p) = Plain(16) /\ Width(p) = 16
        /\ p = 50         => Conv2Dto34(p) = Signed(Scaled(16, 1, 4, 0)) /\ Width(p) = 16
        /\ p = 52         => Conv2Dto34(p) = Ratio /\ Width(p) = 16
    BY DEF Conv2Dto34, Width
  <1> QED BY <1>1, ByteUnits, WordUnits

LEMMA Fit35to3C ==
    ASSUME NEW p \in 53 .. 60
    PROVE  Fits(Conv35to3C(p), Width(p))
  <1>1. /\ p = 60 => Conv35to3C(p) = Catalyst /\ Width(p) = 16
        /\ p # 60 => Conv35to3C(p) = Ratio /\ Width(p) = 16
    BY DEF Conv35to3C, Width
  <1> QED BY <1>1, WordUnits

LEMMA Fit3Dto44 ==
    ASSUME NEW p \in 61 .. 68
    PROVE  Fits(Conv3Dto44(p), Width(p))
  <1>1. /\ p \in 61 .. 63 => Conv3Dto44(p) = Catalyst /\ Width(p) = 16
        /\ p \in {64, 65} => Conv3Dto44(p) = Plain(32) /\ Width(p) = 32
        /\ p = 66         => Conv3Dto44(p) = Scaled(16, 1, 1000, 0) /\ Width(p) = 16
        /\ p = 67         => Conv3Dto44(p) = Scaled(16, 20, 51, 0) /\ Width(p) = 16
        /\ p = 68         => Conv3Dto44(p) = Ratio /\ Width(p) = 16
    BY DEF Conv3Dto44, Width
  <1> QED BY <1>1, WordUnits, LongUnits

LEMMA Fit45to4C ==
    ASSUME NEW p \in 69 .. 76
    PROVE  Fits(Conv45to4C(p), Width(p))
  <1>1. /\ p = 70 => Conv45to4C(p) = Celsius /\ Width(p) = 8
        /\ p # 70 => Conv45to4C(p) = Percent /\ Width(p) = 8
    BY DEF Conv45to4C, Width
  <1> QED BY <1>1, ByteUnits

LEMMA Fit4Dto54 ==
    ASSUME NEW p \in 77 .. 84
    PROVE  Fits(Conv4Dto54(p), Width(p))
  <1>1. /\ p \in {77, 78} => Conv4Dto54(p) = Plain(16) /\ Width(p) = 16
        /\ p \in {79, 81} => Conv4Dto54(p) = Plain(8) /\ Width(p) = 8
        /\ p = 80         => Conv4Dto54(p) = Scaled(8, 10, 1, 0) /\ Width(p) = 8
        /\ p = 82         => Conv4Dto54(p) = Percent /\ Width(p) = 8
        /\ p = 83         => Conv4Dto54(p) = Scaled(16, 1, 200, 0) /\ Width(p) = 16
        /\ p = 84         => Conv4Dto54(p) = Scaled(16, 1, 1, -32767) /\ Width(p) = 16
    BY DEF Conv4Dto54, Width
  <1> QED BY <1>1, ByteUnits, WordUnits

LEMMA Fit55to5C ==
    ASSUME NEW p \in 85 .. 92
    PROVE  Fits(Conv55to5C(p), Width(p))
  <1>1. /\ p \in 85 .. 88 => Conv55to5C(p) = Trim /\ Width(p) = 8
        /\ p = 89         => Conv55to5C(p) = Scaled(16, 10, 1, 0) /\ Width(p) = 16
        /\ p \in {90, 91} => Conv55to5C(p) = Percent /\ Width(p) = 8
        /\ p = 92         => Conv55to5C(p) = Celsius /\ Width(p) = 8
    BY DEF Conv55to5C, Width
  <1> QED BY <1>1, ByteUnits, WordUnits

LEMMA Fit5Dto64 ==
    ASSUME NEW p \in 93 .. 100
    PROVE  Fits(Conv5Dto64(p), Width(p))
  <1>1. /\ p = 93              => Conv5Dto64(p) = Scaled(16, 1, 128, -210) /\ Width(p) = 16
        /\ p = 94              => Conv5Dto64(p) = Scaled(16, 1, 20, 0) /\ Width(p) = 16
        /\ p = 95              => Conv5Dto64(p) = Plain(8) /\ Width(p) = 8
        /\ p = 96              => Conv5Dto64(p) = Plain(32) /\ Width(p) = 32
        /\ p \in {97, 98, 100} => Conv5Dto64(p) = Torque /\ Width(p) = 8
        /\ p = 99              => Conv5Dto64(p) = Plain(16) /\ Width(p) = 16
    BY DEF Conv5Dto64, Width
  <1> QED BY <1>1, ByteUnits, WordUnits, LongUnits

LEMMA Fit6DtoA6 ==
    ASSUME NEW p \in (109 .. 112) \cup {128, 142, 160, 166}
    PROVE  Fits(Conv6DtoA6(p), Width(p))
  <1>1. /\ p \in 109 .. 112 => Conv6DtoA6(p) = Plain(8) /\ Width(p) = 8
        /\ p \in {128, 160} => Conv6DtoA6(p) = Plain(32) /\ Width(p) = 32
        /\ p = 142          => Conv6DtoA6(p) = Torque /\ Width(p) = 8
        /\ p = 166          => Conv6DtoA6(p) = Scaled(32, 1, 10, 0) /\ Width(p) = 32
    BY DEF Conv6DtoA6, Width
  <1> QED BY <1>1, ByteUnits, LongUnits

LEMMA FirstFits ==
    ASSUME NEW p \in HasData
    PROVE  Fits(ConvFirst(p), Width(p))
  <1>1. CASE p \in 0 .. 44
    <2>1. /\ p \in 0 .. 8   => ConvFirst(p) = Conv00to08(p)
          /\ p \in 9 .. 17  => ConvFirst(p) = Conv09to11(p)
          /\ p \in 18 .. 26 => ConvFirst(p) = Conv12to1A(p)
          /\ p \in 27 .. 36 => ConvFirst(p) = Conv1Bto24(p)
          /\ p \in 37 .. 44 => ConvFirst(p) = Conv25to2C(p)
      BY <1>1 DEF ConvFirst
    <2>2. p \in 27 .. 36 => p \in {27, 28} \cup 31 .. 36
      BY DEF HasData
    <2> QED BY <1>1, <2>1, <2>2, Fit00to08, Fit09to11, Fit12to1A, Fit1Bto24, Fit25to2C
  <1>2. CASE p \in 45 .. 84
    <2>1. /\ p \in 45 .. 52 => ConvFirst(p) = Conv2Dto34(p)
          /\ p \in 53 .. 60 => ConvFirst(p) = Conv35to3C(p)
          /\ p \in 61 .. 68 => ConvFirst(p) = Conv3Dto44(p)
          /\ p \in 69 .. 76 => ConvFirst(p) = Conv45to4C(p)
          /\ p \in 77 .. 84 => ConvFirst(p) = Conv4Dto54(p)
      BY <1>2 DEF ConvFirst
    <2> QED BY <1>2, <2>1, Fit2Dto34, Fit35to3C, Fit3Dto44, Fit45to4C, Fit4Dto54
  <1>3. CASE p \in 85 .. 255
    <2>1. /\ p \in 85 .. 92   => ConvFirst(p) = Conv55to5C(p)
          /\ p \in 93 .. 100  => ConvFirst(p) = Conv5Dto64(p)
          /\ p \in 101 .. 108 => ConvFirst(p) = Conv65to6C(p)
          /\ p \in 109 .. 166 => ConvFirst(p) = Conv6DtoA6(p)
          /\ p = 192          => ConvFirst(p) = ConvC0andSecond(p)
      <3>1. p \in 85 .. 92 => ConvFirst(p) = Conv55to5C(p)
        BY SMTT(60) DEF ConvFirst
      <3>2. p \in 93 .. 100 => ConvFirst(p) = Conv5Dto64(p)
        BY SMTT(60) DEF ConvFirst
      <3>3. p \in 101 .. 108 => ConvFirst(p) = Conv65to6C(p)
        BY SMTT(60) DEF ConvFirst
      <3>4. p \in 109 .. 166 => ConvFirst(p) = Conv6DtoA6(p)
        BY SMTT(60) DEF ConvFirst
      <3>5. p = 192 => ConvFirst(p) = ConvC0andSecond(p)
        BY SMTT(60) DEF ConvFirst
      <3> QED BY <3>1, <3>2, <3>3, <3>4, <3>5
    <2>2. p \in 109 .. 166 => p \in (109 .. 112) \cup {128, 142, 160, 166}
      BY DEF HasData
    <2>3. p \in 101 .. 108 => Conv65to6C(p) = Plain(8) /\ Width(p) = 8
      BY DEF Conv65to6C, Width
    <2>4. p = 192 => ConvC0andSecond(p) = Plain(32) /\ Width(p) = 32
      BY DEF ConvC0andSecond, Width
    <2>5. p \in (85 .. 92) \cup (93 .. 100) \cup (101 .. 108) \cup (109 .. 166) \cup {192}
      BY <1>3 DEF HasData
    <2> QED BY <2>1, <2>2, <2>3, <2>4, <2>5, Fit55to5C, Fit5Dto64, Fit6DtoA6, ByteUnits, LongUnits
  <1> QED BY <1>1, <1>2, <1>3 DEF HasData

\* The second to fifth fields: their PIDs and widths.
HasSecond == (20 .. 27) \cup (36 .. 43) \cup (52 .. 59) \cup {79} \cup (85 .. 88) \cup {100}

LEMMA MoreShapes ==
    ASSUME NEW p \in 0 .. 255, PackShape(p).count > 1
    PROVE  /\ p \in HasSecond
           /\ PackShape(p).count > 2 => p \in {79, 100}
           /\ p = 79 => PackShape(p).count = 4
           /\ p = 100 => PackShape(p).count = 5
  <1>1. CASE p \in 0 .. 31
    <2>1. PackShape(p) = Pack00to1F(p)
      BY <1>1 DEF PackShape
    <2> QED BY <1>1, <2>1 DEF Pack00to1F, Shape, NoData, HasSecond
  <1>2. CASE p \in 32 .. 51
    <2>1. PackShape(p) = Pack20to33(p)
      BY <1>2 DEF PackShape
    <2> QED BY <1>2, <2>1 DEF Pack20to33, Shape, NoData, HasSecond
  <1>3. CASE p \in 52 .. 69
    <2>1. PackShape(p) = Pack34to45(p)
      BY <1>3 DEF PackShape
    <2> QED BY <1>3, <2>1 DEF Pack34to45, Shape, NoData, HasSecond
  <1>4. CASE p \in 70 .. 95
    <2>1. PackShape(p) = Pack46to5F(p)
      BY <1>4 DEF PackShape
    <2> QED BY <1>4, <2>1 DEF Pack46to5F, Shape, NoData, HasSecond
  <1>5. CASE p \in 96 .. 159
    <2>1. PackShape(p) = Pack60to8E(p)
      BY <1>5 DEF PackShape
    <2> QED BY <1>5, <2>1 DEF Pack60to8E, Shape, NoData, HasSecond
  <1>6. CASE p \in 160 .. 255
    <2>1. PackShape(p) = PackA0toC0(p)
      BY <1>6, SMTT(60) DEF PackShape
    <2> QED BY <1>6, <2>1 DEF PackA0toC0, Shape, NoData, HasSecond
  <1> QED BY <1>1, <1>2, <1>3, <1>4, <1>5, <1>6

LEMMA SecondFits ==
    ASSUME NEW p \in HasSecond
    PROVE  Fits(ConvSecond(p), Width(p))
  <1>1. /\ p \in 20 .. 25 => ConvSecond(p) = ConvC0andSecond(p)
        /\ p \in {26, 27, 36, 79, 100} \cup 85 .. 88 => ConvSecond(p) = ConvSecond1Ato24(p)
        /\ p \in (37 .. 43) \cup {52} => ConvSecond(p) = ConvSecond25to34(p)
        /\ p \in 53 .. 59 => ConvSecond(p) = ConvSecond35andThird(p)
    BY DEF ConvSecond
  <1>2. p \in 20 .. 25 => ConvC0andSecond(p) = Trim /\ Width(p) = 8
    BY DEF ConvC0andSecond, Width
  <1>3. /\ p \in {26, 27} \cup 85 .. 88 => ConvSecond1Ato24(p) = Trim /\ Width(p) = 8
        /\ p = 79 => ConvSecond1Ato24(p) = Plain(8) /\ Width(p) = 8
        /\ p = 100 => ConvSecond1Ato24(p) = Torque /\ Width(p) = 8
        /\ p = 36 => ConvSecond1Ato24(p) = UpTo(16384, Volt) /\ Width(p) = 16
    BY DEF ConvSecond1Ato24, Width
  <1>4. /\ p \in 37 .. 43 => ConvSecond25to34(p) = Volt /\ Width(p) = 16
        /\ p = 52 => ConvSecond25to34(p) = Current /\ Width(p) = 16
    BY DEF ConvSecond25to34, Width
  <1>5. p \in 53 .. 59 => ConvSecond35andThird(p) = Current /\ Width(p) = 16
    BY DEF ConvSecond35andThird, Width
  <1> QED BY <1>1, <1>2, <1>3, <1>4, <1>5, ByteUnits, WordUnits DEF HasSecond

\* What obd2.h documents is of the same width.
LEMMA DocWidths ==
    ASSUME NEW p \in HasData
    PROVE  Obd2Doc(S1(p, 1)).bits = Width(p)
  <1>0. S1(p, 1)[1] = "s1" /\ S1(p, 1)[2] = p /\ S1(p, 1)[3] = 1
    BY DEF S1
  <1>1. /\ p \in 0 .. 21   => Obd2Doc(S1(p, 1)) = Doc00to15(p)
        /\ p \in 22 .. 44  => Obd2Doc(S1(p, 1)) = Doc16to2C(p)
        /\ p \in 45 .. 65  => Obd2Doc(S1(p, 1)) = Doc2Dto41(p)
        /\ p \in 66 .. 86  => Obd2Doc(S1(p, 1)) = Doc42to56(p)
        /\ p \in 87 .. 107 => Obd2Doc(S1(p, 1)) = Doc57to6B(p)
        /\ p \in 108 .. 255 => Obd2Doc(S1(p, 1)) = Doc6CtoC0andSecond(p)
    <2>1. Obd2Doc(S1(p, 1)) = CASE p \in 0 .. 21   -> Doc00to15(p)
                                [] p \in 22 .. 44  -> Doc16to2C(p)
                                [] p \in 45 .. 65  -> Doc2Dto41(p)
                                [] p \in 66 .. 86  -> Doc42to56(p)
                                [] p \in 87 .. 107 -> Doc57to6B(p)
                                [] OTHER           -> Doc6CtoC0andSecond(p)
      BY <1>0, SMTT(60) DEF Obd2Doc
    <2> QED BY <2>1, SMTT(60)
  <1> USE DEF HasData, Width, Full, Doc
  <1>2. p \in 0 .. 21 => Doc00to15(p).bits = Width(p)
    BY DEF Doc00to15, UpTo254
  <1>3. p \in 22 .. 44 => Doc16to2C(p).bits = Width(p)
    BY DEF Doc16to2C, Past16
  <1>4. p \in 45 .. 65 => Doc2Dto41(p).bits = Width(p)
    BY DEF Doc2Dto41, Past16
  <1>5. p \in 66 .. 86 => Doc42to56(p).bits = Width(p)
    BY DEF Doc42to56, Past16
  <1>6. p \in 87 .. 107 => Doc57to6B(p).bits = Width(p)
    BY DEF Doc57to6B
  <1>7. p \in 108 .. 255 => Doc6CtoC0andSecond(p).bits = Width(p)
    BY DEF Doc6CtoC0andSecond
  <1>8. p \in (0 .. 21) \cup (22 .. 44) \cup (45 .. 65) \cup (66 .. 86) \cup (87 .. 107) \cup (108 .. 255)
    OBVIOUS
  <1> HIDE DEF HasData, Width, Full, Doc
  <1> QED BY <1>1, <1>2, <1>3, <1>4, <1>5, <1>6, <1>7, <1>8

LEMMA DocSecondWidths ==
    ASSUME NEW p \in HasSecond
    PROVE  Obd2Doc(S1(p, 2)).bits = Width(p)
  <1>0. S1(p, 2)[1] = "s1" /\ S1(p, 2)[2] = p /\ S1(p, 2)[3] = 2
    BY DEF S1
  <1>1. /\ p \in (20 .. 27) \cup {79} => Obd2Doc(S1(p, 2)) = Doc6CtoC0andSecond(p)
        /\ p \notin (20 .. 27) \cup {79} => Obd2Doc(S1(p, 2)) = DocSecond24to64(p)
    BY <1>0 DEF Obd2Doc
  <1>2. p \in (20 .. 27) \cup {79} => Doc6CtoC0andSecond(p).bits = 8 /\ Width(p) = 8
    BY DEF Doc6CtoC0andSecond, Width, Full, Doc
  <1>3. /\ p = 36 => DocSecond24to64(p).bits = 16 /\ Width(p) = 16
        /\ p \in (37 .. 43) \cup 52 .. 59 => DocSecond24to64(p).bits = 16 /\ Width(p) = 16
        /\ p \in (85 .. 88) \cup {100} => DocSecond24to64(p).bits = 8 /\ Width(p) = 8
    BY DEF DocSecond24to64, Width, Full, Doc, Past16
  <1> QED BY <1>1, <1>2, <1>3 DEF HasSecond
----------------------------------------------------------------------------
(* Every OBD2 message suits its signals.                                   *)

\* The switches of a message of services 1 and 2: the service and its PID.
LEMMA TwoSelectors ==
    ASSUME NEW m, m.kind = "obd2", NEW s, NEW y, y # Name("service"),
           m.a = s,
           \/ s = 1 /\ y = Name("parameter_id_service01")
           \/ s = 2 /\ y = Name("parameter_id_service02")
    PROVE  /\ DOMAIN Selectors(m) = {Name("service"), y}
           /\ Selectors(m)[Name("service")] = s /\ Selectors(m)[y] = m.b
  <1>1. Selectors(m) = Field(Name("service"), s) ++ Field(y, m.b)
    <2>1. CASE s = 1
      BY <2>1 DEF Selectors
    <2>2. CASE s = 2
      BY <2>2 DEF Selectors
    <2> QED BY <2>1, <2>2
  <1>2. DOMAIN (Field(Name("service"), s) ++ Field(y, m.b)) = {Name("service"), y}
    <2> DEFINE x == Name("service")
               v == m.b
    <2> HIDE DEF x, v
    <2>1. DOMAIN (Field(x, s) ++ Field(y, v)) = {x, y}
      BY ONLY TwoDomain, Zenon
    <2> QED BY <2>1 DEF x, v
  <1>3. (Field(Name("service"), s) ++ Field(y, m.b))[Name("service")] = s
    BY TwoFirst
  <1>4. (Field(Name("service"), s) ++ Field(y, m.b))[y] = m.b
    BY TwoSecond
  <1> QED BY <1>1, <1>2, <1>3, <1>4, Zenon

\* The service alone, or none.
LEMMA FewSelectors ==
    ASSUME NEW m, m.kind = "obd2", m.a \notin {1, 2}
    PROVE  /\ m.a > 2 => /\ DOMAIN Selectors(m) = {Name("service")}
                         /\ Selectors(m)[Name("service")] = m.a
           /\ ~(m.a > 2) => DOMAIN Selectors(m) = {}
  <1>1. m.a > 2 => Selectors(m) = Field(Name("service"), m.a)
    BY DEF Selectors
  <1>2. ~(m.a > 2) => Selectors(m) = <<>>
    BY DEF Selectors
  <1>3. /\ DOMAIN Field(Name("service"), m.a) = {Name("service")}
        /\ Field(Name("service"), m.a)[Name("service")] = m.a
    BY FieldIs, Zenon
  <1>4. DOMAIN <<>> = {}
    OBVIOUS
  <1>5. m.a > 2 => /\ DOMAIN Selectors(m) = {Name("service")}
                   /\ Selectors(m)[Name("service")] = m.a
    BY <1>1, <1>3, Zenon
  <1>6. ~(m.a > 2) => DOMAIN Selectors(m) = {}
    BY <1>2, <1>4, Zenon
  <1> QED BY <1>5, <1>6, Zenon

LEMMA Obd2Selectors ==
    ASSUME NEW m, m.kind = "obd2"
    PROVE  DOMAIN Selectors(m) \subseteq {Name("service"), Name("parameter_id_service01"),
                                          Name("parameter_id_service02")}
  <1>1. /\ Name("parameter_id_service01") # Name("service")
        /\ Name("parameter_id_service02") # Name("service")
    BY DEF Name
  <1>2. CASE m.a = 1
    <2>1. DOMAIN Selectors(m) = {Name("service"), Name("parameter_id_service01")}
      BY <1>1, <1>2, TwoSelectors, Zenon
    <2> QED BY <2>1
  <1>3. CASE m.a = 2
    <2>1. DOMAIN Selectors(m) = {Name("service"), Name("parameter_id_service02")}
      BY <1>1, <1>3, TwoSelectors, Zenon
    <2> QED BY <2>1
  <1>4. CASE m.a \notin {1, 2}
    <2>1. DOMAIN Selectors(m) = {Name("service")} \/ DOMAIN Selectors(m) = {}
      BY <1>4, FewSelectors, Zenon
    <2> QED BY <2>1
  <1> QED BY <1>2, <1>3, <1>4

LEMMA Obd2SelectorsAre ==
    ASSUME NEW m, m.kind = "obd2", m.a \in {1, 2, 3, 10}
    PROVE  /\ Name("service") \in DOMAIN Selectors(m) /\ Selectors(m)[Name("service")] = m.a
           /\ m.a = 1 => /\ Name("parameter_id_service01") \in DOMAIN Selectors(m)
                         /\ Selectors(m)[Name("parameter_id_service01")] = m.b
           /\ m.a = 2 => /\ Name("parameter_id_service02") \in DOMAIN Selectors(m)
                         /\ Selectors(m)[Name("parameter_id_service02")] = m.b
  <1>1. /\ Name("parameter_id_service01") # Name("service")
        /\ Name("parameter_id_service02") # Name("service")
    BY DEF Name
  <1>2. CASE m.a = 1
    <2>1. /\ DOMAIN Selectors(m) = {Name("service"), Name("parameter_id_service01")}
          /\ Selectors(m)[Name("service")] = 1
          /\ Selectors(m)[Name("parameter_id_service01")] = m.b
      BY <1>1, <1>2, TwoSelectors, Zenon
    <2> QED BY <1>2, <2>1
  <1>3. CASE m.a = 2
    <2>1. /\ DOMAIN Selectors(m) = {Name("service"), Name("parameter_id_service02")}
          /\ Selectors(m)[Name("service")] = 2
          /\ Selectors(m)[Name("parameter_id_service02")] = m.b
      BY <1>1, <1>3, TwoSelectors, Zenon
    <2> QED BY <1>3, <2>1
  <1>4. CASE m.a \in {3, 10}
    <2>1. m.a > 2 /\ m.a \notin {1, 2}
      BY <1>4
    <2>2. DOMAIN Selectors(m) = {Name("service")} /\ Selectors(m)[Name("service")] = m.a
      BY <2>1, FewSelectors, Zenon
    <2> QED BY <2>1, <2>2
  <1> QED BY <1>2, <1>3, <1>4

\* An OBD2 field: its scale and limits, and the documented range.
LEMMA Obd2Field ==
    ASSUME NEW m, m.kind = "obd2", NEW f, f \notin DOMAIN Selectors(m), NEW len,
           Fits(Obd2Conv(f), len), Obd2Doc(f).bits = len
    PROVE  SuitsField(m, f, len)
  <1>1. Conv(m, f) = Obd2Conv(f) /\ Largest(m, f) = Obd2Doc(f).top \cap Ones(Obd2Doc(f).bits)
    BY DEF Conv, Largest
  <1> QED BY <1>1 DEF SuitsField

LEMMA RestFits ==
    ASSUME NEW p \in {79, 100}, NEW i \in 3 .. 5
    PROVE  Fits(Obd2Conv(S1(p, i)), 8) /\ Obd2Doc(S1(p, i)).bits = 8
  <1>0. S1(p, i)[1] = "s1" /\ S1(p, i)[2] = p /\ S1(p, i)[3] = i /\ S1(p, i) = <<"s1", p, i>>
    BY DEF S1
  <1>1. Obd2Doc(S1(p, i)).bits = 8
    <2>1. Obd2Doc(S1(p, i)) = DocRest(p)
      BY <1>0 DEF Obd2Doc
    <2> QED BY <2>1 DEF DocRest, Full, Doc
  <1>2. CASE p = 79 /\ i = 3
    <2>1. Obd2Conv(S1(p, i)) = ConvSecond35andThird(79)
      BY <1>0, <1>2 DEF Obd2Conv
    <2>2. ConvSecond35andThird(79) = Plain(8)
      BY DEF ConvSecond35andThird
    <2> QED BY <1>1, <2>1, <2>2, ByteUnits
  <1>3. CASE ~(p = 79 /\ i = 3)
    <2>1. Obd2Conv(S1(p, i)) = ConvRest(p)
      BY <1>0, <1>3 DEF Obd2Conv
    <2>2. ConvRest(p) \in {Scaled(8, 10, 1, 0), Torque}
      BY DEF ConvRest
    <2> QED BY <1>1, <2>1, <2>2, ByteUnits
  <1> QED BY <1>2, <1>3

LEMMA DataSuits ==
    ASSUME NEW m, m.kind = "obd2", NEW p \in 0 .. 255
    PROVE  Suits(m, Data("s1", p, PackShape(p)))
  <1> DEFINE c == PackShape(p).count
             w == PackShape(p).width
             d == Data("s1", p, PackShape(p))
  <1>1. DOMAIN d = {S1(p, i) : i \in 1 .. c} /\ \A i \in 1 .. c : d[S1(p, i)].len = w
    BY DEF Data, S1, Motorola
  <1>0. \A i : S1(p, i) \notin DOMAIN Selectors(m)
    <2>1. \A i, n : S1(p, i)[1] = "s1" /\ Name(n)[1] = n
      BY DEF S1, Name
    <2>2. DOMAIN Selectors(m) \subseteq {Name("service"), Name("parameter_id_service01"),
                                        Name("parameter_id_service02")}
      BY Obd2Selectors, Zenon
    <2> QED BY <2>1, <2>2
  <1>2. c \in 0 .. 5
    <2>1. PackShape(p) \in Shapes
      BY PackShapes
    <2> QED BY <2>1 DEF Shapes, Shape
  <1>3. ASSUME NEW i \in 1 .. c PROVE SuitsField(m, S1(p, i), w)
    <2>0. S1(p, i)[1] = "s1" /\ S1(p, i)[2] = p /\ S1(p, i)[3] = i
      BY DEF S1
    <2>1. p \in HasData /\ w = Width(p)
      <3>1. PackShape(p).count > 0
        BY <1>2
      <3> QED BY <3>1, ShapeWidths
    <2>2. CASE i = 1
      <3>1. Obd2Conv(S1(p, i)) = ConvFirst(p)
        BY <2>0, <2>2 DEF Obd2Conv
      <3> QED BY <2>1, <2>2, <3>1, FirstFits, DocWidths, <1>0, Obd2Field
    <2>3. CASE i = 2
      <3>1. Obd2Conv(S1(p, i)) = ConvSecond(p)
        BY <2>0, <2>3 DEF Obd2Conv
      <3>2. p \in HasSecond
        <4>1. PackShape(p).count > 1
          BY <1>2, <2>3
        <4> HIDE DEF c
        <4> QED BY <4>1, MoreShapes, Zenon
      <3> QED BY <2>1, <2>3, <3>1, <3>2, SecondFits, DocSecondWidths, <1>0, Obd2Field
    <2>4. CASE i >= 3
      <3>1. p \in {79, 100} /\ i \in 3 .. 5
        <4>1. PackShape(p).count > 2 /\ PackShape(p).count > 1
          BY <1>2, <2>4
        <4>2. p \in {79, 100} /\ (p = 79 => c = 4) /\ (p = 100 => c = 5)
          BY <4>1, MoreShapes
        <4> QED BY <1>2, <2>4, <4>2
      <3>2. w = 8
        BY <2>1, <3>1 DEF Width
      <3> QED BY <3>1, <3>2, RestFits, <1>0, Obd2Field
    <2> QED BY <1>2, <2>2, <2>3, <2>4
  <1> HIDE DEF d, c, w
  <1>4. Suits(m, d)
    BY <1>1, <1>3 DEF Suits
  <1> QED BY <1>4 DEF d

LEMMA Data02Suits ==
    ASSUME NEW m, m.kind = "obd2", NEW p
    PROVE  Suits(m, Data("s2", p, PackService02(p)))
  <1> DEFINE d == Data("s2", p, PackService02(p))
  <1> SUFFICES ASSUME NEW f \in DOMAIN d PROVE SuitsField(m, f, d[f].len)
    BY DEF Suits
  <1>1. f = <<"s2", p, 1>> /\ d[f].len = 16
    BY DEF Data, PackService02, Shape, NoData, Motorola
  <1>2. f[1] = "s2"
    BY <1>1
  <1>3. Obd2Conv(f) = Plain(16) /\ Obd2Doc(f).bits = 16
    BY <1>1, <1>2 DEF Obd2Conv, Obd2Doc, Full, Doc
  <1>4. f \notin DOMAIN Selectors(m)
    <2>1. \A n : Name(n)[1] = n
      BY DEF Name
    <2>2. DOMAIN Selectors(m) \subseteq {Name("service"), Name("parameter_id_service01"),
                                        Name("parameter_id_service02")}
      BY Obd2Selectors, Zenon
    <2> QED BY <1>2, <2>1, <2>2
  <1> QED BY <1>1, <1>3, <1>4, WordUnits, Obd2Field

LEMMA HeaderSuits ==
    ASSUME NEW m, m.kind = "obd2", m.a \in {1, 2, 3, 10}
    PROVE  Suits(m, PackHeader)
  <1>1. /\ Name("length") # Name("response") /\ Name("length") # Name("service")
        /\ Name("response") # Name("service")
    BY DEF Name
  <1>2. /\ DOMAIN PackHeader = {Name("length"), Name("response"), Name("service")}
        /\ PackHeader[Name("length")].len = 8 /\ PackHeader[Name("service")].len = 6
    BY <1>1 DEF PackHeader, Intel
  <1>3. SuitsField(m, Name("service"), 6)
    <2>1. Name("service") \in DOMAIN Selectors(m) /\ Selectors(m)[Name("service")] = m.a
      BY Obd2SelectorsAre
    <2> QED BY <2>1, PowerTable DEF SuitsField, SuitsSwitch
  <1>4. Name("response") \in Narrow(m)
    BY DEF Narrow
  <1>5. SuitsField(m, Name("length"), 8)
    <2>1. Name("length")[1] = "length" /\ Name("length") = <<"length", 0, 0>>
      BY DEF Name
    <2>2. Obd2Conv(Name("length")) = Plain(8)
      <3>1. Obd2Conv(Name("length")) = ConvHeader(Name("length"))
        BY <2>1 DEF Obd2Conv
      <3> QED BY <2>1, <3>1 DEF ConvHeader
    <2>3. Obd2Doc(Name("length")).bits = 8
      <3>1. Obd2Doc(Name("length")) = DocHeader(Name("length"))
        BY <2>1 DEF Obd2Doc
      <3> QED BY <2>1, <3>1 DEF DocHeader, Full, Doc
    <2>4. Name("length") \notin DOMAIN Selectors(m)
      <3>1. \A n : Name(n)[1] = n
        BY DEF Name
      <3>2. DOMAIN Selectors(m) \subseteq {Name("service"), Name("parameter_id_service01"),
                                          Name("parameter_id_service02")}
        BY Obd2Selectors, Zenon
      <3> QED BY <3>1, <3>2
    <2> QED BY <2>2, <2>3, <2>4, ByteUnits, Obd2Field
  <1> QED BY <1>2, <1>3, <1>4, <1>5 DEF Suits, SuitsField

\* Every OBD2 message.
LEMMA Obd2Suits ==
    ASSUME NEW m, m.kind = "obd2", m.a \in {1, 2, 3, 10}, m.b \in 0 .. 255
    PROVE  Suits(m, PackLayout(m.a, m.b))
  <1>1. Suits(m, PackHeader)
    BY HeaderSuits
  <1>2. Suits(m, Data("s1", m.b, PackShape(m.b))) /\ Suits(m, Data("s2", m.b, PackService02(m.b)))
    BY DataSuits, Data02Suits
  <1>3. m.a = 1 => Suits(m, Pid01)
    <2> SUFFICES ASSUME m.a = 1 PROVE Suits(m, Pid01)
      OBVIOUS
    <2>2. /\ Name("parameter_id_service01") \in DOMAIN Selectors(m)
          /\ Selectors(m)[Name("parameter_id_service01")] = m.b
      BY Obd2SelectorsAre
    <2>3. SuitsField(m, Name("parameter_id_service01"), 8)
      BY <2>2, PowerTable DEF SuitsField, SuitsSwitch
    <2> QED BY <2>3 DEF Pid01, Suits, Intel
  <1>4. m.a = 2 => Suits(m, Pid02)
    <2> SUFFICES ASSUME m.a = 2 PROVE Suits(m, Pid02)
      OBVIOUS
    <2>2. /\ Name("parameter_id_service02") \in DOMAIN Selectors(m)
          /\ Selectors(m)[Name("parameter_id_service02")] = m.b
      BY Obd2SelectorsAre
    <2>3. SuitsField(m, Name("parameter_id_service02"), 8)
      BY <2>2, PowerTable DEF SuitsField, SuitsSwitch
    <2> QED BY <2>3 DEF Pid02, Suits, Intel
  <1> QED BY <1>1, <1>2, <1>3, <1>4, BothSuit DEF PackLayout

LEMMA MessagesSuit ==
    ASSUME NEW m \in Messages
    PROVE  Suits(m, MessageLayout(m))
  <1>1. CASE m.kind = "obd2"
    <2>1. m.a \in {1, 2, 3, 10} /\ m.b \in 0 .. 255
      BY <1>1, CodecAssumption DEF Messages, Message, Kinds
    <2>2. MessageLayout(m) = PackLayout(m.a, m.b)
      BY <1>1 DEF MessageLayout
    <2> QED BY <1>1, <2>1, <2>2, Obd2Suits
  <1>2. CASE m.kind = "iso_tp"
    <2>1. m.a \in 0 .. 4 /\ m.b \in {0, 1} /\ m.c \in 0 .. 7
      BY <1>2 DEF Messages, Message, Kinds
    <2>2. MessageLayout(m) = PackIsoTp(m.a, m.b, m.c)
      BY <1>2 DEF MessageLayout
    <2> QED BY <1>2, <2>1, <2>2, IsoTpSuits
  <1>3. CASE m.kind \in Devices
    <2>1. MessageLayout(m) = DevicePackLayout(m.kind)
      BY <1>3 DEF MessageLayout, Devices, Kinds
    <2> QED BY <1>3, <2>1, DeviceSuits
  <1> QED BY <1>1, <1>2, <1>3, KindOfMessage DEF Devices
----------------------------------------------------------------------------
(* Every message: its signals lie apart, and its switches lie in fixed     *)
(* places.                                                                 *)

\* Every message's signals lie apart.
LEMMA MessagesApart ==
    ASSUME NEW m \in Messages
    PROVE  /\ Apart(MessageLayout(m))
           /\ \A f \in DOMAIN MessageLayout(m) : IsSignal(MessageLayout(m)[f])
  <1>1. CASE m.kind = "obd2"
    <2>1. MessageLayout(m) = PackLayout(m.a, m.b)
      BY <1>1 DEF MessageLayout
    <2> QED BY <2>1, Obd2Inside DEF Inside
  <1>2. CASE m.kind = "iso_tp"
    <2>1. MessageLayout(m) = PackIsoTp(m.a, m.b, m.c)
      BY <1>2 DEF MessageLayout
    <2> QED BY <2>1, IsoTpInside DEF Inside
  <1>3. CASE m.kind \in Devices
    <2>1. MessageLayout(m) = DevicePackLayout(m.kind)
      BY <1>3 DEF MessageLayout, Devices, Kinds
    <2> QED BY <1>3, <2>1, DeviceInside DEF Inside
  <1> QED BY <1>1, <1>2, <1>3, KindOfMessage DEF Devices

\* Where ISO-TP's switches lie, and which of them count.
LEMMA IsoTpSwitches ==
    /\ \A t, st, us : /\ "type" \in DOMAIN PackIsoTp(t, st, us)
                      /\ PackIsoTp(t, st, us)["type"] = Intel(4, 4)
    /\ \A st, us : /\ "fc_st" \in DOMAIN PackIsoTp(3, st, us)
                   /\ PackIsoTp(3, st, us)["fc_st"] = Intel(23, 1)
    /\ \A us : /\ "fc_st_us_mux" \in DOMAIN PackIsoTp(3, 1, us)
               /\ PackIsoTp(3, 1, us)["fc_st_us_mux"] = Intel(20, 3)
    /\ \A us : PackIsoTp(3, 0, us) = PackIsoTp(3, 0, 0)
    /\ \A t, st, us : t # 3 => PackIsoTp(t, st, us) = PackIsoTp(t, 0, 0)
  <1>0. ASSUME NEW rest
        PROVE  /\ "type" \in DOMAIN (Field("type", Intel(4, 4)) ++ rest)
               /\ (Field("type", Intel(4, 4)) ++ rest)["type"] = Intel(4, 4)
    <2>1. "type" \in DOMAIN Field("type", Intel(4, 4))
      BY FieldIs, Zenon
    <2>2. Field("type", Intel(4, 4))["type"] = Intel(4, 4)
      BY FieldIs, Zenon
    <2>3. "type" \in DOMAIN (Field("type", Intel(4, 4)) ++ rest)
      BY <2>1, InFirst, Zenon
    <2>4. (Field("type", Intel(4, 4)) ++ rest)["type"] = Field("type", Intel(4, 4))["type"]
      BY <2>1, FromFirst, Zenon
    <2> QED BY <2>2, <2>3, <2>4, Zenon
  <1>1. \A t, st, us : /\ "type" \in DOMAIN PackIsoTp(t, st, us)
                       /\ PackIsoTp(t, st, us)["type"] = Intel(4, 4)
    <2> TAKE t, st, us
    <2>1. \E rest : PackIsoTp(t, st, us) = Field("type", Intel(4, 4)) ++ rest
      BY DEF PackIsoTp
    <2>2. PICK rest : PackIsoTp(t, st, us) = Field("type", Intel(4, 4)) ++ rest
      BY <2>1
    <2>3. /\ "type" \in DOMAIN (Field("type", Intel(4, 4)) ++ rest)
          /\ (Field("type", Intel(4, 4)) ++ rest)["type"] = Intel(4, 4)
      BY <1>0
    <2> QED BY <2>2, <2>3, Zenon
  \* What follows the type keeps its place behind it.
  <1>t. ASSUME NEW flow, NEW f, f # "type", f \in DOMAIN flow
        PROVE  /\ f \in DOMAIN (Field("type", Intel(4, 4)) ++ flow)
               /\ (Field("type", Intel(4, 4)) ++ flow)[f] = flow[f]
    <2>1. DOMAIN Field("type", Intel(4, 4)) = {"type"}
      BY FieldIs, Zenon
    <2>2. f \notin {"type"}
      BY <1>t
    <2>3. f \notin DOMAIN Field("type", Intel(4, 4))
      BY <2>1, <2>2, Zenon
    <2>4. f \in DOMAIN (Field("type", Intel(4, 4)) ++ flow)
      BY <1>t, InSecond, Zenon
    <2>5. (Field("type", Intel(4, 4)) ++ flow)[f] = flow[f]
      BY <1>t, <2>3, FromSecond, Zenon
    <2> QED BY <2>4, <2>5, Zenon
  <1>2. ASSUME NEW st, NEW us
        PROVE  "fc_st" \in DOMAIN PackIsoTp(3, st, us) /\ PackIsoTp(3, st, us)["fc_st"] = Intel(23, 1)
    <2> DEFINE timed == CASE st = 0 -> Field("fc_st_ms", Intel(16, 7))
                          [] st = 1 -> Field("fc_st_us_mux", Intel(20, 3)) ++
                                       (IF us = 7 THEN Field("fc_st_us", Intel(16, 4)) ELSE <<>>)
                          [] OTHER  -> <<>>
               head == Field("fc_flag", Intel(0, 4)) ++ Field("fc_block_size", Intel(8, 8))
                       ++ Field("fc_st", Intel(23, 1))
    <2>1. PackIsoTp(3, st, us) = Field("type", Intel(4, 4)) ++ (head ++ timed)
      BY DEF PackIsoTp
    <2>2. DOMAIN head = {"fc_flag", "fc_block_size", "fc_st"}
      <3> DEFINE x == "fc_flag"
                 y == "fc_block_size"
                 z == "fc_st"
                 u == Intel(0, 4)
                 v == Intel(8, 8)
                 w == Intel(23, 1)
      <3> HIDE DEF x, y, z, u, v, w
      <3>1. DOMAIN (Field(x, u) ++ Field(y, v)) = {x, y}
        BY ONLY TwoDomain, Zenon
      <3>2. DOMAIN (Field(x, u) ++ Field(y, v) ++ Field(z, w)) =
              DOMAIN (Field(x, u) ++ Field(y, v)) \cup DOMAIN Field(z, w)
        BY ONLY BothDomain, Zenon
      <3>3. DOMAIN Field(z, w) = {z}
        BY ONLY FieldIs, Zenon
      <3>4. DOMAIN (Field(x, u) ++ Field(y, v) ++ Field(z, w)) = {x, y, z}
        BY ONLY <3>1, <3>2, <3>3
      <3> QED BY <3>4 DEF x, y, z, u, v, w
    <2>3. head["fc_st"] = Intel(23, 1)
      <3>1. "fc_flag" # "fc_st" /\ "fc_block_size" # "fc_st"
        OBVIOUS
      <3> QED BY <3>1, ThreeThird
    <2> HIDE DEF timed, head
    <2>4. "fc_st" \in DOMAIN head
      BY <2>2
    <2>5. "fc_st" \in DOMAIN (head ++ timed)
      BY <2>4, InFirst, Zenon
    <2>6. (head ++ timed)["fc_st"] = head["fc_st"]
      BY <2>4, FromFirst, Zenon
    <2>7. "fc_st" # "type"
      OBVIOUS
    <2>8. /\ "fc_st" \in DOMAIN (Field("type", Intel(4, 4)) ++ (head ++ timed))
          /\ (Field("type", Intel(4, 4)) ++ (head ++ timed))["fc_st"] = (head ++ timed)["fc_st"]
      BY <1>t, <2>5, <2>7, Zenon
    <2> QED BY <2>1, <2>3, <2>6, <2>8, Zenon
  <1>3. ASSUME NEW us
        PROVE  /\ "fc_st_us_mux" \in DOMAIN PackIsoTp(3, 1, us)
               /\ PackIsoTp(3, 1, us)["fc_st_us_mux"] = Intel(20, 3)
    <2> DEFINE last == IF us = 7 THEN Field("fc_st_us", Intel(16, 4)) ELSE <<>>
               head == Field("fc_flag", Intel(0, 4)) ++ Field("fc_block_size", Intel(8, 8))
                       ++ Field("fc_st", Intel(23, 1))
               mux == Field("fc_st_us_mux", Intel(20, 3))
    <2>1. PackIsoTp(3, 1, us) = Field("type", Intel(4, 4)) ++ (head ++ (mux ++ last))
      BY DEF PackIsoTp
    <2>2. DOMAIN head = {"fc_flag", "fc_block_size", "fc_st"}
      <3> DEFINE x == "fc_flag"
                 y == "fc_block_size"
                 z == "fc_st"
                 u == Intel(0, 4)
                 v == Intel(8, 8)
                 w == Intel(23, 1)
      <3> HIDE DEF x, y, z, u, v, w
      <3>1. DOMAIN (Field(x, u) ++ Field(y, v)) = {x, y}
        BY ONLY TwoDomain, Zenon
      <3>2. DOMAIN (Field(x, u) ++ Field(y, v) ++ Field(z, w)) =
              DOMAIN (Field(x, u) ++ Field(y, v)) \cup DOMAIN Field(z, w)
        BY ONLY BothDomain, Zenon
      <3>3. DOMAIN Field(z, w) = {z}
        BY ONLY FieldIs, Zenon
      <3>4. DOMAIN (Field(x, u) ++ Field(y, v) ++ Field(z, w)) = {x, y, z}
        BY ONLY <3>1, <3>2, <3>3
      <3> QED BY <3>4 DEF x, y, z, u, v, w
    <2>3. "fc_st_us_mux" \in DOMAIN mux
      BY FieldIs, Zenon
    <2>4. mux["fc_st_us_mux"] = Intel(20, 3)
      BY FieldIs, Zenon
    <2> HIDE DEF last, head, mux
    <2>5. "fc_st_us_mux" \notin DOMAIN head
      BY <2>2
    <2>6. "fc_st_us_mux" \in DOMAIN (mux ++ last)
      BY <2>3, InFirst, Zenon
    <2>7. (mux ++ last)["fc_st_us_mux"] = mux["fc_st_us_mux"]
      BY <2>3, FromFirst, Zenon
    <2>8. "fc_st_us_mux" \in DOMAIN (head ++ (mux ++ last))
      BY <2>6, InSecond, Zenon
    <2>9. (head ++ (mux ++ last))["fc_st_us_mux"] = (mux ++ last)["fc_st_us_mux"]
      BY <2>5, <2>6, FromSecond
    <2>10. "fc_st_us_mux" # "type"
      OBVIOUS
    <2>11. /\ "fc_st_us_mux" \in DOMAIN (Field("type", Intel(4, 4)) ++ (head ++ (mux ++ last)))
           /\ (Field("type", Intel(4, 4)) ++ (head ++ (mux ++ last)))["fc_st_us_mux"]
                = (head ++ (mux ++ last))["fc_st_us_mux"]
      BY <1>t, <2>8, <2>10, Zenon
    <2> QED BY <2>1, <2>4, <2>7, <2>9, <2>11, Zenon
  <1>4. \A us : PackIsoTp(3, 0, us) = PackIsoTp(3, 0, 0)
    BY DEF PackIsoTp
  <1>5. \A t, st, us : t # 3 => PackIsoTp(t, st, us) = PackIsoTp(t, 0, 0)
    BY DEF PackIsoTp
  <1> QED BY <1>1, <1>2, <1>3, <1>4, <1>5

\* Where the switches of an OBD2 message lie.
LEMMA Obd2Switches ==
    ASSUME NEW p
    PROVE  /\ \A s : /\ Name("service") \in DOMAIN PackLayout(s, p)
                     /\ PackLayout(s, p)[Name("service")] = UnpackHeader[Name("service")]
           /\ Name("parameter_id_service01") \in DOMAIN PackLayout(1, p)
           /\ PackLayout(1, p)[Name("parameter_id_service01")] = Pid01[Name("parameter_id_service01")]
           /\ Name("parameter_id_service02") \in DOMAIN PackLayout(2, p)
           /\ PackLayout(2, p)[Name("parameter_id_service02")] = Pid01[Name("parameter_id_service01")]
           /\ \A s, q : s \notin {1, 2} => PackLayout(s, q) = PackHeader
  <1>1. /\ Name("service") \in DOMAIN PackHeader
        /\ PackHeader[Name("service")] = UnpackHeader[Name("service")]
    BY DEF PackHeader, UnpackHeader
  <1>2. \A q : /\ PackLayout(1, q) = PackHeader ++ Pid01 ++ Data("s1", q, PackShape(q))
               /\ PackLayout(2, q) = PackHeader ++ Pid02 ++ Data("s2", q, PackService02(q))
    BY DEF PackLayout
  <1>3. \A s, q : s \notin {1, 2} => PackLayout(s, q) = PackHeader
    BY DEF PackLayout
  <1>4. /\ DOMAIN PackHeader = {Name("length"), Name("response"), Name("service")}
        /\ DOMAIN Pid01 = {Name("parameter_id_service01")}
        /\ DOMAIN Pid02 = {Name("parameter_id_service02")}
        /\ Pid02[Name("parameter_id_service02")] = Pid01[Name("parameter_id_service01")]
    BY DEF PackHeader, Pid01, Pid02
  <1>5. /\ Name("parameter_id_service01") \notin DOMAIN PackHeader
        /\ Name("parameter_id_service02") \notin DOMAIN PackHeader
    BY <1>4 DEF Name
  <1>6. \A s, q : /\ Name("service") \in DOMAIN PackLayout(s, q)
                  /\ PackLayout(s, q)[Name("service")] = UnpackHeader[Name("service")]
    <2> TAKE s, q
    <2>0. ASSUME NEW pid, NEW data
          PROVE  /\ Name("service") \in DOMAIN (PackHeader ++ pid ++ data)
                 /\ (PackHeader ++ pid ++ data)[Name("service")] = UnpackHeader[Name("service")]
      <3>1. Name("service") \in DOMAIN (PackHeader ++ pid)
        BY <1>1, InFirst, Zenon
      <3>2. (PackHeader ++ pid)[Name("service")] = PackHeader[Name("service")]
        BY <1>1, FromFirst, Zenon
      <3>3. Name("service") \in DOMAIN (PackHeader ++ pid ++ data)
        BY <3>1, InFirst, Zenon
      <3>4. (PackHeader ++ pid ++ data)[Name("service")] = (PackHeader ++ pid)[Name("service")]
        BY <3>1, FromFirst, Zenon
      <3> QED BY <1>1, <3>2, <3>3, <3>4, Zenon
    <2>1. CASE s = 1
      <3>1. PackLayout(s, q) = PackHeader ++ Pid01 ++ Data("s1", q, PackShape(q))
        BY <1>2, <2>1, Zenon
      <3> QED BY <2>0, <3>1, Zenon
    <2>2. CASE s = 2
      <3>1. PackLayout(s, q) = PackHeader ++ Pid02 ++ Data("s2", q, PackService02(q))
        BY <1>2, <2>2, Zenon
      <3> QED BY <2>0, <3>1, Zenon
    <2>3. CASE s \notin {1, 2}
      BY <1>1, <1>3, <2>3
    <2> QED BY <2>1, <2>2, <2>3
  <1>7. /\ Name("parameter_id_service01") \in DOMAIN PackLayout(1, p)
        /\ PackLayout(1, p)[Name("parameter_id_service01")] = Pid01[Name("parameter_id_service01")]
        /\ Name("parameter_id_service02") \in DOMAIN PackLayout(2, p)
        /\ PackLayout(2, p)[Name("parameter_id_service02")] = Pid02[Name("parameter_id_service02")]
    \* A field of the middle part that the first part does not have.
    <2>0. ASSUME NEW pid, NEW data, NEW f, f \in DOMAIN pid, f \notin DOMAIN PackHeader
          PROVE  /\ f \in DOMAIN (PackHeader ++ pid ++ data)
                 /\ (PackHeader ++ pid ++ data)[f] = pid[f]
      <3>1. f \in DOMAIN (PackHeader ++ pid)
        BY <2>0, InSecond, Zenon
      <3>2. (PackHeader ++ pid)[f] = pid[f]
        BY <2>0, FromSecond, Zenon
      <3>3. f \in DOMAIN (PackHeader ++ pid ++ data)
        BY <3>1, InFirst, Zenon
      <3>4. (PackHeader ++ pid ++ data)[f] = (PackHeader ++ pid)[f]
        BY <3>1, FromFirst, Zenon
      <3> QED BY <3>2, <3>3, <3>4, Zenon
    <2>1. /\ Name("parameter_id_service01") \in DOMAIN Pid01
          /\ Name("parameter_id_service02") \in DOMAIN Pid02
      BY <1>4
    <2>2. /\ Name("parameter_id_service01") \in DOMAIN PackLayout(1, p)
          /\ PackLayout(1, p)[Name("parameter_id_service01")] = Pid01[Name("parameter_id_service01")]
      BY <1>2, <1>5, <2>0, <2>1
    <2>3. /\ Name("parameter_id_service02") \in DOMAIN PackLayout(2, p)
          /\ PackLayout(2, p)[Name("parameter_id_service02")] = Pid02[Name("parameter_id_service02")]
      BY <1>2, <1>5, <2>0, <2>1
    <2> QED BY <2>2, <2>3
  <1> QED BY <1>3, <1>4, <1>6, <1>7
----------------------------------------------------------------------------
(* The arms that pack() and unpack() take are those of the message.        *)

\* The struct holds the fields of the message: its switches tell which message it
\* is, and what is not narrow has room in its signal.
Holds(m, s) ==
    /\ DOMAIN s = DOMAIN MessageLayout(m)
    /\ \A f \in DOMAIN s \cap DOMAIN Selectors(m) : s[f] = Bits(Selectors(m)[f], 8)
    /\ \A f \in DOMAIN s \ Narrow(m) : s[f] \subseteq Ones(MessageLayout(m)[f].len)

\* Its fields are within a step of the values encoded into them.
Near(m, s, values) ==
    \A f \in DOMAIN values \ Narrow(m) :
        /\ f \in DOMAIN s
        /\ Decode(Conv(m, f), s[f]) <= values[f]
        /\ values[f] - Decode(Conv(m, f), s[f]) <= 4 * Conv(m, f).num

CodecInv ==
    stage \in {"filled", "sent", "received"} =>
        /\ msg \in Messages /\ Holds(msg, src) /\ Near(msg, src, phys)
        /\ stage # "received" => DOMAIN dst = StructOf(msg)
        /\ stage = "sent" => frame = PackAll(MessageLayout(msg), src)
        /\ SentFieldsArrive

LEMMA MessageForm ==
    ASSUME NEW m \in Messages
    PROVE  /\ m.kind = "obd2" => m.a \in {1, 2, 3, 10} /\ m.b \in 0 .. 255
           /\ m.kind = "iso_tp" => m.a \in 0 .. 4 /\ m.b \in {0, 1} /\ m.c \in 0 .. 7
  BY CodecAssumption DEF Messages, Message, Kinds

\* What the switches of each kind are.
LEMMA SelectorsAre ==
    ASSUME NEW m \in Messages
    PROVE  /\ m.kind = "obd2" =>
                /\ Name("service") \in DOMAIN Selectors(m) /\ Selectors(m)[Name("service")] = m.a
                /\ m.a = 1 => /\ Name("parameter_id_service01") \in DOMAIN Selectors(m)
                              /\ Selectors(m)[Name("parameter_id_service01")] = m.b
                /\ m.a = 2 => /\ Name("parameter_id_service02") \in DOMAIN Selectors(m)
                              /\ Selectors(m)[Name("parameter_id_service02")] = m.b
           /\ m.kind = "iso_tp" =>
                /\ DOMAIN Selectors(m) = {"type", "fc_st", "fc_st_us_mux"}
                /\ Selectors(m)["type"] = m.a /\ Selectors(m)["fc_st"] = m.b
                /\ Selectors(m)["fc_st_us_mux"] = m.c
  <1>2. CASE m.kind = "obd2"
    BY <1>2, MessageForm, Obd2SelectorsAre
  <1>3. CASE m.kind = "iso_tp"
    BY <1>3, IsoTpSelectors
  <1>4. CASE m.kind \notin {"obd2", "iso_tp"}
    BY <1>4
  <1> QED BY <1>2, <1>3, <1>4

\* A switch, read from the struct, is the message's.
LEMMA SwitchRead ==
    ASSUME NEW m \in Messages, NEW s, Holds(m, s), NEW f \in DOMAIN s,
           f \in DOMAIN Selectors(m), Selectors(m)[f] \in 0 .. 255
    PROVE  Number(Plain(8), s[f]) = Selectors(m)[f]
  <1> DEFINE n == Selectors(m)[f]
             c == Plain(8)
  <1>1. s[f] = Bits(n, 8)
    BY DEF Holds
  <1>2. c.signed = FALSE /\ c.bits = 8
    BY DEF Plain, Scaled
  <1>3. n \in Nat /\ n < Two(8) /\ n < Two(31)
    <2>1. Two(30) <= Two(31) /\ Two(31) \in Nat
      BY PowersGrow
    <2> QED BY <2>1, PowerTable
  <1> HIDE DEF n, c
  <1>4. Number(c, Bits(n, c.bits)) = n
    BY <1>2, <1>3, NumberOfBits
  <1> QED BY <1>1, <1>2, <1>4 DEF n, c

\* pack() takes the arms of the message the struct holds.
LEMMA PackTakesArms ==
    ASSUME msg \in Messages, NEW s, Holds(msg, s)
    PROVE  PackLayoutOf(s) = MessageLayout(msg)
  <1> DEFINE n(f) == IF f \in DOMAIN s THEN Number(Plain(8), s[f]) ELSE 0
             L == MessageLayout(msg)
  <1>1. DOMAIN s = DOMAIN L
    BY DEF Holds
  <1>2. \A f \in DOMAIN s : f \in DOMAIN Selectors(msg) /\ Selectors(msg)[f] \in 0 .. 255
                            => n(f) = Selectors(msg)[f]
    BY SwitchRead
  <1>3. CASE msg.kind = "obd2"
    <2>1. L = PackLayout(msg.a, msg.b) /\ msg.a \in {1, 2, 3, 10} /\ msg.b \in 0 .. 255
      BY <1>3, MessageForm DEF MessageLayout
    <2>2. PackLayoutOf(s) = PackLayout(n(Name("service")),
                              n(IF n(Name("service")) = 1 THEN Name("parameter_id_service01")
                                ELSE Name("parameter_id_service02")))
      BY <1>3 DEF PackLayoutOf
    <2> HIDE DEF n, L
    <2>3. n(Name("service")) = msg.a
      BY <1>1, <1>2, <1>3, <2>1, SelectorsAre, Obd2Switches
    <2>4. CASE msg.a = 1
      <3>1. n(Name("parameter_id_service01")) = msg.b
        BY <1>1, <1>2, <1>3, <2>1, <2>4, SelectorsAre, Obd2Switches
      <3> QED BY <2>1, <2>2, <2>3, <2>4, <3>1 DEF L
    <2>5. CASE msg.a = 2
      <3>1. n(Name("parameter_id_service02")) = msg.b
        BY <1>1, <1>2, <1>3, <2>1, <2>5, SelectorsAre, Obd2Switches
      <3> QED BY <2>1, <2>2, <2>3, <2>5, <3>1 DEF L
    <2>6. CASE msg.a \notin {1, 2}
      BY <2>1, <2>2, <2>3, <2>6, Obd2Switches DEF L
    <2> QED BY <2>4, <2>5, <2>6
  <1>4. CASE msg.kind = "iso_tp"
    <2>1. /\ L = PackIsoTp(msg.a, msg.b, msg.c)
          /\ msg.a \in 0 .. 4 /\ msg.b \in {0, 1} /\ msg.c \in 0 .. 7
      BY <1>4, MessageForm DEF MessageLayout
    <2>2. PackLayoutOf(s) = PackIsoTp(n("type"), n("fc_st"), n("fc_st_us_mux"))
      BY <1>4 DEF PackLayoutOf
    <2> HIDE DEF n, L
    <2>3. /\ DOMAIN Selectors(msg) = {"type", "fc_st", "fc_st_us_mux"}
          /\ Selectors(msg)["type"] = msg.a /\ Selectors(msg)["fc_st"] = msg.b
          /\ Selectors(msg)["fc_st_us_mux"] = msg.c
      BY <1>4, SelectorsAre
    <2>4. n("type") = msg.a
      BY <1>1, <1>2, <2>1, <2>3, IsoTpSwitches
    <2>5. CASE msg.a # 3
      BY <2>1, <2>2, <2>4, <2>5, IsoTpSwitches DEF L
    <2>6. CASE msg.a = 3
      <3>1. n("fc_st") = msg.b
        BY <1>1, <1>2, <2>1, <2>3, <2>6, IsoTpSwitches
      <3>2. CASE msg.b = 0
        BY <2>1, <2>2, <2>4, <2>6, <3>1, <3>2, IsoTpSwitches DEF L
      <3>3. CASE msg.b = 1
        <4>1. n("fc_st_us_mux") = msg.c
          BY <1>1, <1>2, <2>1, <2>3, <2>6, <3>3, IsoTpSwitches
        <4> QED BY <2>1, <2>2, <2>4, <2>6, <3>1, <4>1 DEF L
      <3> QED BY <2>1, <3>2, <3>3
    <2> QED BY <2>5, <2>6
  <1>5. CASE msg.kind \notin {"obd2", "iso_tp"}
    BY <1>5 DEF PackLayoutOf, MessageLayout
  <1> QED BY <1>3, <1>4, <1>5

\* A field the struct holds comes back from the packed bytes, a switch among them.
LEMMA HeldArrives ==
    ASSUME NEW m \in Messages, NEW s, Holds(m, s), NEW f \in DOMAIN s \ Narrow(m)
    PROVE  Get(MessageLayout(m)[f], PackAll(MessageLayout(m), s)) = s[f]
  <1>1. f \in DOMAIN MessageLayout(m) /\ s[f] \subseteq Ones(MessageLayout(m)[f].len)
    BY DEF Holds
  <1>2. /\ Apart(MessageLayout(m))
        /\ \A g \in DOMAIN MessageLayout(m) : IsSignal(MessageLayout(m)[g])
    BY MessagesApart
  <1>3. Get(MessageLayout(m)[f], PackAll(MessageLayout(m), s)) = s[f] \cap Ones(MessageLayout(m)[f].len)
    BY <1>1, <1>2, RoundTrip
  <1> QED BY <1>1, <1>3

\* unpack() takes the same arms from the bytes.
LEMMA UnpackTakesArms ==
    ASSUME msg \in Messages, NEW s, Holds(msg, s),
           NEW bytes, bytes = PackAll(MessageLayout(msg), s)
    PROVE  UnpackLayoutOf(bytes) = MessageLayout(msg)
  <1> DEFINE n(g) == Number(Plain(8), Get(g, bytes))
             L == MessageLayout(msg)
  <1>1. DOMAIN s = DOMAIN L
    BY DEF Holds
  <1>2. \A f \in DOMAIN s \ Narrow(msg) :
           f \in DOMAIN Selectors(msg) /\ Selectors(msg)[f] \in 0 .. 255
              => n(L[f]) = Selectors(msg)[f]
    BY SwitchRead, HeldArrives
  <1>3. CASE msg.kind = "obd2"
    <2>1. L = PackLayout(msg.a, msg.b) /\ msg.a \in {1, 2, 3, 10} /\ msg.b \in 0 .. 255
      BY <1>3, MessageForm DEF MessageLayout
    <2>2. UnpackLayoutOf(bytes) = PackLayout(n(UnpackHeader[Name("service")]),
                                             n(Pid01[Name("parameter_id_service01")]))
      BY <1>3, SameLayouts DEF UnpackLayoutOf
    <2>0. Narrow(msg) = {Name("response")}
      BY <1>3 DEF Narrow
    <2>7. /\ Name("service") \notin Narrow(msg) /\ Name("parameter_id_service01") \notin Narrow(msg)
          /\ Name("parameter_id_service02") \notin Narrow(msg)
      BY <2>0 DEF Name
    <2> HIDE DEF n, L
    <2>3. n(UnpackHeader[Name("service")]) = msg.a
      BY <1>1, <1>2, <1>3, <2>1, <2>7, SelectorsAre, Obd2Switches
    <2>4. CASE msg.a = 1
      <3>1. n(Pid01[Name("parameter_id_service01")]) = msg.b
        BY <1>1, <1>2, <1>3, <2>1, <2>4, <2>7, SelectorsAre, Obd2Switches
      <3> QED BY <2>1, <2>2, <2>3, <2>4, <3>1 DEF L
    <2>5. CASE msg.a = 2
      <3>1. n(Pid01[Name("parameter_id_service01")]) = msg.b
        BY <1>1, <1>2, <1>3, <2>1, <2>5, <2>7, SelectorsAre, Obd2Switches
      <3> QED BY <2>1, <2>2, <2>3, <2>5, <3>1 DEF L
    <2>6. CASE msg.a \notin {1, 2}
      BY <2>1, <2>2, <2>3, <2>6, Obd2Switches DEF L
    <2> QED BY <2>4, <2>5, <2>6
  <1>4. CASE msg.kind = "iso_tp"
    <2>1. /\ L = PackIsoTp(msg.a, msg.b, msg.c)
          /\ msg.a \in 0 .. 4 /\ msg.b \in {0, 1} /\ msg.c \in 0 .. 7
      BY <1>4, MessageForm DEF MessageLayout
    <2>2. \A t, st, us : UnpackIsoTp(t, st, us) = PackIsoTp(t, st, us)
      BY DEF UnpackIsoTp, PackIsoTp
    <2>3. UnpackLayoutOf(bytes) = PackIsoTp(n(Intel(4, 4)), n(Intel(23, 1)), n(Intel(20, 3)))
      BY <1>4, <2>2, IsoTpSwitches DEF UnpackLayoutOf
    <2>0. Narrow(msg) = {}
      BY <1>4 DEF Narrow
    <2> HIDE DEF n, L
    <2>4. /\ DOMAIN Selectors(msg) = {"type", "fc_st", "fc_st_us_mux"}
          /\ Selectors(msg)["type"] = msg.a /\ Selectors(msg)["fc_st"] = msg.b
          /\ Selectors(msg)["fc_st_us_mux"] = msg.c
      BY <1>4, SelectorsAre
    <2>5. n(Intel(4, 4)) = msg.a
      BY <1>1, <1>2, <2>0, <2>1, <2>4, IsoTpSwitches
    <2>6. CASE msg.a # 3
      BY <2>1, <2>3, <2>5, <2>6, IsoTpSwitches DEF L
    <2>7. CASE msg.a = 3
      <3>1. n(Intel(23, 1)) = msg.b
        BY <1>1, <1>2, <2>0, <2>1, <2>4, <2>7, IsoTpSwitches
      <3>2. CASE msg.b = 0
        BY <2>1, <2>3, <2>5, <2>7, <3>1, <3>2, IsoTpSwitches DEF L
      <3>3. CASE msg.b = 1
        <4>1. n(Intel(20, 3)) = msg.c
          BY <1>1, <1>2, <2>0, <2>1, <2>4, <2>7, <3>3, IsoTpSwitches
        <4> QED BY <2>1, <2>3, <2>5, <2>7, <3>1, <4>1 DEF L
      <3> QED BY <2>1, <3>2, <3>3
    <2> QED BY <2>6, <2>7
  <1>5. CASE msg.kind \in Devices
    <2>1. UnpackLayoutOf(bytes) = DeviceUnpackLayout(msg.kind) /\ L = DevicePackLayout(msg.kind)
      BY <1>5 DEF UnpackLayoutOf, MessageLayout, Devices, Kinds
    <2> QED BY <1>5, <2>1, SameDeviceLayouts
  <1> QED BY <1>3, <1>4, <1>5, KindOfMessage DEF Devices
----------------------------------------------------------------------------
(* CodecInv holds, and with it every field and every reading arrives.      *)

\* What the struct is filled with suits its switches and its signals.
LEMMA FillHolds ==
    ASSUME NEW m \in Messages, NEW words, NEW values, Fill(m, words, values),
           \A f \in DOMAIN MessageLayout(m) \ (DOMAIN Selectors(m) \cup Narrow(m)) :
              words[f] \subseteq Ones(MessageLayout(m)[f].len)
    PROVE  /\ stage' = "filled" /\ msg' = m /\ phys' = values /\ DOMAIN dst' = StructOf(m)
           /\ Holds(m, src')
           /\ \A f \in DOMAIN MessageLayout(m) \ DOMAIN Selectors(m) : src'[f] = words[f]
  <1> DEFINE L == MessageLayout(m)
             T == Selectors(m)
  <1>1. /\ stage' = "filled" /\ msg' = m /\ phys' = values /\ DOMAIN dst' = StructOf(m)
        /\ src' = [f \in DOMAIN L |-> IF f \in DOMAIN T THEN Bits(T[f], 8) ELSE words[f]]
    BY DEF Fill
  <1>2. ASSUME NEW f \in DOMAIN L \cap DOMAIN T, f \notin Narrow(m)
        PROVE  Bits(T[f], 8) \subseteq Ones(L[f].len)
    <2>1. SuitsSwitch(m, f, L[f].len)
      BY <1>2, MessagesSuit DEF Suits, SuitsField
    <2>2. T[f] \in Nat /\ L[f].len \in 0 .. 31 /\ T[f] < Two(L[f].len)
      BY <2>1 DEF SuitsSwitch
    <2> HIDE DEF L, T
    <2>3. Bits(T[f], 8) \subseteq 0 .. L[f].len - 1
      BY <2>2, SmallBits
    <2> QED BY <2>3 DEF Ones
  <1>3. Holds(m, src')
    BY <1>1, <1>2 DEF Holds
  <1> QED BY <1>1, <1>3

\* The fields that carry a value suit it.
LEMMA ValueSuits ==
    ASSUME NEW m \in Messages,
           NEW f \in DOMAIN MessageLayout(m) \ (DOMAIN Selectors(m) \cup Narrow(m))
    PROVE  /\ Fits(Conv(m, f), MessageLayout(m)[f].len)
           /\ Largest(m, f) \subseteq Ones(MessageLayout(m)[f].len)
  BY MessagesSuit DEF Suits, SuitsField

LEMMA WordsFill ==
    ASSUME NEW m \in Messages, FillWords(m)
    PROVE  /\ stage' = "filled" /\ msg' = m /\ DOMAIN dst' = StructOf(m)
           /\ Holds(m, src') /\ Near(m, src', phys')
  <1> DEFINE L == MessageLayout(m)
  <1>1. PICK w \in {"zero", "one", "high", "all"} :
           Fill(m, [f \in DOMAIN L |-> Word(w, m, f)], <<>>)
    BY DEF FillWords
  <1>2. ASSUME NEW f \in DOMAIN L \ (DOMAIN Selectors(m) \cup Narrow(m))
        PROVE  Word(w, m, f) \subseteq Ones(L[f].len)
    <2>1. Largest(m, f) \subseteq Ones(L[f].len) /\ Fits(Conv(m, f), L[f].len)
      BY ValueSuits
    <2>2. {0} \subseteq Ones(L[f].len)
      BY <2>1 DEF Fits, Ones
    <2>3. Word(w, m, f) \in {{}, {0}} \/ Word(w, m, f) \subseteq Largest(m, f)
      BY DEF Word
    <2> QED BY <2>1, <2>2, <2>3
  <1>3. /\ stage' = "filled" /\ msg' = m /\ phys' = <<>> /\ DOMAIN dst' = StructOf(m)
        /\ Holds(m, src')
    BY <1>1, <1>2, FillHolds
  <1> QED BY <1>3 DEF Near

\* The least or the greatest of these words.
Chosen(c, E, lower) ==
    CHOOSE v \in E : \A u \in E :
        IF lower THEN Number(c, v) <= Number(c, u) ELSE Number(c, v) >= Number(c, u)

LEMMA ChosenWord ==
    ASSUME NEW c, NEW E, OneOrTwo(c, E), NEW lower
    PROVE  Chosen(c, E, lower) \in E
  <1>0. PICK a, b : E = {a, b} /\ Number(c, a) \in Int /\ Number(c, b) \in Int
    BY DEF OneOrTwo
  <1>1. \E v \in E : \A u \in E :
           IF lower THEN Number(c, v) <= Number(c, u) ELSE Number(c, v) >= Number(c, u)
    <2> DEFINE na == Number(c, a)
               nb == Number(c, b)
    <2>1. na \in Int /\ nb \in Int /\ a \in E /\ b \in E /\ \A u \in E : u = a \/ u = b
      BY <1>0
    <2>2. CASE na <= nb
      BY <2>1, <2>2
    <2>3. CASE nb <= na
      BY <2>1, <2>3
    <2>4. na <= nb \/ nb <= na
      <3> HIDE DEF na, nb
      <3> QED BY <2>1
    <2> QED BY <2>2, <2>3, <2>4
  <1> QED BY <1>1 DEF Chosen

\* So whichever of them the struct is filled with suits the signal.
LEMMA ProbeWord ==
    ASSUME NEW c, NEW len, Fits(c, len), NEW w \in {"zero", "one", "high", "all"},
           NEW quarter \in 0 .. 3, NEW lower
    PROVE  Carries(c, len, Physical(w, quarter, c),
                   Chosen(c, Encode(c, Physical(w, quarter, c)), lower))
  <1> DEFINE r == Physical(w, quarter, c)
             E == Encode(c, r)
  <1>1. OneOrTwo(c, E)
    BY ProbeEncoded
  <1>2. \A v \in E : Carries(c, len, r, v)
    BY ProbeEncoded
  <1> HIDE DEF E, r
  <1>3. Chosen(c, E, lower) \in E
    BY <1>1, ChosenWord
  <1>4. Carries(c, len, r, Chosen(c, E, lower))
    BY <1>2, <1>3
  <1> QED BY <1>4 DEF E, r

LEMMA EncodedFill ==
    ASSUME NEW m \in Messages, FillEncoded(m)
    PROVE  /\ stage' = "filled" /\ msg' = m /\ DOMAIN dst' = StructOf(m)
           /\ Holds(m, src') /\ Near(m, src', phys')
  <1> DEFINE L == MessageLayout(m)
             D == DOMAIN L \ DOMAIN Selectors(m)
             values(w, quarter) == [f \in D |-> Physical(w, quarter, Conv(m, f))]
             word(w, quarter, lower, f) ==
                Chosen(Conv(m, f), Encode(Conv(m, f), values(w, quarter)[f]), lower)
  <1>1. PICK w \in {"zero", "one", "high", "all"}, quarter \in 0 .. 3, lower \in BOOLEAN :
           Fill(m, [f \in DOMAIN values(w, quarter) |-> word(w, quarter, lower, f)],
                values(w, quarter))
    BY DEF FillEncoded, Chosen
  <1> DEFINE r == values(w, quarter)
             words == [f \in D |-> word(w, quarter, lower, f)]
  <1>2. Fill(m, words, r)
    BY <1>1
  <1>3. ASSUME NEW f \in D \ Narrow(m)
        PROVE  /\ words[f] \subseteq Ones(L[f].len)
               /\ Decode(Conv(m, f), words[f]) <= r[f]
               /\ r[f] - Decode(Conv(m, f), words[f]) <= 4 * Conv(m, f).num
    <2> DEFINE c == Conv(m, f)
               len == L[f].len
    <2>1. Fits(c, len)
      BY ValueSuits
    <2>2. r[f] = Physical(w, quarter, c)
      OBVIOUS
    <2>3. words[f] = Chosen(c, Encode(c, r[f]), lower)
      OBVIOUS
    <2> HIDE DEF c, len, r, words
    <2>4. Carries(c, len, Physical(w, quarter, c),
                  Chosen(c, Encode(c, Physical(w, quarter, c)), lower))
      BY <2>1, ProbeWord
    <2>5. Carries(c, len, r[f], words[f])
      BY <2>2, <2>3, <2>4, Zenon
    <2> QED BY <2>5 DEF Carries, c, len
  <1>4. DOMAIN r = D
    OBVIOUS
  <1> HIDE DEF words, r
  <1>5. /\ stage' = "filled" /\ msg' = m /\ phys' = r /\ DOMAIN dst' = StructOf(m)
        /\ Holds(m, src')
        /\ \A f \in D : src'[f] = words[f]
    BY <1>2, <1>3, FillHolds
  <1>6. \A f \in D : f \in DOMAIN src'
    BY <1>5 DEF Holds
  <1>7. Near(m, src', r)
    BY <1>3, <1>4, <1>5, <1>6 DEF Near
  <1> QED BY <1>5, <1>7

LEMMA InStruct ==
    ASSUME NEW m \in Messages
    PROVE  DOMAIN MessageLayout(m) \subseteq StructOf(m)
  BY DEF StructOf

LEMMA CodecInvInit == CodecInit => CodecInv
  BY DEF CodecInit, CodecInv

LEMMA CodecInvNext == CodecInv /\ [CodecNext]_codecVars => CodecInv'
  <1> SUFFICES ASSUME CodecInv, [CodecNext]_codecVars PROVE CodecInv'
    OBVIOUS
  <1>1. ASSUME NEW m \in Messages, FillWords(m) \/ FillEncoded(m) PROVE CodecInv'
    <2>1. /\ stage' = "filled" /\ msg' = m /\ DOMAIN dst' = StructOf(m)
          /\ Holds(m, src') /\ Near(m, src', phys')
      BY <1>1, WordsFill, EncodedFill
    <2> QED BY <2>1 DEF CodecInv, SentFieldsArrive
  <1>2. CASE Pack
    <2>1. stage = "filled" /\ UNCHANGED <<msg, src, phys, dst>>
      BY <1>2 DEF Pack
    <2>2. msg \in Messages /\ Holds(msg, src) /\ Near(msg, src, phys) /\ DOMAIN dst = StructOf(msg)
      BY <2>1 DEF CodecInv
    <2>3. \/ stage' = "refused"
          \/ stage' = "sent" /\ frame' = PackAll(PackLayoutOf(src), src)
      BY <1>2 DEF Pack
    <2>4. PackLayoutOf(src) = MessageLayout(msg)
      BY <2>2, PackTakesArms
    <2> QED BY <2>1, <2>2, <2>3, <2>4 DEF CodecInv, SentFieldsArrive
  <1>3. CASE Unpack
    <2>1. stage = "sent" /\ UNCHANGED <<msg, src, phys, frame>>
      BY <1>3 DEF Unpack
    <2>2. /\ msg \in Messages /\ Holds(msg, src) /\ Near(msg, src, phys)
          /\ DOMAIN dst = StructOf(msg) /\ frame = PackAll(MessageLayout(msg), src)
      BY <2>1 DEF CodecInv
    <2>3. \/ stage' = "refused"
          \/ stage' = "received" /\ dst' = UnpackAll(UnpackLayoutOf(frame), frame, dst)
      BY <1>3 DEF Unpack
    <2>4. UnpackLayoutOf(frame) = MessageLayout(msg)
      BY <2>2, UnpackTakesArms
    <2>5. ASSUME NEW f \in DOMAIN src \ Narrow(msg), stage' = "received" PROVE dst'[f] = src[f]
      <3>1. f \in DOMAIN MessageLayout(msg) /\ f \in DOMAIN dst
        BY <2>2, <2>5, InStruct DEF Holds
      <3>2. dst'[f] = Get(MessageLayout(msg)[f], frame)
        BY <2>3, <2>4, <2>5, <3>1 DEF UnpackAll
      <3>3. Get(MessageLayout(msg)[f], frame) = src[f]
        BY <2>2, HeldArrives
      <3> QED BY <3>2, <3>3
    <2> QED BY <2>1, <2>2, <2>3, <2>5 DEF CodecInv, SentFieldsArrive
  <1>4. CASE Leave
    BY <1>4 DEF Leave, CodecInv
  <1>5. CASE UNCHANGED codecVars
    BY <1>5 DEF codecVars, CodecInv, SentFieldsArrive
  <1> QED BY <1>1, <1>2, <1>3, <1>4, <1>5 DEF CodecNext

\* Every field of a received message has the value the sender gave it, whichever
\* of the message's fields share its bytes and whatever the receiver's struct
\* held, for any PIDs (SentFieldsArrive): the arms pack() and unpack() take are
\* the message's own.
THEOREM FieldsArrive == CodecSpec => []SentFieldsArrive
  <1>1. CodecInv => SentFieldsArrive
    BY DEF CodecInv, SentFieldsArrive
  <1> QED BY <1>1, CodecInvInit, CodecInvNext, PTL DEF CodecSpec

\* A physical value that is encoded, sent, received and decoded comes out at
\* most one step of its scale low and never high, whichever way the encoder's
\* floating point rounds (ReadingWithinOneStep).
THEOREM ReadingsArrive == CodecSpec => []ReadingWithinOneStep
  <1>1. CodecInv => ReadingWithinOneStep
    BY DEF CodecInv, SentFieldsArrive, ReadingWithinOneStep, Near
  <1> QED BY <1>1, CodecInvInit, CodecInvNext, PTL DEF CodecSpec
=============================================================================

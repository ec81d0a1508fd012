--------------------------- MODULE DeviceLayout ---------------------------
(***************************************************************************)
(* The other messages: GPS, front controls, IMU, lambda probe, OBD2        *)
(* request and ISO-TP.  As for OBD2, pack and unpack are two families.     *)
(***************************************************************************)
EXTENDS Conversions, Signals, TLC

Kinds == {"gps_time", "gps_loc", "gps_nav", "gps_stat", "front_controls",
          "body_position", "body_accel", "ignitech_wb_2", "request", "iso_tp"}

\* Bytes a buffer must have for either direction.
Size(kind) ==
    CASE kind = "front_controls" -> 4
      [] kind = "body_position"  -> 5
      [] kind = "body_accel"     -> 6
      [] OTHER                   -> 8
----------------------------------------------------------------------------
(* _pack                                                                   *)

PackGpsTime ==
    Field("day", Intel(0, 8)) ++ Field("month", Intel(8, 8)) ++ Field("year", Intel(16, 16))
    ++ Field("hour", Intel(32, 8)) ++ Field("minute", Intel(40, 8)) ++ Field("second", Intel(48, 8))
PackGpsLoc == Field("lat", Intel(0, 32)) ++ Field("long", Intel(32, 32))
PackGpsNav == Field("speed", Intel(0, 16)) ++ Field("heading", Intel(16, 16)) ++ Field("altitude", Intel(32, 16))
PackGpsStat ==
    Field("active", Intel(0, 6)) ++ Field("type", Intel(6, 4)) ++ Field("visible", Intel(10, 6))
    ++ Field("pdop", Intel(16, 16)) ++ Field("hdop", Intel(32, 16)) ++ Field("vdop", Intel(48, 16))
PackFrontControls ==
    Field("brake", Intel(2, 1)) ++ Field("horn", Intel(3, 1)) ++ Field("left", Intel(4, 1))
    ++ Field("right", Intel(5, 1)) ++ Field("high", Intel(6, 1)) ++ Field("kill", Intel(7, 1))
    ++ Field("clutch", Intel(10, 1)) ++ Field("kickstand", Intel(11, 1)) ++ Field("neutral", Intel(12, 1))
    ++ Field("voltage", Intel(16, 16))
PackBodyPosition == Field("roll", Intel(0, 12)) ++ Field("pitch", Intel(12, 12)) ++ Field("yaw", Intel(24, 13))
PackBodyAccel == Field("x", Intel(0, 16)) ++ Field("y", Intel(16, 16)) ++ Field("z", Intel(32, 16))
PackWb2 == Field("lambda", Intel(0, 16))
PackRequest == Field("mode", Intel(8, 6)) ++ Field("pid", Intel(16, 8))

\* The nested switches, on the type, the unit flag and the unit of a struct.
PackIsoTp(type, st, us) ==
    Field("type", Intel(4, 4)) ++
    CASE type = 0 -> Field("sf_size", Intel(0, 4))
      [] type = 1 -> Field("ff_size", Motorola(4, 12))
      [] type = 2 -> Field("cf_index", Intel(0, 4))
      [] type = 3 ->
            Field("fc_flag", Intel(0, 4)) ++ Field("fc_block_size", Intel(8, 8)) ++ Field("fc_st", Intel(23, 1)) ++
            (CASE st = 0 -> Field("fc_st_ms", Intel(16, 7))
               [] st = 1 -> Field("fc_st_us_mux", Intel(20, 3)) ++
                            (IF us = 7 THEN Field("fc_st_us", Intel(16, 4)) ELSE <<>>)
               [] OTHER  -> <<>>)
      [] OTHER    -> <<>>
----------------------------------------------------------------------------
(* _unpack                                                                 *)

UnpackGpsTime ==
    Field("day", Intel(0, 8)) ++ Field("month", Intel(8, 8)) ++ Field("year", Intel(16, 16))
    ++ Field("hour", Intel(32, 8)) ++ Field("minute", Intel(40, 8)) ++ Field("second", Intel(48, 8))
UnpackGpsLoc == Field("lat", Intel(0, 32)) ++ Field("long", Intel(32, 32))
UnpackGpsNav == Field("speed", Intel(0, 16)) ++ Field("heading", Intel(16, 16)) ++ Field("altitude", Intel(32, 16))
UnpackGpsStat ==
    Field("active", Intel(0, 6)) ++ Field("type", Intel(6, 4)) ++ Field("visible", Intel(10, 6))
    ++ Field("pdop", Intel(16, 16)) ++ Field("hdop", Intel(32, 16)) ++ Field("vdop", Intel(48, 16))
UnpackFrontControls ==
    Field("brake", Intel(2, 1)) ++ Field("horn", Intel(3, 1)) ++ Field("left", Intel(4, 1))
    ++ Field("right", Intel(5, 1)) ++ Field("high", Intel(6, 1)) ++ Field("kill", Intel(7, 1))
    ++ Field("clutch", Intel(10, 1)) ++ Field("kickstand", Intel(11, 1)) ++ Field("neutral", Intel(12, 1))
    ++ Field("voltage", Intel(16, 16))
UnpackBodyPosition == Field("roll", Intel(0, 12)) ++ Field("pitch", Intel(12, 12)) ++ Field("yaw", Intel(24, 13))
UnpackBodyAccel == Field("x", Intel(0, 16)) ++ Field("y", Intel(16, 16)) ++ Field("z", Intel(32, 16))
UnpackWb2 == Field("lambda", Intel(0, 16))
UnpackRequest == Field("mode", Intel(8, 6)) ++ Field("pid", Intel(16, 8))

\* The same switches, on what was just unpacked.
UnpackIsoTp(type, st, us) ==
    Field("type", Intel(4, 4)) ++
    CASE type = 0 -> Field("sf_size", Intel(0, 4))
      [] type = 1 -> Field("ff_size", Motorola(4, 12))
      [] type = 2 -> Field("cf_index", Intel(0, 4))
      [] type = 3 ->
            Field("fc_flag", Intel(0, 4)) ++ Field("fc_block_size", Intel(8, 8)) ++ Field("fc_st", Intel(23, 1)) ++
            (CASE st = 0 -> Field("fc_st_ms", Intel(16, 7))
               [] st = 1 -> Field("fc_st_us_mux", Intel(20, 3)) ++
                            (IF us = 7 THEN Field("fc_st_us", Intel(16, 4)) ELSE <<>>)
               [] OTHER  -> <<>>)
      [] OTHER    -> <<>>
----------------------------------------------------------------------------
(* Scale, offset and limits.                                               *)

ConvGpsTime(f) ==
    CASE f = "day"    -> Between(1, 31, Plain(8))
      [] f = "month"  -> Between(1, 12, Plain(8))
      [] f = "year"   -> Between(1, -1, Plain(16))
      [] f = "hour"   -> UpTo(23, Plain(8))
      [] OTHER        -> UpTo(59, Plain(8))
ConvGpsLoc(f) ==
    IF f = "lat" THEN UpTo(180000000, Scaled(32, 1, 1000000, -90))
                 ELSE UpTo(360000000, Scaled(32, 1, 1000000, -180))
ConvGpsNav(f) ==
    CASE f = "speed"   -> Scaled(16, 1, 10, 0)
      [] f = "heading" -> UpTo(35990, Scaled(16, 1, 10, 0))
      [] OTHER         -> Plain(16)
ConvGpsStat(f) ==
    CASE f \in {"active", "visible"} -> UpTo(63, Plain(8))
      [] f = "type"                  -> UpTo(15, Plain(8))
      [] OTHER                       -> Scaled(16, 1, 10, 0)
ConvFrontControls(f) ==
    IF f = "voltage" THEN UpTo(20000, Scaled(16, 1, 100, 0)) ELSE UpTo(1, Plain(8))
ConvBodyPosition(f) ==
    IF f = "yaw" THEN UpTo(7200, Scaled(16, 1, 10, -360)) ELSE UpTo(3600, Scaled(16, 1, 10, -180))
ConvBodyAccel(f) == UpTo(40000, Scaled(16, 1, 1000, -20))
ConvWb2(f)       == UpTo(10000, Scaled(16, 1, 100, 0))
ConvRequest(f)   == Plain(8)
ConvIsoTp(f) ==
    CASE f = "type"          -> UpTo(3, Plain(8))
      [] f = "sf_size"       -> UpTo(7, Plain(8))
      [] f = "ff_size"       -> Between(8, 4095, Plain(16))
      [] f = "cf_index"      -> UpTo(15, Plain(8))
      [] f = "fc_flag"       -> UpTo(2, Plain(8))
      [] f = "fc_block_size" -> Plain(8)
      [] f = "fc_st"         -> UpTo(1, Plain(8))
      [] f = "fc_st_ms"      -> UpTo(127, Plain(8))
      [] f = "fc_st_us_mux"  -> Between(7, 7, Plain(8))
      [] f = "fc_st_us"      -> Between(1, 9, Scaled(8, 100, 1, 0))
----------------------------------------------------------------------------
DeviceConv(kind, f) ==
    CASE kind = "gps_time"       -> ConvGpsTime(f)
      [] kind = "gps_loc"        -> ConvGpsLoc(f)
      [] kind = "gps_nav"        -> ConvGpsNav(f)
      [] kind = "gps_stat"       -> ConvGpsStat(f)
      [] kind = "front_controls" -> ConvFrontControls(f)
      [] kind = "body_position"  -> ConvBodyPosition(f)
      [] kind = "body_accel"     -> ConvBodyAccel(f)
      [] kind = "ignitech_wb_2"  -> ConvWb2(f)
      [] kind = "request"        -> ConvRequest(f)
      [] kind = "iso_tp"         -> ConvIsoTp(f)

DevicePackLayout(kind) ==
    CASE kind = "gps_time"       -> PackGpsTime
      [] kind = "gps_loc"        -> PackGpsLoc
      [] kind = "gps_nav"        -> PackGpsNav
      [] kind = "gps_stat"       -> PackGpsStat
      [] kind = "front_controls" -> PackFrontControls
      [] kind = "body_position"  -> PackBodyPosition
      [] kind = "body_accel"     -> PackBodyAccel
      [] kind = "ignitech_wb_2"  -> PackWb2
      [] kind = "request"        -> PackRequest

DeviceUnpackLayout(kind) ==
    CASE kind = "gps_time"       -> UnpackGpsTime
      [] kind = "gps_loc"        -> UnpackGpsLoc
      [] kind = "gps_nav"        -> UnpackGpsNav
      [] kind = "gps_stat"       -> UnpackGpsStat
      [] kind = "front_controls" -> UnpackFrontControls
      [] kind = "body_position"  -> UnpackBodyPosition
      [] kind = "body_accel"     -> UnpackBodyAccel
      [] kind = "ignitech_wb_2"  -> UnpackWb2
      [] kind = "request"        -> UnpackRequest
=============================================================================

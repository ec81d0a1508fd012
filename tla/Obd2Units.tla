----------------------------- MODULE Obd2Units -----------------------------
(***************************************************************************)
(* The scale, offset and limits of every field of the OBD2 message, and    *)
(* the range obd2.h documents for it.  The fields are grouped as their     *)
(* code lies in the file: first fields by PID, then the second to fifth    *)
(* ones of the PIDs that have several.  0.392156862745098 is 20 / 51 to    *)
(* the precision of a double.                                              *)
(***************************************************************************)
EXTENDS Conversions, Signals

Percent   == Scaled(8, 20, 51, 0)        \* value / 0.392156862745098
Engine    == UpTo(254, Scaled(8, 2451, 6250, 0))   \* value / 0.39216
Trim      == Scaled(8, 25, 32, -100)     \* (value - -100.0) / 0.78125
Celsius   == Scaled(8, 1, 1, -40)
Catalyst  == Scaled(16, 1, 10, -40)
Ratio     == Scaled(16, 1, 32768, 0)     \* value / 0.000030517578125
SensorV   == Scaled(8, 1, 200, 0)        \* value / 0.005
Volt      == Scaled(16, 1, 8192, 0)      \* value / 0.0001220703125
Current   == Scaled(16, 1, 256, -128)    \* (value - -128.0) / 0.00390625
Torque    == Scaled(8, 1, 1, -125)

\* The header: length, response, service and the two PID fields.
ConvHeader(f) ==
    IF f \in {<<"response", 0, 0>>, <<"service", 0, 0>>} THEN UpTo(15, Plain(8)) ELSE Plain(8)

Conv00to08(p) ==
    CASE p \in {0, 1} -> Plain(32)
      [] p \in {2, 3} -> Plain(16)
      [] p = 4        -> Engine
      [] p = 5        -> Celsius
      [] p \in 6..8   -> Trim
Conv09to11(p) ==
    CASE p = 9         -> Trim
      [] p = 10        -> Scaled(8, 3, 1, 0)
      [] p \in {11,13} -> Plain(8)
      [] p = 12        -> Scaled(16, 1, 4, 0)
      [] p = 14        -> Scaled(8, 1, 2, -64)
      [] p = 15        -> Celsius
      [] p = 16        -> Scaled(16, 1, 100, 0)
      [] p = 17        -> Engine
Conv12to1A(p) == IF p = 18 THEN Plain(8) ELSE SensorV
Conv1Bto24(p) ==
    CASE p = 27        -> SensorV
      [] p = 28        -> Plain(8)
      [] p \in {31,33} -> Plain(16)
      [] p = 32        -> Plain(32)
      [] p = 34        -> Scaled(16, 79, 1000, 0)
      [] p = 35        -> Scaled(16, 10, 1, 0)
      [] p = 36        -> Ratio
Conv25to2C(p) == IF p = 44 THEN Percent ELSE Ratio
Conv2Dto34(p) ==
    CASE p = 45        -> Trim
      [] p \in {46,47} -> Percent
      [] p \in {48,51} -> Plain(8)
      [] p = 49        -> Plain(16)
      [] p = 50        -> Signed(Scaled(16, 1, 4, 0))
      [] p = 52        -> Ratio
Conv35to3C(p) == IF p = 60 THEN Catalyst ELSE Ratio
Conv3Dto44(p) ==
    CASE p \in 61..63  -> Catalyst
      [] p \in {64,65} -> Plain(32)
      [] p = 66        -> Scaled(16, 1, 1000, 0)
      [] p = 67        -> Scaled(16, 20, 51, 0)
      [] p = 68        -> Ratio
Conv45to4C(p) == IF p = 70 THEN Celsius ELSE Percent
Conv4Dto54(p) ==
    CASE p \in {77,78} -> Plain(16)
      [] p \in {79,81} -> Plain(8)
      [] p = 80        -> Scaled(8, 10, 1, 0)
      [] p = 82        -> Percent
      [] p = 83        -> Scaled(16, 1, 200, 0)
      [] p = 84        -> Scaled(16, 1, 1, -32767)
Conv55to5C(p) ==
    CASE p \in 85..88  -> Trim
      [] p = 89        -> Scaled(16, 10, 1, 0)
      [] p \in {90,91} -> Percent
      [] p = 92        -> Celsius
Conv5Dto64(p) ==
    CASE p = 93              -> Scaled(16, 1, 128, -210)
      [] p = 94              -> Scaled(16, 1, 20, 0)
      [] p = 95              -> Plain(8)
      [] p = 96              -> Plain(32)
      [] p \in {97, 98, 100} -> Torque
      [] p = 99              -> Plain(16)
Conv65to6C(p) == Plain(8)
Conv6DtoA6(p) ==
    CASE p \in 109..112   -> Plain(8)
      [] p \in {128, 160} -> Plain(32)
      [] p = 142          -> Torque
      [] p = 166          -> Scaled(32, 1, 10, 0)
ConvC0andSecond(p) == IF p = 192 THEN Plain(32) ELSE Trim   \* second: PIDs 20 to 25
ConvSecond1Ato24(p) ==
    CASE p \in {26, 27} \cup (85..88) -> Trim
      [] p = 79                       -> Plain(8)
      [] p = 100                      -> Torque
      [] p = 36                       -> UpTo(16384, Volt)
ConvSecond25to34(p) == IF p = 52 THEN Current ELSE Volt
ConvSecond35andThird(p) == IF p = 79 THEN Plain(8) ELSE Current
ConvRest(p) == IF p = 79 THEN Scaled(8, 10, 1, 0) ELSE Torque

ConvFirst(p) ==
    CASE p \in 0..8     -> Conv00to08(p)
      [] p \in 9..17    -> Conv09to11(p)
      [] p \in 18..26   -> Conv12to1A(p)
      [] p \in 27..36   -> Conv1Bto24(p)
      [] p \in 37..44   -> Conv25to2C(p)
      [] p \in 45..52   -> Conv2Dto34(p)
      [] p \in 53..60   -> Conv35to3C(p)
      [] p \in 61..68   -> Conv3Dto44(p)
      [] p \in 69..76   -> Conv45to4C(p)
      [] p \in 77..84   -> Conv4Dto54(p)
      [] p \in 85..92   -> Conv55to5C(p)
      [] p \in 93..100  -> Conv5Dto64(p)
      [] p \in 101..108 -> Conv65to6C(p)
      [] p \in 109..166 -> Conv6DtoA6(p)
      [] OTHER          -> ConvC0andSecond(p)

ConvSecond(p) ==
    CASE p \in 0..25                   -> ConvC0andSecond(p)
      [] p \in {26,27,36} \cup 79..100 -> ConvSecond1Ato24(p)
      [] p \in 37..52                  -> ConvSecond25to34(p)
      [] OTHER                         -> ConvSecond35andThird(p)

Obd2Conv(f) ==
    CASE f[1] = "s1" /\ f[3] = 1                        -> ConvFirst(f[2])
      [] f[1] = "s1" /\ f[3] = 2                        -> ConvSecond(f[2])
      [] f = <<"s1", 79, 3>>                            -> ConvSecond35andThird(79)
      [] f[1] = "s1" /\ f[3] >= 3 /\ ~(f[2] = 79 /\ f[3] = 3) -> ConvRest(f[2])
      [] f[1] = "s2"                                    -> Plain(16)
      [] OTHER                                          -> ConvHeader(f)
----------------------------------------------------------------------------
(* The C type and the largest raw value obd2.h documents; some of the      *)
(* latter need a bit more than the type has.                               *)

Doc(bits, top) == [bits |-> bits, top |-> top]
Full(bits)     == Doc(bits, Ones(bits))
UpTo254        == Doc(8, 1..7)
Past16         == Doc(16, {16})

DocHeader(f) ==
    IF f \in {<<"response", 0, 0>>, <<"service", 0, 0>>} THEN Doc(8, 0..3) ELSE Full(8)

Doc00to15(p) ==
    CASE p \in {0, 1}         -> Full(32)
      [] p \in {2, 3, 12, 16} -> Full(16)
      [] p \in {4, 17}        -> UpTo254
      [] OTHER                -> Full(8)
Doc16to2C(p) ==
    CASE p \in (22..28) \cup {44} -> Full(8)
      [] p \in {31} \cup 33..35   -> Full(16)
      [] p = 32                   -> Full(32)
      [] p \in 36..43             -> Past16
Doc2Dto41(p) ==
    CASE p \in (45..48) \cup {51} -> Full(8)
      [] p \in {49} \cup 60..63   -> Full(16)
      [] p = 50                   -> Doc(16, 0..14)
      [] p \in 52..59             -> Past16
      [] p \in {64, 65}           -> Full(32)
Doc42to56(p) ==
    CASE p \in {66, 67, 77, 78, 83, 84} -> Full(16)
      [] p = 68                         -> Past16
      [] OTHER                          -> Full(8)
Doc57to6B(p) ==
    CASE p \in {89, 93, 94, 99} -> Full(16)
      [] p = 96                 -> Full(32)
      [] OTHER                  -> Full(8)
Doc6CtoC0andSecond(p) ==
    IF p \in {128, 160, 166, 192} THEN Full(32) ELSE Full(8)
DocSecond24to64(p) ==
    CASE p = 36                     -> Doc(16, {14})
      [] p \in (37..43) \cup 52..59 -> Past16
      [] p \in (85..88) \cup {100}  -> Full(8)
DocRest(p) == Full(8)

Obd2Doc(f) ==
    CASE f[1] = "s1" /\ f[3] = 1 ->
            (CASE f[2] \in 0..21   -> Doc00to15(f[2])
               [] f[2] \in 22..44  -> Doc16to2C(f[2])
               [] f[2] \in 45..65  -> Doc2Dto41(f[2])
               [] f[2] \in 66..86  -> Doc42to56(f[2])
               [] f[2] \in 87..107 -> Doc57to6B(f[2])
               [] OTHER            -> Doc6CtoC0andSecond(f[2]))
      [] f[1] = "s1" /\ f[3] = 2 ->
            IF f[2] \in (20..27) \cup {79} THEN Doc6CtoC0andSecond(f[2]) ELSE DocSecond24to64(f[2])
      [] f[1] = "s1" /\ f[3] >= 3 -> DocRest(f[2])
      [] f[1] = "s2"              -> Full(16)
      [] OTHER                    -> DocHeader(f)
=============================================================================

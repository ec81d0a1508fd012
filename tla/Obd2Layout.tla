---------------------------- MODULE Obd2Layout ----------------------------
(***************************************************************************)
(* The OBD2 message: which fields pack() writes and unpack() reads for     *)
(* every service and PID, how a physical value becomes a field and back,   *)
(* and what obd2.h documents.  pack and unpack are two functions in the    *)
(* code and two families of definitions here: that they agree is checked.  *)
(*                                                                         *)
(* The data of a PID starts at byte 3 and is one to five fields of one     *)
(* width, each big-endian, one behind the other.                           *)
(***************************************************************************)
EXTENDS Signals, TLC

\* Fields: those of the header, and the i-th of a PID's.
Name(n)  == <<n, 0, 0>>
S1(p, i) == <<"s1", p, i>>
S2(p, i) == <<"s2", p, i>>

Shape(count, width) == [count |-> count, width |-> width]
NoData == Shape(0, 0)

Data(service, p, shape) ==
    [f \in {<<service, p, i>> : i \in 1..shape.count} |->
        Motorola(3 * Byte + (f[3] - 1) * shape.width, shape.width)]

Pid01 == [f \in {Name("parameter_id_service01")} |-> Intel(2 * Byte, 8)]
Pid02 == [f \in {Name("parameter_id_service02")} |-> Intel(2 * Byte, 8)]
----------------------------------------------------------------------------
(* obd2_obd2_pack                                                          *)

PackHeader ==
    [f \in {Name("length"), Name("response"), Name("service")} |->
        CASE f = Name("length")   -> Intel(0, 8)
          [] f = Name("response") -> Intel(Byte + 6, 2)
          [] f = Name("service")  -> Intel(Byte, 6)]

Pack00to1F(p) ==
    CASE p \in {0, 1}                                   -> Shape(1, 32)
      [] p \in {2, 3, 12, 16, 31}                       -> Shape(1, 16)
      [] p \in (4..11) \cup (13..15) \cup {17, 18, 28}  -> Shape(1, 8)
      [] p \in 20..27                                   -> Shape(2, 8)
      [] OTHER                                          -> NoData

Pack20to33(p) ==
    CASE p = 32                          -> Shape(1, 32)
      [] p \in (33..35) \cup {49, 50}    -> Shape(1, 16)
      [] p \in 36..43                    -> Shape(2, 16)
      [] p \in (44..48) \cup {51}        -> Shape(1, 8)
      [] OTHER                           -> NoData

Pack34to45(p) ==
    CASE p \in 52..59                    -> Shape(2, 16)
      [] p \in (60..63) \cup (66..68)    -> Shape(1, 16)
      [] p \in {64, 65}                  -> Shape(1, 32)
      [] p = 69                          -> Shape(1, 8)
      [] OTHER                           -> NoData

Pack46to5F(p) ==
    CASE p \in (70..76) \cup (80..82) \cup (90..92) \cup {95} -> Shape(1, 8)
      [] p \in {77, 78, 83, 84, 89, 93, 94}                   -> Shape(1, 16)
      [] p = 79                                               -> Shape(4, 8)
      [] p \in 85..88                                         -> Shape(2, 8)
      [] OTHER                                                -> NoData

\* Mutant: a sixth torque point.
Pack60to8EOneMore(p) ==
    CASE p \in {96, 128}                             -> Shape(1, 32)
      [] p \in {97, 98} \cup (101..112) \cup {142}   -> Shape(1, 8)
      [] p = 99                                      -> Shape(1, 16)
      [] p = 100                                     -> Shape(6, 8)
      [] OTHER                                       -> NoData

Pack60to8E(p) ==
    CASE p \in {96, 128}                             -> Shape(1, 32)
      [] p \in {97, 98} \cup (101..112) \cup {142}   -> Shape(1, 8)
      [] p = 99                                      -> Shape(1, 16)
      [] p = 100                                     -> Shape(5, 8)
      [] OTHER                                       -> NoData

PackA0toC0(p) == IF p \in {160, 166, 192} THEN Shape(1, 32) ELSE NoData

PackShape(p) ==
    CASE p \in 0..31   -> Pack00to1F(p)
      [] p \in 32..51  -> Pack20to33(p)
      [] p \in 52..69  -> Pack34to45(p)
      [] p \in 70..95  -> Pack46to5F(p)
      [] p \in 96..159 -> Pack60to8E(p)
      [] OTHER         -> PackA0toC0(p)

PackService02(p) == IF p = 2 THEN Shape(1, 16) ELSE NoData

\* The arms of both switches: what pack() writes of a struct with this service
\* and this PID.  Without an arm for the service only the header is written.
PackLayout(service, p) ==
    CASE service = 1 -> PackHeader ++ Pid01 ++ Data("s1", p, PackShape(p))
      [] service = 2 -> PackHeader ++ Pid02 ++ Data("s2", p, PackService02(p))
      [] OTHER       -> PackHeader
----------------------------------------------------------------------------
(* obd2_obd2_unpack                                                        *)

UnpackHeader ==
    [f \in {Name("length"), Name("response"), Name("service")} |->
        CASE f = Name("length")   -> Intel(0, 8)
          [] f = Name("response") -> Intel(Byte + 6, 2)
          [] f = Name("service")  -> Intel(Byte, 6)]

Unpack00to1F(p) ==
    CASE p \in {0, 1}                                   -> Shape(1, 32)
      [] p \in {2, 3, 12, 16, 31}                       -> Shape(1, 16)
      [] p \in (4..11) \cup (13..15) \cup {17, 18, 28}  -> Shape(1, 8)
      [] p \in 20..27                                   -> Shape(2, 8)
      [] OTHER                                          -> NoData

\* Mutant: the second field of the oxygen sensors is read as a byte.
Unpack20to33Narrow(p) ==
    CASE p = 32                          -> Shape(1, 32)
      [] p \in (33..35) \cup {49, 50}    -> Shape(1, 16)
      [] p \in 36..43                    -> Shape(2, 8)
      [] p \in (44..48) \cup {51}        -> Shape(1, 8)
      [] OTHER                           -> NoData

Unpack20to33(p) ==
    CASE p = 32                          -> Shape(1, 32)
      [] p \in (33..35) \cup {49, 50}    -> Shape(1, 16)
      [] p \in 36..43                    -> Shape(2, 16)
      [] p \in (44..48) \cup {51}        -> Shape(1, 8)
      [] OTHER                           -> NoData

Unpack34to45(p) ==
    CASE p \in 52..59                    -> Shape(2, 16)
      [] p \in (60..63) \cup (66..68)    -> Shape(1, 16)
      [] p \in {64, 65}                  -> Shape(1, 32)
      [] p = 69                          -> Shape(1, 8)
      [] OTHER                           -> NoData

Unpack46to5F(p) ==
    CASE p \in (70..76) \cup (80..82) \cup (90..92) \cup {95} -> Shape(1, 8)
      [] p \in {77, 78, 83, 84, 89, 93, 94}                   -> Shape(1, 16)
      [] p = 79                                               -> Shape(4, 8)
      [] p \in 85..88                                         -> Shape(2, 8)
      [] OTHER                                                -> NoData

Unpack60to8E(p) ==
    CASE p \in {96, 128}                             -> Shape(1, 32)
      [] p \in {97, 98} \cup (101..112) \cup {142}   -> Shape(1, 8)
      [] p = 99                                      -> Shape(1, 16)
      [] p = 100                                     -> Shape(5, 8)
      [] OTHER                                       -> NoData

UnpackA0toC0(p) == IF p \in {160, 166, 192} THEN Shape(1, 32) ELSE NoData

UnpackShape(p) ==
    CASE p \in 0..31   -> Unpack00to1F(p)
      [] p \in 32..51  -> Unpack20to33(p)
      [] p \in 52..69  -> Unpack34to45(p)
      [] p \in 70..95  -> Unpack46to5F(p)
      [] p \in 96..159 -> Unpack60to8E(p)
      [] OTHER         -> UnpackA0toC0(p)

UnpackService02(p) == IF p = 2 THEN Shape(1, 16) ELSE NoData

\* The same switches, on the service and the PID just unpacked.
UnpackLayout(service, p) ==
    CASE service = 1 -> UnpackHeader ++ Pid01 ++ Data("s1", p, UnpackShape(p))
      [] service = 2 -> UnpackHeader ++ Pid02 ++ Data("s2", p, UnpackService02(p))
      [] OTHER       -> UnpackHeader
=============================================================================

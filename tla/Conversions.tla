---------------------------- MODULE Conversions ----------------------------
(***************************************************************************)
(* How the message code turns a physical value into a field (_encode),     *)
(* back (_decode), and tells which fields are sensible (_is_in_range).     *)
(* All three follow from the field's C type, scale, offset and limits.     *)
(*                                                                         *)
(* A physical value v is a number of quarter steps: the integer v stands   *)
(* for v / (4 * c.den).                                                    *)
(***************************************************************************)
EXTENDS Integers

\* raw * num / den + off, in an unsigned type of this many bits.
Scaled(bits, num, den, off) ==
    [bits |-> bits, signed |-> FALSE, num |-> num, den |-> den, off |-> off,
     first |-> 0, last |-> -1]
Plain(bits) == Scaled(bits, 1, 1, 0)

Between(first, last, c) == [c EXCEPT !.first = first, !.last = last]
UpTo(last, c)           == Between(0, last, c)
Signed(c)               == [c EXCEPT !.signed = TRUE]

\* _is_in_range; where the code ignores its argument, last is -1.
InRange(c, raw) == raw >= c.first /\ (c.last = -1 \/ raw <= c.last)

\* Bits and numbers (two's complement).
Bits(n, len) ==
    {k \in 0 .. len - 1 : IF k > 30 THEN n < 0 ELSE (n \div 2^k) % 2 = 1}
Weight(c, k) == IF c.signed /\ k = c.bits - 1 THEN -(2^k) ELSE 2^k
Number(c, v) ==
    LET below[k \in 0 .. c.bits] ==
            IF k = 0 THEN 0
            ELSE below[k - 1] + (IF k - 1 \in v THEN Weight(c, k - 1) ELSE 0)
    IN  below[c.bits]
FitsType(c, raw) ==
    IF c.signed THEN raw \in -(2^(c.bits - 1)) .. 2^(c.bits - 1) - 1
                ELSE raw >= 0 /\ (c.bits > 30 \/ raw < 2^c.bits)

\* The steps of the scale are exact in a double.
Dyadic(c) == \E e \in 0..20 : c.den = 2^e

Toward0(a, b) == IF a >= 0 THEN a \div b ELSE -((-a) \div b)

\* Mutant: the offset is left out.
EncodeNoOffset(c, v) ==
    LET raw == Toward0(v, 4 * c.num)
    IN  IF FitsType(c, raw) THEN {Bits(raw, c.bits)} ELSE {{}}

\* What _encode may return.  A value on a step whose scale is no binary
\* fraction may come out one step lower, since (raw * scale) / scale is rounded
\* twice; one outside the type is undefined behaviour: truncated, zero or the
\* largest value.
Encode(c, v) ==
    LET steps == v - 4 * c.den * c.off
        raw   == Toward0(steps, 4 * c.num)
        lower == IF raw > 0 /\ steps % (4 * c.num) = 0 /\ ~Dyadic(c) THEN {raw - 1} ELSE {}
    IN  IF FitsType(c, raw)
        THEN {Bits(r, c.bits) : r \in {raw} \cup lower}
        ELSE {Bits(raw, c.bits), {}, 0 .. c.bits - 1}

\* _decode, in the same unit.
Decode(c, v) == 4 * (Number(c, v) * c.num + c.den * c.off)
=============================================================================

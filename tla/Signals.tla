------------------------------ MODULE Signals ------------------------------
(***************************************************************************)
(* Signals in CAN frames, as the generated message code shifts and masks   *)
(* them.  A value is the set of its bits that are 1 (bit 0 the lowest), a  *)
(* frame the set of its positions 8 * byte + bit that are 1.  So a value   *)
(* of 32 bits needs no number.                                             *)
(***************************************************************************)
EXTENDS Integers

Byte  == 8
Frame == 0 .. 8 * Byte - 1

Ones(len) == 0 .. len - 1

\* A signal: its width, and the position of its first bit.  Little-endian
\* signals start at their lowest bit.  Big-endian ones start at their highest,
\* and `at` numbers the bits of a frame in the order they are sent.
Intel(at, len)    == [bigEndian |-> FALSE, at |-> at, len |-> len]
Motorola(at, len) == [bigEndian |-> TRUE, at |-> at, len |-> len]

\* The position in a frame of the p-th bit that is sent.
Sent(p) == Byte * (p \div Byte) + (Byte - 1) - (p % Byte)

\* Where bit k of the signal's value lies.
Place(s, k) == IF s.bigEndian THEN Sent(s.at + s.len - 1 - k) ELSE s.at + k

Places(s) == {Place(s, k) : k \in Ones(s.len)}

\* pack_left_shift_*, pack_right_shift_*: the mask drops what the signal has no
\* room for.
Put(s, v) == {Place(s, k) : k \in v \cap Ones(s.len)}

\* unpack_left_shift_*, unpack_right_shift_*.
Get(s, frame) == {k \in Ones(s.len) : Place(s, k) \in frame}

\* A layout maps the fields of a message to signals: one field, and two layouts
\* together (the provers do not know :> and @@ of TLC).
Field(f, s) == [x \in {f} |-> s]
a ++ b == [x \in DOMAIN a \cup DOMAIN b |-> IF x \in DOMAIN a THEN a[x] ELSE b[x]]

PackAll(layout, struct) == UNION {Put(layout[f], struct[f]) : f \in DOMAIN layout}

\* Only the fields of the layout are assigned.
UnpackAll(layout, frame, struct) ==
    [f \in DOMAIN struct |->
        IF f \in DOMAIN layout THEN Get(layout[f], frame) ELSE struct[f]]

Apart(layout) ==
    \A f, g \in DOMAIN layout :
        f # g => Places(layout[f]) \cap Places(layout[g]) = {}
=============================================================================

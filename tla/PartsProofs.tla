---------------------------- MODULE PartsProofs ----------------------------
(***************************************************************************)
(* Three of the small parts for every value of their constants: readFC()   *)
(* whatever the line makes of the stream, the clocks of the main loop      *)
(* whatever they are set to, the names of the logs whatever path is given. *)
(***************************************************************************)
EXTENDS FrontControls, Clocks, PathInsert, OperatorProofs

(* Front controls.                                                         *)

\* The bytes of a command: byte b is the first of command c, d bytes on.
LEMMA ByteOf ==
    ASSUME NEW q \in Nat, NEW r \in 0 .. CmdSize - 1, NEW b, b = CmdSize * q + r + 1
    PROVE  Pos(b) = r + 1 /\ Cmd(b) = q + 1
  <1>1. b - 1 = CmdSize * q + r /\ CmdSize \in Nat /\ r \in Nat /\ r < CmdSize
    BY FcAssumption
  <1>2. (b - 1) \div CmdSize = q /\ (b - 1) % CmdSize = r
    BY <1>1, DivModUnique
  <1> QED BY <1>2 DEF Pos, Cmd

LEMMA ByteIs ==
    ASSUME NEW b \in Nat, b >= 1
    PROVE  \E q \in Nat, r \in 0 .. CmdSize - 1 : b = CmdSize * q + r + 1
  <1>1. b - 1 \in Nat /\ CmdSize \in Nat /\ CmdSize > 0
    BY FcAssumption
  <1>2. /\ b - 1 = CmdSize * ((b - 1) \div CmdSize) + ((b - 1) % CmdSize)
        /\ (b - 1) % CmdSize \in 0 .. CmdSize - 1 /\ (b - 1) \div CmdSize \in Nat
    BY <1>1, DivMod
  <1> DEFINE q == (b - 1) \div CmdSize
             r == (b - 1) % CmdSize
  <1>3. b = CmdSize * q + r + 1
    BY <1>1, <1>2
  <1> QED BY <1>2, <1>3

\* A byte and a later one with no last byte of a command from it on are of the same
\* command.
LEMMA SameCommand ==
    ASSUME NEW b \in Nat, NEW e \in Nat, b >= 1, b <= e,
           \A d \in b .. e : Pos(d) # CmdSize
    PROVE  Cmd(b) = Cmd(e) /\ Pos(b) <= Pos(e)
  <1>1. PICK q \in Nat, r \in 0 .. CmdSize - 1 : b = CmdSize * q + r + 1
    BY ByteIs
  <1> DEFINE m == CmdSize - 1
             last == CmdSize * q + m + 1
  <1>2. CmdSize \in Nat /\ CmdSize > 1 /\ CmdSize * q \in Nat /\ m \in 0 .. CmdSize - 1
    BY FcAssumption
  <1>3. Pos(last) = CmdSize /\ last \in Nat /\ last >= b
    <2> HIDE DEF last
    <2>1. last = CmdSize * q + m + 1
      BY DEF last
    <2> HIDE DEF m
    <2>2. \A z \in 0 .. CmdSize - 1 : \A x : x = CmdSize * q + z + 1 => Pos(x) = z + 1
      BY ByteOf
    <2>3. Pos(last) = m + 1
      BY <1>2, <2>1, <2>2
    <2>4. m = CmdSize - 1
      BY DEF m
    <2> QED BY <1>1, <1>2, <2>1, <2>3, <2>4
  <1>4. e < last
    BY <1>3
  <1>5. e = CmdSize * q + (r + (e - b)) + 1 /\ r + (e - b) \in 0 .. CmdSize - 1
    BY <1>1, <1>2, <1>4
  <1>6. Pos(e) = r + (e - b) + 1 /\ Cmd(e) = q + 1
    BY <1>5, ByteOf
  <1>7. Pos(b) = r + 1 /\ Cmd(b) = q + 1
    BY <1>1, ByteOf
  <1> QED BY <1>6, <1>7, <1>1

\* CmdSize bytes up to the last byte of a command are that command.
LEMMA WholeCommand ==
    ASSUME NEW b \in Nat, b >= CmdSize, Pos(b) = CmdSize
    PROVE  Whole(b - (CmdSize - 1))
  <1>1. CmdSize \in Nat /\ CmdSize > 1 /\ 0 \in 0 .. CmdSize - 1
    BY FcAssumption
  <1>2. PICK q \in Nat, r \in 0 .. CmdSize - 1 : b = CmdSize * q + r + 1
    BY <1>1, ByteIs
  <1>3. r = CmdSize - 1
    <2>1. Pos(b) = r + 1
      BY <1>2, ByteOf
    <2> QED BY <2>1, <1>1
  <1>4. \A z \in 0 .. CmdSize - 1 : z = 0 => b - (CmdSize - 1) = CmdSize * q + z + 1
    BY <1>1, <1>2, <1>3
  <1>5. \A z \in 0 .. CmdSize - 1 : z = 0 => Pos(b - (CmdSize - 1)) = z + 1
    BY <1>4, ByteOf
  <1>6. Pos(b - (CmdSize - 1)) = 1
    BY <1>1, <1>5
  <1> QED BY <1>6 DEF Whole
----------------------------------------------------------------------------
FcTypes ==
    /\ newlines \in [1..MaxCmds -> SUBSET VoltageAt]
    /\ out \in Nat /\ got \in Nat

LEMMA FcTypesInit == FcInit => FcTypes
  BY DEF FcInit, FcTypes

LEMMA FcTypesNext == FcTypes /\ [FcNext]_fcVars => FcTypes'
  <1> SUFFICES ASSUME FcTypes, [FcNext]_fcVars PROVE FcTypes'
    OBVIOUS
  <1>1. CASE SendBytes
    BY <1>1 DEF SendBytes, FcTypes
  <1>2. CASE FcRead
    <2>1. BufSize \in Nat
      BY FcAssumption
    <2>2. PICK n \in 1 .. BufSize, junk \in BOOLEAN : ReadPortion(n, junk)
      BY <1>2 DEF FcRead
    <2>3. got' = got + n /\ n \in Nat /\ UNCHANGED <<newlines, out>>
      BY <2>1, <2>2 DEF ReadPortion
    <2> QED BY <2>3 DEF FcTypes
  <1>3. CASE UNCHANGED fcVars
    BY <1>3 DEF fcVars, FcTypes
  <1> QED BY <1>1, <1>2, <1>3 DEF FcNext

\* The newline that is found without a stray one is the last of the portion.
LEMMA FoundLast ==
    ASSUME FcTypes, NEW n \in Nat, n >= 1, NEW junk, ~junk
    PROVE  LET found == {i \in 1 .. n - 1 : IsNewline(got + 1 + i)} \cup {0}
           IN  /\ LastNewline(n, junk) \in found
               /\ \A i \in found : i <= LastNewline(n, junk)
  <1> DEFINE found == {i \in 1 .. n - 1 : IsNewline(got + 1 + i)} \cup {0}
  <1>1. LastNewline(n, junk) = Max(found)
    BY DEF LastNewline
  <1>2. found \subseteq 0 .. n - 1 /\ 0 \in found
    OBVIOUS
  <1> HIDE DEF found
  <1>3. Max(found) \in found /\ \A y \in found : y <= Max(found)
    <2>1. found \in SUBSET (0 .. n) /\ found # {}
      BY <1>2
    <2> QED BY <2>1, HasMax
  <1> QED BY <1>1, <1>3 DEF found

(* A portion: what readFC() makes of it.                                   *)

\* The facts of a call that changes the inputs.
LEMMA Taken ==
    ASSUME FcTypes, NEW n \in 1 .. BufSize, NEW junk \in BOOLEAN, ReadPortion(n, junk),
           held' # held
    PROVE  /\ n >= CmdSize /\ EndsCommand(n, LastNewline(n, junk), junk)
           /\ held' = got + 1 + LastNewline(n, junk) - (CmdSize - 1)
           /\ LastNewline(n, junk) = n => stray'
  <1>1. n >= CmdSize /\ EndsCommand(n, LastNewline(n, junk), junk)
    BY Zenon DEF ReadPortion
  <1>2. /\ held' = got + 1 + LastNewline(n, junk) - (CmdSize - 1)
        /\ stray' = (LastNewline(n, junk) = n)
    BY <1>1, Zenon DEF ReadPortion
  <1> QED BY <1>1, <1>2, Zenon

\* A newline taken from behind the portion is stray.
LEMMA StrayJunk ==
    ASSUME FcTypes, NEW n \in 1 .. BufSize, NEW junk, junk
    PROVE  LastNewline(n, junk) = n
  <1> DEFINE S == {i \in 1 .. n - 1 : IsNewline(got + 1 + i)} \cup {n}
  <1>1. n \in Nat /\ LastNewline(n, junk) = Max(S)
    BY FcAssumption DEF LastNewline
  <1>2. S \in SUBSET (0 .. n) /\ S # {} /\ n \in S
    BY <1>1
  <1> HIDE DEF S
  <1>3. Max(S) \in S /\ n <= Max(S)
    BY <1>1, <1>2, HasMax
  <1>4. Max(S) \in 0 .. n
    BY <1>2, <1>3
  <1>5. Max(S) = n
    BY <1>1, <1>3, <1>4
  <1> QED BY <1>1, <1>5

\* However the stream is cut into portions, the inputs taken are those of one
\* command of the portion just read, but for a stray newline and a portion that ends
\* behind a newline among the voltage's bytes (readFC; InputsOfOneCommand).
THEOREM OneCommand == FcSpec => InputsOfOneCommand
  <1> DEFINE OneCommandStep ==
        held' # held =>
          /\ held' \in got + 1 .. got'
          /\ Whole(held') \/ stray' \/ (CutOff(got') /\ HoldsNewline(got'))
  <1>1. FcTypes /\ [FcNext]_fcVars => [OneCommandStep]_fcVars
    <2> SUFFICES ASSUME FcTypes, FcNext, held' # held
                 PROVE  /\ held' \in got + 1 .. got'
                        /\ Whole(held') \/ stray' \/ (CutOff(got') /\ HoldsNewline(got'))
      OBVIOUS
    <2>1. FcRead
      BY DEF FcNext, SendBytes
    <2>2. PICK n \in 1 .. BufSize, junk \in BOOLEAN : ReadPortion(n, junk)
      BY <2>1 DEF FcRead
    <2> DEFINE i == LastNewline(n, junk)
               b == got + 1 + i
    <2>3. /\ n >= CmdSize /\ EndsCommand(n, i, junk)
          /\ held' = got + 1 + i - (CmdSize - 1) /\ (i = n => stray') /\ got' = got + n
      <3>1. got' = got + n
        BY <2>2, Zenon DEF ReadPortion
      <3> QED BY <2>2, <3>1, Taken, Zenon
    <2>4. got \in Nat /\ n \in Nat /\ n >= 1 /\ CmdSize \in Nat /\ CmdSize > 1
      BY FcAssumption DEF FcTypes
    <2>5. CASE i = n
      <3>1. stray' /\ held' = got + 1 + n - (CmdSize - 1)
        BY <2>3, <2>5, Zenon
      <3>2. held' \in got + 1 .. got'
        BY <3>1, <2>3, <2>4
      <3> QED BY <3>1, <3>2
    <2>6. CASE i # n
      <3>1. ~junk
        BY <2>6, StrayJunk
      <3> DEFINE found == {j \in 1 .. n - 1 : IsNewline(got + 1 + j)} \cup {0}
      <3>2. i \in found /\ \A j \in found : j <= i
        BY <3>1, <2>4, FoundLast
      <3>3. i \in Nat /\ i <= n - 1 /\ i >= CmdSize - 1
        BY <3>2, <2>3, <2>4 DEF EndsCommand
      <3>4. IsNewline(b) /\ b \in Nat /\ b >= CmdSize /\ b <= got'
        BY <3>3, <2>3, <2>4 DEF EndsCommand
      <3>5. held' \in got + 1 .. got'
        BY <3>3, <2>3, <2>4
      <3>6. CASE Pos(b) = CmdSize
        <4>1. held' = b - (CmdSize - 1)
          BY <3>3, <2>3, <2>4
        <4>2. Whole(b - (CmdSize - 1))
          <5> HIDE DEF b
          <5> QED BY <3>6, <3>4, WholeCommand
        <4> QED BY <3>5, <4>1, <4>2
      <3>7. CASE Pos(b) # CmdSize
        <4>1. Pos(b) \in newlines[Cmd(b)]
          BY <3>4, <3>7 DEF IsNewline
        <4>2. ASSUME NEW d \in b .. got' PROVE Pos(d) # CmdSize
          <5>1. CASE d = b
            BY <5>1, <3>7
          <5>2. CASE d # b
            <6> DEFINE j == d - got - 1
            <6>1. j \in 1 .. n - 1 /\ j > i /\ d = got + 1 + j
              BY <5>2, <3>3, <3>4, <2>3, <2>4
            <6>2. j \notin found
              BY <6>1, <3>2, <3>3
            <6>3. ~IsNewline(d)
              BY <6>1, <6>2
            <6> QED BY <6>3 DEF IsNewline
          <5> QED BY <5>1, <5>2
        <4>3. got' \in Nat /\ b >= 1
          BY <3>4, <2>3, <2>4
        <4>4. Cmd(b) = Cmd(got') /\ Pos(b) <= Pos(got')
          <5> HIDE DEF b
          <5> QED BY <4>2, <4>3, <3>4, SameCommand
        <4>5. CutOff(got') /\ HoldsNewline(got')
          <5>1. Pos(got') # CmdSize
            BY <4>2, <3>4, <4>3
          <5>2. HoldsNewline(got')
            <6> HIDE DEF b
            <6> QED BY <4>1, <4>4 DEF HoldsNewline
          <5> QED BY <5>1, <5>2 DEF CutOff
        <4> QED BY <3>5, <4>5
      <3> QED BY <3>6, <3>7
    <2> QED BY <2>5, <2>6
  <1> QED BY <1>1, FcTypesInit, FcTypesNext, PTL DEF FcSpec, InputsOfOneCommand

\* A portion that holds a command and ends with one leaves that command's inputs in
\* force, whatever was dropped before it (readFC; NewestCommandHeld).
THEOREM NewestHeld == FcSpec => NewestCommandHeld
  <1>1. FcTypes /\ [FcNext]_fcVars =>
          [got' >= got + CmdSize /\ ~CutOff(got') /\ ~stray' =>
             held' = got' - (CmdSize - 1)]_fcVars
    <2> SUFFICES ASSUME FcTypes, FcNext, got' >= got + CmdSize, ~CutOff(got'), ~stray'
                 PROVE  held' = got' - (CmdSize - 1)
      OBVIOUS
    <2>1. got \in Nat /\ CmdSize \in Nat /\ CmdSize > 1
      BY FcAssumption DEF FcTypes
    <2>2. FcRead
      BY <2>1 DEF FcNext, SendBytes
    <2>3. PICK n \in 1 .. BufSize, junk \in BOOLEAN : ReadPortion(n, junk)
      BY <2>2 DEF FcRead
    <2> DEFINE i == LastNewline(n, junk)
    <2>4. n \in Nat /\ got' = got + n /\ n >= CmdSize
      BY <2>1, <2>3, FcAssumption DEF ReadPortion
    <2>5. EndsCommand(n, i, junk) => held' = got + 1 + i - (CmdSize - 1) /\ stray' = (i = n)
      BY <2>3, <2>4, Zenon DEF ReadPortion
    <2>6. ~junk
      <3> SUFFICES ASSUME junk PROVE FALSE
        OBVIOUS
      <3>1. i = n
        BY <2>3, StrayJunk, Zenon
      <3>2. n >= CmdSize - 1 /\ ~(n < n)
        BY <2>1, <2>4
      <3>3. EndsCommand(n, i, junk)
        BY <3>1, <3>2, Zenon DEF EndsCommand
      <3> QED BY <3>1, <3>3, <2>5, Zenon
    <2>7. i = n - 1
      <3> DEFINE found == {j \in 1 .. n - 1 : IsNewline(got + 1 + j)} \cup {0}
      <3>1. i \in found /\ \A j \in found : j <= i
        BY <2>1, <2>4, <2>6, FoundLast
      <3>2. n - 1 \in 1 .. n - 1 /\ got + 1 + (n - 1) = got'
        BY <2>1, <2>4
      <3>3. IsNewline(got')
        BY DEF IsNewline, CutOff
      <3>4. n - 1 \in found
        BY <3>2, <3>3
      <3>5. i <= n - 1
        BY <3>1, <2>4, <2>1
      <3> QED BY <3>1, <3>4, <3>5, <2>4
    <2>8. EndsCommand(n, i, junk)
      <3>1. IsNewline(got')
        BY DEF IsNewline, CutOff
      <3>2. got + 1 + i = got' /\ i >= CmdSize - 1 /\ i # n
        BY <2>1, <2>4, <2>7
      <3> QED BY <3>1, <3>2, <2>6 DEF EndsCommand
    <2>9. held' = got + 1 + i - (CmdSize - 1)
      BY <2>5, <2>8, Zenon
    <2> QED BY <2>9, <2>7, <2>4, <2>1
  <1> QED BY <1>1, FcTypesInit, FcTypesNext, PTL DEF FcSpec, NewestCommandHeld
----------------------------------------------------------------------------
(* Clocks.                                                                 *)

LEMMA SecIs ==
    ASSUME NEW t \in Nat
    PROVE  Sec(t) \in Nat /\ \E f \in 0 .. Second - 1 : t = Second * Sec(t) + f
  <1>1. Second \in Nat /\ Second > 0
    BY ClocksAssumption
  <1>2. t = Second * Sec(t) + (t % Second) /\ t % Second \in 0 .. Second - 1 /\ Sec(t) \in Nat
    BY <1>1, DivMod DEF Sec
  <1> QED BY <1>2

LEMMA SecOf ==
    ASSUME NEW q \in Nat, NEW f \in 0 .. Second - 1
    PROVE  Sec(q * Second + f) = q
  <1>1. Second \in Nat /\ f \in Nat /\ f < Second /\ q * Second = Second * q
    BY ClocksAssumption
  <1>2. (Second * q + f) \div Second = q
    BY <1>1, DivModUnique
  <1> QED BY <1>1, <1>2 DEF Sec

\* Later times are of later seconds, at most one later within a second's time.
LEMMA SecMonotone ==
    ASSUME NEW a \in Nat, NEW b \in Nat, a <= b
    PROVE  Sec(a) <= Sec(b) /\ (b <= a + Second => Sec(b) <= Sec(a) + 1)
  <1>1. Second \in Nat /\ Second > 0
    BY ClocksAssumption
  <1>2. PICK x \in Nat, f \in 0 .. Second - 1 : x = Sec(a) /\ a = Second * x + f
    BY SecIs
  <1>3. PICK y \in Nat, g \in 0 .. Second - 1 : y = Sec(b) /\ b = Second * y + g
    BY SecIs
  <1>4. x <= y
    <2> SUFFICES ASSUME x >= y + 1 PROVE FALSE
      BY <1>2, <1>3
    <2>1. Second * (x - y) >= Second
      BY <1>1
    <2>2. Second * (x - y) = Second * x - Second * y
      BY <1>1
    <2> DEFINE X == Second * x
               Y == Second * y
    <2>3. X \in Int /\ Y \in Int /\ X - Y >= Second
      BY <1>1, <2>1, <2>2
    <2> HIDE DEF X, Y
    <2>4. a = X + f /\ b = Y + g
      BY <1>2, <1>3 DEF X, Y
    <2> QED BY <1>1, <2>3, <2>4
  <1>5. ASSUME b <= a + Second PROVE y <= x + 1
    <2> SUFFICES ASSUME y >= x + 2 PROVE FALSE
      BY <1>2, <1>3
    <2>1. Second * (y - x) >= Second * 2
      BY <1>1
    <2>2. Second * (y - x) = Second * y - Second * x
      BY <1>1
    <2> DEFINE X == Second * x
               Y == Second * y
    <2>3. X \in Int /\ Y \in Int /\ Y - X >= Second * 2
      BY <1>1, <2>1, <2>2
    <2> HIDE DEF X, Y
    <2>4. a = X + f /\ b = Y + g
      BY <1>2, <1>3 DEF X, Y
    <2> QED BY <1>1, <1>5, <2>3, <2>4
  <1> QED BY <1>2, <1>3, <1>4, <1>5

\* What comparing whole seconds makes of two clocks that moved apart.
LEMMA SecondsApart ==
    ASSUME NEW w1 \in Nat, NEW m1 \in Nat, NEW w0 \in Nat, NEW m0 \in Nat,
           NEW n \in Nat \ {0}
    PROVE  LET a     == Abs((Sec(w1) - Sec(w0)) - (Sec(m1) - Sec(m0)))
               moved == Abs((w1 - m1) - (w0 - m0))
           IN  /\ a > n => moved > (n - 1) * Second
               /\ ~(a > n) => moved < (n + 2) * Second
  <1> DEFINE S == Second
  <1>1. S \in Nat /\ S > 0
    BY ClocksAssumption
  <1>2. PICK p1 \in Nat, f1 \in 0 .. S - 1 : p1 = Sec(w1) /\ w1 = S * p1 + f1
    BY SecIs
  <1>3. PICK p0 \in Nat, f0 \in 0 .. S - 1 : p0 = Sec(w0) /\ w0 = S * p0 + f0
    BY SecIs
  <1>4. PICK q1 \in Nat, g1 \in 0 .. S - 1 : q1 = Sec(m1) /\ m1 = S * q1 + g1
    BY SecIs
  <1>5. PICK q0 \in Nat, g0 \in 0 .. S - 1 : q0 = Sec(m0) /\ m0 = S * q0 + g0
    BY SecIs
  <1> DEFINE d == (p1 - p0) - (q1 - q0)
             P == S * d
             mv == (w1 - m1) - (w0 - m0)
  <1>6. d \in Int /\ mv \in Int
    BY <1>1
  <1>7. P \in Int /\ P = S * p1 - S * p0 - S * q1 + S * q0
    BY <1>1
  <1>8. mv = P + (f1 - g1) - (f0 - g0)
    <2> DEFINE A == S * p1
               B == S * p0
               C == S * q1
               D == S * q0
    <2>1. A \in Int /\ B \in Int /\ C \in Int /\ D \in Int /\ P = A - B - C + D
      BY <1>1, <1>7
    <2>2. w1 = A + f1 /\ w0 = B + f0 /\ m1 = C + g1 /\ m0 = D + g0
      BY <1>2, <1>3, <1>4, <1>5
    <2> HIDE DEF A, B, C, D, P, S
    <2> QED BY <1>1, <1>7, <2>1, <2>2
  <1>9. mv < P + 2 * S /\ mv > P - 2 * S
    <2> HIDE DEF P, mv, d, S
    <2> QED BY <1>1, <1>6, <1>7, <1>8
  <1>10. d > n => P >= S * (n + 1)
    BY <1>1
  <1>11. d <= n => P <= S * n
    BY <1>1
  <1>12. d < -n => P <= -(S * (n + 1))
    <2> SUFFICES ASSUME -d >= n + 1 PROVE P <= -(S * (n + 1))
      BY <1>6
    <2>1. S * (-d) >= S * (n + 1)
      BY <1>1
    <2>2. S * (-d) = -P
      BY <1>1
    <2> QED BY <2>1, <2>2, <1>1
  <1>13. d >= -n => P >= -(S * n)
    <2> SUFFICES ASSUME -d <= n PROVE P >= -(S * n)
      BY <1>6
    <2>1. S * (-d) <= S * n
      BY <1>1
    <2>2. S * (-d) = -P
      BY <1>1
    <2> QED BY <2>1, <2>2, <1>1
  <1>14. /\ S * (n + 1) = S * n + S /\ (n - 1) * S = S * n - S
         /\ (n + 2) * S = S * n + 2 * S /\ S * n \in Int
    BY <1>1
  <1> DEFINE N == S * n
             lo == (n - 1) * S
             hi == (n + 2) * S
             Q == S * (n + 1)
  <1>15. N \in Int /\ Q = N + S /\ lo = N - S /\ hi = N + 2 * S
    BY <1>14
  <1>16. /\ d > n => P >= Q
         /\ d <= n => P <= N
         /\ d < -n => P <= -Q
         /\ d >= -n => P >= -N
    BY <1>10, <1>11, <1>12, <1>13
  <1> HIDE DEF N, lo, hi, Q, P, mv, d
  <1>17. Abs(d) > n => Abs(mv) > lo
    BY <1>1, <1>6, <1>7, <1>9, <1>15, <1>16 DEF Abs
  <1>18. ~(Abs(d) > n) => Abs(mv) < hi
    BY <1>1, <1>6, <1>7, <1>9, <1>15, <1>16 DEF Abs
  <1> QED BY <1>17, <1>18, <1>2, <1>3, <1>4, <1>5 DEF lo, hi, mv, d

\* A difference that time_t holds is the difference.
LEMMA ElapsedIs ==
    ASSUME word \in Nat \ {0}, currtime \in Nat, NEW t \in Nat,
           t <= currtime, currtime - t < word
    PROVE  Elapsed(t) = currtime - t
  <1> DEFINE x == currtime - t + word
  <1>1. x \in Nat /\ 2 * word \in Nat /\ x < 2 * word
    OBVIOUS
  <1>2. x % (2 * word) = x
    <2> HIDE DEF x
    <2> QED BY <1>1, SmallMod
  <1> QED BY <1>2 DEF Elapsed
----------------------------------------------------------------------------
ClTypes ==
    /\ step \in {"detect", "stamp", "sync", "row", "point"} /\ word \in Nat \ {0}
    /\ mono \in Nat /\ wall \in Nat /\ currtime \in Nat /\ time_last \in [Kind -> Nat]
    /\ stamp_mono \in Nat /\ last_mono \in Nat
    /\ last_mono <= stamp_mono /\ stamp_mono <= mono
    /\ seen \in Int /\ fresh \in BOOLEAN /\ jumped \in BOOLEAN /\ meddled \in Nat

LEMMA ClTypesInit == ClocksInit => ClTypes
  <1> SUFFICES ASSUME ClocksInit PROVE ClTypes
    OBVIOUS
  <1>1. word \in Nat \ {0} /\ wall \in Nat /\ mono = 0
    BY ClocksAssumption DEF ClocksInit
  <1>2. time_last \in [Kind -> Nat]
    BY <1>1 DEF ClocksInit
  <1>3. stamp_mono = 0 /\ last_mono = 0 /\ currtime = wall /\ step = "detect" /\ meddled = 0
    BY <1>1 DEF ClocksInit
  <1>4. jumped \in BOOLEAN /\ fresh \in BOOLEAN
    BY DEF ClocksInit
  <1>5. seen \in Int
    BY <1>1 DEF ClocksInit
  <1> QED BY <1>1, <1>2, <1>3, <1>4, <1>5 DEF ClTypes

LEMMA ClTypesNext == ClTypes /\ [ClocksNext]_clockVars => ClTypes'
  <1> SUFFICES ASSUME ClTypes, [ClocksNext]_clockVars PROVE ClTypes'
    OBVIOUS
  <1>1. CASE Detect
    <2>1. fresh' \in BOOLEAN /\ jumped' \in BOOLEAN /\ seen' \in Int
      BY <1>1 DEF Detect, ClTypes
    <2> QED BY <1>1, <2>1 DEF Detect, ClTypes, stamped
  <1>2. CASE Stamp
    BY <1>2 DEF Stamp, ClTypes, compared, written
  <1>3. CASE SyncFromGps
    <2>1. wall' \in Nat
      <3>1. CASE UNCHANGED wall
        BY <3>1 DEF ClTypes
      <3>2. ASSUME NEW gpstime \in GpsSeconds, NEW frac \in 0 .. Second - 1,
                   wall' = gpstime * Second + frac
            PROVE  wall' \in Nat
        <4>1. gpstime \in Nat /\ Second \in Nat
          BY ClocksAssumption
        <4>2. gpstime * Second \in Nat /\ frac \in Nat
          BY <4>1
        <4> HIDE DEF Sec
        <4> QED BY <3>2, <4>2
      <3> QED BY <1>3, <3>1, <3>2 DEF SyncFromGps
    <2>2. step' = "row" /\ UNCHANGED <<stamped, word, mono, compared, written, meddled>>
      BY <1>3 DEF SyncFromGps, KeepStamp
    <2> QED BY <2>1, <2>2 DEF ClTypes, stamped, compared, written
  <1>4. CASE WriteRow
    <2>1. CASE UNCHANGED written
      BY <1>4, <2>1 DEF WriteRow, ClTypes, written, stamped, compared
    <2>2. CASE Write("row") /\ last_mono' = stamp_mono /\ fresh' = FALSE
      <3>1. time_last' \in [Kind -> Nat]
        BY <2>2 DEF Write, ClTypes
      <3>2. fresh' \in BOOLEAN /\ last_mono' = stamp_mono
        BY <2>2
      <3>3. step' = "point" /\ UNCHANGED <<word, mono, wall, compared, stamped, meddled>>
        BY <1>4 DEF WriteRow
      <3> QED BY <3>1, <3>2, <3>3 DEF ClTypes, stamped, compared
    <2> QED BY <1>4, <2>1, <2>2 DEF WriteRow
  <1>5. CASE WritePoint
    <2>1. time_last' \in [Kind -> Nat] /\ UNCHANGED <<last_mono, fresh>>
      BY <1>5 DEF WritePoint, Write, ClTypes, written
    <2> QED BY <1>5, <2>1 DEF WritePoint, ClTypes, stamped, compared
  <1>6. CASE TimePasses
    BY <1>6 DEF TimePasses, ClTypes, stamped, compared, written
  <1>7. CASE OthersSetClock
    <2>1. PICK d \in Steps : wall' = wall + d \/ (wall >= d /\ wall' = wall - d)
      BY <1>7 DEF OthersSetClock
    <2>2. d \in Nat
      BY ClocksAssumption
    <2>3. wall' \in Nat
      BY <2>1, <2>2 DEF ClTypes
    <2> QED BY <1>7, <2>3 DEF OthersSetClock, ClTypes, stamped, compared, written
  <1>8. CASE UNCHANGED clockVars
    BY <1>8 DEF clockVars, ClTypes, stamped, compared, written
  <1> QED BY <1>1, <1>2, <1>3, <1>4, <1>5, <1>6, <1>7, <1>8 DEF ClocksNext

\* The previous times are those of one moment, whose offset is the one last seen.
Compared ==
    \E w \in Nat, m \in Nat : wp = Sec(w) /\ mp = Sec(m) /\ seen = w - m

LEMMA ComparedInit == ClocksInit => Compared
  <1> SUFFICES ASSUME ClocksInit PROVE Compared
    OBVIOUS
  <1>1. wall \in Nat /\ mono \in Nat
    BY ClTypesInit DEF ClTypes
  <1> QED BY <1>1 DEF ClocksInit, Compared

LEMMA ComparedNext == ClTypes /\ Compared /\ [ClocksNext]_clockVars => Compared'
  <1> SUFFICES ASSUME ClTypes, Compared, [ClocksNext]_clockVars PROVE Compared'
    OBVIOUS
  <1>1. CASE Detect
    <2>1. wp' = Sec(wall) /\ mp' = Sec(mono) /\ seen' = wall - mono
      BY <1>1 DEF Detect, StorePrevious
    <2>2. wall \in Nat /\ mono \in Nat
      BY DEF ClTypes
    <2>3. \A w, m \in Nat : w = wall /\ m = mono =>
             wp' = Sec(w) /\ mp' = Sec(m) /\ seen' = w - m
      BY <2>1
    <2>4. \E w \in Nat, m \in Nat : wp' = Sec(w) /\ mp' = Sec(m) /\ seen' = w - m
      BY <2>2, <2>3
    <2> QED BY <2>4 DEF Compared, Sec
  <1>2. CASE UNCHANGED compared
    BY <1>2 DEF compared, Compared, Sec
  <1>3. UNCHANGED compared \/ Detect
    BY DEF ClocksNext, Stamp, SyncFromGps, WriteRow, WritePoint, TimePasses, OthersSetClock,
           clockVars
  <1> QED BY <1>1, <1>2, <1>3

\* A pass's verdict, from what the clocks were when they were last compared.
LEMMA Verdict ==
    ASSUME ClTypes, Compared, Detect
    PROVE  /\ jumped'  => Abs((wall - mono) - seen) > (TIME_JUMP_DETECT - 1) * Second
           /\ ~jumped' => Abs((wall - mono) - seen) < (TIME_JUMP_DETECT + 2) * Second
  <1>1. PICK w \in Nat, m \in Nat : wp = Sec(w) /\ mp = Sec(m) /\ seen = w - m
    BY DEF Compared
  <1>2. wall \in Nat /\ mono \in Nat /\ TIME_JUMP_DETECT \in Nat \ {0}
    BY ClocksAssumption DEF ClTypes
  <1> DEFINE a == Abs((Sec(wall) - Sec(w)) - (Sec(mono) - Sec(m)))
             moved == Abs((wall - mono) - (w - m))
  <1>3. /\ a > TIME_JUMP_DETECT => moved > (TIME_JUMP_DETECT - 1) * Second
        /\ ~(a > TIME_JUMP_DETECT) => moved < (TIME_JUMP_DETECT + 2) * Second
    <2>1. \A n \in Nat \ {0} :
            /\ a > n => moved > (n - 1) * Second
            /\ ~(a > n) => moved < (n + 2) * Second
      BY <1>2, SecondsApart
    <2> HIDE DEF a, moved
    <2> QED BY <1>2, <2>1
  <1>4. jumped' = (a > TIME_JUMP_DETECT)
    BY <1>1 DEF Detect
  <1>5. moved = Abs((wall - mono) - seen)
    BY <1>1
  <1> HIDE DEF a, moved
  <1> QED BY <1>3, <1>4, <1>5

\* Though both clocks are cut to seconds, a pass finds a jump if and only if one
\* happened since the last, within two seconds of the limit (detect_time_change();
\* JumpSeenOnce).
THEOREM JumpFound == ClocksSpec => JumpSeenOnce
  <1> DEFINE Right ==
        step = "detect" /\ step' = "stamp" =>
          /\ jumped'  => Abs((wall - mono) - seen) > (TIME_JUMP_DETECT - 1) * Second
          /\ ~jumped' => Abs((wall - mono) - seen) < (TIME_JUMP_DETECT + 2) * Second
  <1>1. ClTypes /\ Compared /\ [ClocksNext]_clockVars => [Right]_clockVars
    <2> SUFFICES ASSUME ClTypes, Compared, ClocksNext, step = "detect", step' = "stamp"
                 PROVE  Right
      OBVIOUS
    <2>1. Detect
      BY DEF ClocksNext, Stamp, SyncFromGps, WriteRow, WritePoint, TimePasses,
             OthersSetClock
    <2> QED BY <2>1, Verdict
  <1>2. ClTypes /\ Compared /\ [ClocksNext]_clockVars => (ClTypes /\ Compared)'
    BY ClTypesNext, ComparedNext
  <1>3. ClocksInit => ClTypes /\ Compared
    BY ClTypesInit, ComparedInit
  <1> QED BY <1>1, <1>2, <1>3, PTL DEF ClocksSpec, JumpSeenOnce
----------------------------------------------------------------------------
\* What is undetected at most, the offset at the stamp, and how far an offset has
\* moved since the last row.
Limit    == (TIME_JUMP_DETECT + 2) * Second
StampOff == currtime - stamp_mono
Drift(o) == o - (time_last["row"] - last_mono)

\* The clock was compared with the offset of the last stamp, or since; and once it
\* is set it shows a later second than the stamp.
OffsetInv ==
    /\ time_last["row"] <= currtime /\ currtime <= wall
    /\ step # "stamp" => seen = StampOff
    /\ step \in {"stamp", "sync"} => seen = wall - mono
    /\ step # "sync" => wall - mono = StampOff \/ Sec(wall) > Sec(currtime)
    /\ step = "stamp" /\ ~fresh => Abs(seen - StampOff) < Limit

\* While no row is due, no more than one setting back is undetected, and none while
\* the stamp is of the last row's second.
OnceAtMost ==
    /\ Sec(currtime) = Sec(time_last["row"]) => Drift(StampOff) >= 0
    /\ Drift(StampOff) > -Limit

DriftInv ==
    ~fresh /\ currtime - time_last["row"] < word =>
      /\ step \in {"point", "detect", "stamp"} =>
           currtime - time_last["row"] <= LOG_INTERVAL /\ OnceAtMost
      /\ step \in {"sync", "row"} =>
           /\ -2 * Limit < Drift(StampOff) /\ Drift(StampOff) < Limit + LOG_INTERVAL
           /\ currtime - time_last["row"] <= LOG_INTERVAL => OnceAtMost

ClockInv == meddled = 0 => OffsetInv /\ DriftInv

LEMMA ClConstants ==
    /\ Second \in Nat /\ Second > 0 /\ Limit \in Nat /\ Limit > 0
    /\ LOG_INTERVAL \in Nat /\ LOG_INTERVAL <= Second
  <1>1. Second \in Nat /\ Second > 0 /\ TIME_JUMP_DETECT \in Nat
    BY ClocksAssumption
  <1>2. (TIME_JUMP_DETECT + 2) * Second \in Nat /\ (TIME_JUMP_DETECT + 2) * Second > 0
    BY <1>1
  <1> QED BY <1>1, <1>2, ClocksAssumption DEF Limit

LEMMA ClNumbers ==
    ASSUME ClTypes
    PROVE  /\ mono \in Nat /\ wall \in Nat /\ currtime \in Nat /\ stamp_mono \in Nat
           /\ last_mono \in Nat /\ time_last["row"] \in Nat /\ seen \in Int
           /\ last_mono <= stamp_mono /\ stamp_mono <= mono /\ word \in Nat
           /\ StampOff \in Int /\ Drift(StampOff) \in Int
           /\ Sec(wall) \in Nat /\ Sec(currtime) \in Nat /\ Sec(time_last["row"]) \in Nat
  <1>1. time_last["row"] \in Nat
    BY DEF ClTypes, Kind
  <1>2. Sec(wall) \in Nat /\ Sec(currtime) \in Nat /\ Sec(time_last["row"]) \in Nat
    BY <1>1, SecIs DEF ClTypes
  <1> QED BY <1>1, <1>2 DEF ClTypes, StampOff, Drift

\* The next stamp: at most one setting since the last one, and if no row is due by
\* it either, none before.
LEMMA NextStamp ==
    ASSUME ClTypes, OffsetInv, step = "stamp", ~fresh,
           currtime - time_last["row"] <= LOG_INTERVAL, OnceAtMost
    PROVE  LET r == time_last["row"]
           IN  /\ -2 * Limit < Drift(wall - mono) /\ Drift(wall - mono) < Limit + LOG_INTERVAL
               /\ wall - r <= LOG_INTERVAL =>
                    /\ Sec(wall) = Sec(r) => Drift(wall - mono) >= 0
                    /\ Drift(wall - mono) > -Limit
  <1> DEFINE r == time_last["row"]
             o == StampOff
             v == wall - mono
  <1>1. /\ r \in Nat /\ r <= currtime /\ currtime <= wall /\ currtime \in Nat /\ wall \in Nat
        /\ o \in Int /\ v \in Int /\ v - o < Limit /\ o - v < Limit
        /\ Drift(o) = o - (r - last_mono) /\ Drift(v) = v - (r - last_mono)
        /\ last_mono \in Nat
        /\ v = o \/ Sec(wall) > Sec(currtime)
    <2>1. seen = v /\ Abs(seen - o) < Limit /\ (v = o \/ Sec(wall) > Sec(currtime))
      BY DEF OffsetInv
    <2> QED BY <2>1, ClNumbers, ClConstants DEF OffsetInv, Abs, Drift
  <1>2. Drift(o) <= LOG_INTERVAL /\ Drift(o) > -Limit
    BY ClNumbers, ClConstants DEF OnceAtMost, Drift, StampOff
  <1>3. /\ Sec(wall) \in Nat /\ Sec(currtime) \in Nat /\ Sec(r) \in Nat
        /\ Sec(r) <= Sec(currtime) /\ Sec(currtime) <= Sec(wall)
        /\ wall <= r + Second => Sec(wall) <= Sec(r) + 1
    <2> HIDE DEF r
    <2>1. Sec(wall) \in Nat /\ Sec(currtime) \in Nat /\ Sec(r) \in Nat
      BY <1>1, SecIs
    <2>2. Sec(r) <= Sec(currtime) /\ Sec(currtime) <= Sec(wall)
      BY <1>1, SecMonotone
    <2>3. r <= wall
      BY <1>1
    <2>4. wall <= r + Second => Sec(wall) <= Sec(r) + 1
      BY <1>1, <2>3, SecMonotone
    <2> QED BY <2>1, <2>2, <2>4
  <1>4. Sec(currtime) = Sec(r) => Drift(o) >= 0
    BY DEF OnceAtMost
  <1> HIDE DEF r, o, v
  <1>5. -2 * Limit < Drift(v) /\ Drift(v) < Limit + LOG_INTERVAL
    BY <1>1, <1>2, ClConstants
  <1>6. ASSUME wall - r <= LOG_INTERVAL
        PROVE  (Sec(wall) = Sec(r) => Drift(v) >= 0) /\ Drift(v) > -Limit
    <2>1. CASE v = o
      <3>1. Sec(wall) = Sec(r) => Sec(currtime) = Sec(r)
        BY <1>3
      <3> QED BY <2>1, <3>1, <1>1, <1>2, <1>4
    <2>2. CASE Sec(wall) > Sec(currtime)
      <3>1. Sec(wall) <= Sec(r) + 1
        BY <1>1, <1>3, <1>6, ClConstants
      <3>2. Sec(currtime) = Sec(r) /\ Sec(wall) # Sec(r)
        BY <1>3, <2>2, <3>1
      <3> QED BY <3>2, <1>1, <1>4, ClConstants
    <2> QED BY <1>1, <2>1, <2>2
  <1> QED BY <1>5, <1>6 DEF r, v

LEMMA ClockInvInit == ClocksInit => ClockInv
  <1> SUFFICES ASSUME ClocksInit PROVE ClockInv
    OBVIOUS
  <1>1. ClTypes
    BY ClTypesInit
  <1>2. fresh
    BY DEF ClocksInit
  <1>3. time_last["row"] = wall /\ currtime = wall /\ stamp_mono = mono /\ seen = wall - mono
    BY DEF ClocksInit, Kind
  <1> QED BY <1>2, <1>3, <1>1, ClNumbers DEF ClocksInit, ClockInv, OffsetInv, DriftInv, StampOff

LEMMA ClockInvNext == ClTypes /\ Compared /\ ClockInv /\ [ClocksNext]_clockVars => ClockInv'
  <1> SUFFICES ASSUME ClTypes, Compared, ClockInv, [ClocksNext]_clockVars, meddled' = 0
               PROVE  OffsetInv' /\ DriftInv'
    BY DEF ClockInv
  <1> OffsetInv /\ DriftInv
    <2>1. UNCHANGED meddled \/ meddled' = meddled + 1
      BY DEF ClocksNext, Detect, Stamp, SyncFromGps, WriteRow, WritePoint, TimePasses,
             OthersSetClock, clockVars
    <2>2. meddled' = 0 => meddled = 0
      BY <2>1 DEF ClTypes
    <2> QED BY <2>2 DEF ClockInv
  <1> DEFINE r == time_last["row"]
  <1>0. /\ mono \in Nat /\ wall \in Nat /\ currtime \in Nat /\ stamp_mono \in Nat
        /\ last_mono \in Nat /\ r \in Nat /\ seen \in Int
        /\ last_mono <= stamp_mono /\ stamp_mono <= mono /\ word \in Nat
        /\ StampOff \in Int /\ Drift(StampOff) \in Int
    BY ClNumbers
  <1>1. CASE Detect
    <2>1. /\ step = "detect" /\ step' = "stamp" /\ seen' = wall - mono
          /\ fresh' = (fresh \/ jumped')
          /\ UNCHANGED <<word, mono, wall, currtime, stamp_mono, time_last, last_mono>>
      BY <1>1 DEF Detect, stamped
    <2>2. ~fresh' => ~fresh /\ Abs(seen' - StampOff) < Limit
      <3>1. ~fresh' => ~jumped' /\ ~fresh
        BY <2>1
      <3>2. seen = StampOff
        BY <2>1 DEF OffsetInv
      <3> QED BY <1>1, <2>1, <3>1, <3>2, Verdict DEF Limit
    <2>3. OffsetInv'
      BY <2>1, <2>2 DEF OffsetInv, StampOff, Sec
    <2>4. DriftInv'
      BY <2>1, <2>2 DEF DriftInv, OnceAtMost, Drift, StampOff, Sec
    <2> QED BY <2>3, <2>4
  <1>2. CASE Stamp
    <2>1. /\ step = "stamp" /\ step' = "sync" /\ currtime' = wall /\ stamp_mono' = mono
          /\ UNCHANGED <<word, mono, wall, seen, fresh, time_last, last_mono>>
      BY <1>2 DEF Stamp, compared, written
    <2>2. StampOff' = wall - mono /\ \A o : Drift(o)' = Drift(o)
      BY <2>1 DEF StampOff, Drift
    <2>3. OffsetInv'
      <3>1. r <= wall
        BY <1>0 DEF OffsetInv
      <3>2. seen = wall - mono
        BY <2>1 DEF OffsetInv
      <3> QED BY <1>0, <2>1, <2>2, <3>1, <3>2 DEF OffsetInv
    <2>4. ASSUME ~fresh, wall - r < word
          PROVE  /\ -2 * Limit < Drift(wall - mono) /\ Drift(wall - mono) < Limit + LOG_INTERVAL
                 /\ wall - r <= LOG_INTERVAL =>
                      /\ Sec(wall) = Sec(r) => Drift(wall - mono) >= 0
                      /\ Drift(wall - mono) > -Limit
      <3>1. currtime - r < word
        BY <1>0, <2>4 DEF OffsetInv
      <3>2. currtime - r <= LOG_INTERVAL /\ OnceAtMost
        BY <2>1, <2>4, <3>1 DEF DriftInv
      <3> QED BY <2>1, <2>4, <3>2, NextStamp
    <2>5. DriftInv'
      <3> SUFFICES ASSUME ~fresh, wall - r < word
                   PROVE  /\ -2 * Limit < Drift(wall - mono)
                          /\ Drift(wall - mono) < Limit + LOG_INTERVAL
                          /\ wall - r <= LOG_INTERVAL => OnceAtMost'
        BY <2>1, <2>2 DEF DriftInv, Limit, Drift
      <3>1. OnceAtMost' <=> /\ Sec(wall) = Sec(r) => Drift(wall - mono) >= 0
                            /\ Drift(wall - mono) > -Limit
        BY <2>1, <2>2 DEF OnceAtMost, Drift, Sec, Limit
      <3> QED BY <2>4, <3>1
    <2> QED BY <2>3, <2>5
  <1>3. CASE SyncFromGps
    <2>1. /\ step = "sync" /\ step' = "row"
          /\ UNCHANGED <<word, mono, currtime, stamp_mono, seen, fresh, time_last, last_mono>>
      BY <1>3 DEF SyncFromGps, KeepStamp, stamped, compared, written
    <2>2. DriftInv'
      BY <2>1 DEF DriftInv, OnceAtMost, Drift, StampOff, Sec, Limit
    <2>3. seen = StampOff /\ seen = wall - mono
      BY <2>1 DEF OffsetInv
    <2>4. ASSUME UNCHANGED wall PROVE OffsetInv'
      <3>1. StampOff' = StampOff
        BY <2>1 DEF StampOff
      <3>2. wall' - mono' = StampOff' /\ seen' = StampOff'
        BY <2>1, <2>3, <2>4, <3>1
      <3>3. r <= currtime /\ currtime <= wall
        BY DEF OffsetInv
      <3> QED BY <2>1, <2>4, <3>2, <3>3 DEF OffsetInv
    <2>5. ASSUME NEW gpstime \in GpsSeconds, NEW frac \in 0 .. Second - 1,
                 ClockBehind(gpstime), wall' = gpstime * Second + frac
          PROVE  OffsetInv'
      <3>1. gpstime \in Nat /\ frac \in Nat
        BY ClocksAssumption
      <3>2. Sec(gpstime * Second + frac) = gpstime
        BY <3>1, SecOf
      <3>3. wall' \in Nat
        <4>1. gpstime * Second \in Nat
          BY <3>1, ClConstants
        <4> QED BY <2>5, <3>1, <4>1
      <3>4. Sec(wall)' > Sec(currtime)
        BY <2>5, <3>2 DEF Sec, ClockBehind
      <3>5. currtime <= wall'
        <4> SUFFICES ASSUME wall' <= currtime PROVE FALSE
          BY <1>0, <3>3
        <4>1. \A x \in Nat : x <= currtime => Sec(x) <= Sec(currtime) /\ Sec(x) \in Nat
          BY <1>0, SecIs, SecMonotone
        <4>2. Sec(wall') = Sec(wall)'
          BY DEF Sec
        <4>3. Sec(wall') <= Sec(currtime) /\ Sec(wall') \in Nat /\ Sec(currtime) \in Nat
          BY <1>0, <3>3, <4>1
        <4> QED BY <3>4, <4>2, <4>3
      <3> QED BY <2>1, <2>3, <3>4, <3>5, <1>0 DEF OffsetInv, StampOff, Sec
    <2>6. OffsetInv'
      BY <1>3, <2>4, <2>5 DEF SyncFromGps
    <2> QED BY <2>2, <2>6
  <1>4. CASE WriteRow
    <2>1. /\ step = "row" /\ step' = "point"
          /\ UNCHANGED <<word, mono, wall, currtime, stamp_mono, seen>>
      BY <1>4 DEF WriteRow, stamped, compared
    <2>2. CASE Due("row")
      <3>1. time_last'["row"] = currtime /\ last_mono' = stamp_mono /\ ~fresh'
        BY <1>4, <2>2 DEF WriteRow, Write, ClTypes, Kind
      <3>2. Drift(StampOff)' = 0
        BY <2>1, <3>1, <1>0 DEF Drift, StampOff
      <3>3. OffsetInv'
        BY <2>1, <3>1, <1>0 DEF OffsetInv, StampOff, Sec
      <3>4. OnceAtMost'
        BY <3>2, ClConstants DEF OnceAtMost, Limit
      <3> QED BY <2>1, <3>1, <3>3, <3>4, <1>0, ClConstants DEF DriftInv
    <2>3. CASE ~Due("row")
      <3>1. UNCHANGED <<time_last, last_mono, fresh>>
        BY <1>4, <2>3 DEF WriteRow, written
      <3>2. OffsetInv'
        BY <2>1, <3>1 DEF OffsetInv, StampOff, Sec
      <3>3. ASSUME ~fresh, currtime - r < word PROVE currtime - r <= LOG_INTERVAL
        <4>1. Elapsed(r) = currtime - r
          BY <1>0, <3>3, ElapsedIs DEF OffsetInv, ClTypes
        <4>2. ~(Elapsed(r) > LOG_INTERVAL)
          BY <2>3 DEF Due, Interval, Kind
        <4> QED BY <4>1, <4>2, <1>0, ClConstants
      <3>4. DriftInv'
        BY <2>1, <3>1, <3>3 DEF DriftInv, OnceAtMost, Drift, StampOff, Sec, Limit
      <3> QED BY <3>2, <3>4
    <2> QED BY <2>2, <2>3
  <1>5. CASE WritePoint
    <2>1. /\ step = "point" /\ step' = "detect"
          /\ UNCHANGED <<word, mono, wall, currtime, stamp_mono, seen, last_mono, fresh>>
      BY <1>5 DEF WritePoint, stamped, compared, written
    <2>2. time_last'["row"] = r
      BY <1>5 DEF WritePoint, Write, written, ClTypes, Kind
    <2>3. OffsetInv'
      BY <2>1, <2>2 DEF OffsetInv, StampOff, Sec
    <2>4. DriftInv'
      BY <2>1, <2>2 DEF DriftInv, OnceAtMost, Drift, StampOff, Sec, Limit
    <2> QED BY <2>3, <2>4
  <1>6. CASE TimePasses
    <2>1. /\ mono' = mono + 1 /\ wall' = wall + 1
          /\ UNCHANGED <<step, word, seen, currtime, stamp_mono, time_last, last_mono, fresh>>
      BY <1>6 DEF TimePasses, compared, stamped, written
    <2>2. Sec(wall)' >= Sec(wall) /\ Sec(wall) \in Nat /\ Sec(wall)' \in Nat
              /\ Sec(currtime) \in Nat
      <3>1. Sec(wall)' = Sec(wall + 1)
        BY <2>1 DEF Sec
      <3>2. wall + 1 \in Nat /\ wall <= wall + 1
        BY <1>0
      <3>3. Sec(wall) <= Sec(wall + 1) /\ Sec(wall) \in Nat /\ Sec(wall + 1) \in Nat
        BY <1>0, <3>2, SecIs, SecMonotone
      <3> QED BY <3>1, <3>3, <1>0, SecIs
    <2>3. Sec(currtime)' = Sec(currtime) /\ StampOff' = StampOff
      BY <2>1 DEF Sec, StampOff
    <2>4. wall' - mono' = wall - mono /\ r <= currtime /\ currtime <= wall'
      BY <1>0, <2>1 DEF OffsetInv
    <2>5. OffsetInv'
      <3>1. step # "sync" => wall' - mono' = StampOff' \/ Sec(wall)' > Sec(currtime)'
        <4>1. step # "sync" => wall - mono = StampOff \/ Sec(wall) > Sec(currtime)
          BY DEF OffsetInv
        <4> QED BY <4>1, <2>2, <2>3, <2>4
      <3> QED BY <2>1, <2>3, <2>4, <3>1 DEF OffsetInv, Limit
    <2>6. DriftInv'
      BY <2>1 DEF DriftInv, OnceAtMost, Drift, StampOff, Sec, Limit
    <2> QED BY <2>5, <2>6
  <1>7. CASE OthersSetClock
    BY <1>7 DEF OthersSetClock, ClTypes
  <1>8. CASE UNCHANGED clockVars
    <2>1. UNCHANGED <<step, word, mono, wall, seen, currtime, stamp_mono, time_last,
                      last_mono, fresh>>
      BY <1>8 DEF clockVars, compared, stamped, written
    <2> QED BY <2>1 DEF OffsetInv, DriftInv, OnceAtMost, Drift, StampOff, Sec, Limit
  <1> QED BY <1>1, <1>2, <1>3, <1>4, <1>5, <1>6, <1>7, <1>8 DEF ClocksNext

\* Unless others set the clock or time_t is too narrow, two successive rows of one
\* log have no more between them than one jump forward or two back that go
\* undetected (main.cpp:495-505, 957-993; NoJumpWithinLog).
THEOREM LogsWithoutJump == ClocksSpec => NoJumpWithinLog
  <1> DEFINE Small ==
        time_last'["row"] # time_last["row"] /\ ~fresh /\ meddled = 0
            /\ currtime - time_last["row"] < word =>
          LET moved == (currtime - stamp_mono) - (time_last["row"] - last_mono)
              limit == (TIME_JUMP_DETECT + 2) * Second
          IN  -2 * limit < moved /\ moved < limit + LOG_INTERVAL
  <1>1. ClTypes /\ ClockInv /\ [ClocksNext]_clockVars => [Small]_clockVars
    <2> SUFFICES ASSUME ClTypes, ClockInv, ClocksNext, time_last'["row"] # time_last["row"],
                        ~fresh, meddled = 0, currtime - time_last["row"] < word
                 PROVE  Small
      OBVIOUS
    <2>1. ~UNCHANGED time_last
      OBVIOUS
    <2>2. ~WritePoint
      BY DEF WritePoint, Write, written, ClTypes, Kind
    <2>3. step = "row"
      BY <2>1, <2>2 DEF ClocksNext, Detect, Stamp, SyncFromGps, WriteRow, TimePasses,
                   OthersSetClock, written
    <2>4. -2 * Limit < Drift(StampOff) /\ Drift(StampOff) < Limit + LOG_INTERVAL
      BY <2>3 DEF ClockInv, DriftInv
    <2> QED BY <2>4 DEF Drift, StampOff, Limit
  <1>2. ClTypes /\ Compared /\ ClockInv /\ [ClocksNext]_clockVars
          => (ClTypes /\ Compared /\ ClockInv)'
    BY ClTypesNext, ComparedNext, ClockInvNext
  <1>3. ClocksInit => ClTypes /\ Compared /\ ClockInv
    BY ClTypesInit, ComparedInit, ClockInvInit
  <1> QED BY <1>1, <1>2, <1>3, PTL DEF ClocksSpec, NoJumpWithinLog

\* Unless others set the clock or time_t is too narrow, no pass leaves a log without
\* a row for longer, in true time, than an interval and one setting back that goes
\* undetected: once a pass wrote none, OnceAtMost bounds how far the clock has been
\* set back since the last one (main.cpp:495-505, 957-993; SilenceBounded).
THEOREM SilenceEnds == ClocksSpec => []SilenceBounded
  <1>1. ClTypes /\ ClockInv => SilenceBounded
    <2> SUFFICES ASSUME ClTypes, ClockInv, step = "point", ~fresh, meddled = 0,
                        currtime - time_last["row"] < word
                 PROVE  stamp_mono - last_mono < LOG_INTERVAL + Limit
      BY DEF SilenceBounded, Limit
    <2>1. currtime - time_last["row"] <= LOG_INTERVAL /\ Drift(StampOff) > -Limit
      BY DEF ClockInv, DriftInv, OnceAtMost
    <2>2. Drift(StampOff) = (currtime - stamp_mono) - (time_last["row"] - last_mono)
      BY DEF Drift, StampOff
    <2> QED BY <2>1, <2>2, ClNumbers, ClConstants
  <1>2. ClTypes /\ Compared /\ ClockInv /\ [ClocksNext]_clockVars
          => (ClTypes /\ Compared /\ ClockInv)'
    BY ClTypesNext, ComparedNext, ClockInvNext
  <1>3. ClocksInit => ClTypes /\ Compared /\ ClockInv
    BY ClTypesInit, ComparedInit, ClockInvInit
  <1> QED BY <1>1, <1>2, <1>3, PTL DEF ClocksSpec
----------------------------------------------------------------------------
(* Names.                                                                  *)

ScanState == [base : Nat, ext : Nat]

\* One character more of the scan.
ScanStep(p, n) ==
    IF path[n] = "/" THEN AtSlash(p, n) ELSE IF path[n] = "." THEN AtDot(p, n) ELSE p

\* A dot that no component begins with.
Inner(i) == path[i] = "." /\ i > 1 /\ path[i - 1] # "/"

\* What the scan knows of the first n characters: where their last component begins
\* and its first inner dot.
Known(p, n) ==
    /\ p \in ScanState /\ p.base \in 1 .. n + 1
    /\ p.base = 1 \/ path[p.base - 1] = "/"
    /\ \A j \in p.base .. n : path[j] # "/"
    /\ p.ext = 0 => \A i \in p.base .. n : ~Inner(i)
    /\ p.ext # 0 => /\ p.ext \in p.base .. n /\ Inner(p.ext)
                    /\ \A i \in p.base .. p.ext - 1 : ~Inner(i)

LEMMA KnownNext ==
    ASSUME path \in Seq(Char), NEW n \in 1 .. Len(path), NEW p, Known(p, n - 1)
    PROVE  Known(ScanStep(p, n), n)
  <1> DEFINE s == ScanStep(p, n)
  <1>1. n \in Nat /\ n >= 1 /\ n - 1 \in Nat /\ path[n] \in Char
    OBVIOUS
  <1>2. /\ p \in ScanState /\ p.base \in Nat /\ p.ext \in Nat /\ p.base >= 1 /\ p.base <= n
        /\ p.base = 1 \/ path[p.base - 1] = "/"
        /\ \A j \in p.base .. n - 1 : path[j] # "/"
        /\ p.ext = 0 => \A i \in p.base .. n - 1 : ~Inner(i)
        /\ p.ext # 0 => /\ p.ext >= p.base /\ p.ext <= n - 1 /\ Inner(p.ext)
                        /\ \A i \in p.base .. p.ext - 1 : ~Inner(i)
    BY <1>1 DEF Known, ScanState
  <1>3. CASE path[n] = "/"
    <2>1. s = [base |-> n + 1, ext |-> 0]
      BY <1>3 DEF ScanStep, AtSlash
    <2>2. s \in ScanState /\ s.base = n + 1 /\ s.ext = 0
      BY <1>1, <2>1 DEF ScanState
    <2>3. (n + 1) - 1 = n /\ (n + 1) \in 1 .. n + 1 /\ \A j \in n + 1 .. n : FALSE
      BY <1>1
    <2> HIDE DEF s
    <2>4. path[s.base - 1] = "/" /\ s.base \in 1 .. n + 1
      BY <1>3, <2>2, <2>3
    <2>5. /\ \A j \in s.base .. n : path[j] # "/"
          /\ \A i \in s.base .. n : ~Inner(i)
      BY <2>2, <2>3
    <2>6. Known(s, n)
      BY <2>2, <2>4, <2>5, Zenon DEF Known
    <2> QED BY <2>6 DEF s
  <1>4. ASSUME path[n] # "/", ~(path[n] = "." /\ n > 1 /\ path[n - 1] # "/" /\ p.ext = 0)
        PROVE  Known(s, n)
    <2>1. s = p
      BY <1>4, Zenon DEF ScanStep, AtDot
    <2>2. \A j \in p.base .. n : j \in p.base .. n - 1 \/ j = n
      BY <1>1, <1>2
    <2>3. \A j \in p.base .. n : path[j] # "/"
      BY <1>2, <1>4, <2>2
    <2>4. p.ext = 0 => \A i \in p.base .. n : ~Inner(i)
      BY <1>2, <1>4, <2>2, Zenon DEF Inner
    <2>5. p.ext # 0 => p.ext \in p.base .. n
      BY <1>1, <1>2
    <2>6. p.base \in 1 .. n + 1
      BY <1>1, <1>2
    <2>7. Known(p, n)
      BY <1>2, <2>3, <2>4, <2>5, <2>6, Zenon DEF Known
    <2> QED BY <2>1, <2>7
  <1>5. ASSUME path[n] = ".", n > 1, path[n - 1] # "/", p.ext = 0
        PROVE  Known(s, n)
    <2>1. s = [p EXCEPT !.ext = n]
      BY <1>5 DEF ScanStep, AtDot
    <2>2. s \in ScanState /\ s.base = p.base /\ s.ext = n
      BY <1>1, <1>2, <2>1 DEF ScanState
    <2>3. \A j \in p.base .. n : j \in p.base .. n - 1 \/ j = n
      BY <1>1, <1>2
    <2>4. \A j \in p.base .. n : path[j] # "/"
      BY <1>2, <1>5, <2>3
    <2>5. Inner(n) /\ \A i \in p.base .. n - 1 : ~Inner(i)
      BY <1>2, <1>5 DEF Inner
    <2>6. p.base \in 1 .. n + 1 /\ n \in p.base .. n /\ n # 0
      BY <1>1, <1>2
    <2> HIDE DEF s
    <2>7. Known(s, n)
      BY <1>2, <2>2, <2>4, <2>5, <2>6, Zenon DEF Known
    <2> QED BY <2>7 DEF s
  <1> QED BY <1>3, <1>4, <1>5

LEMMA ScanKnows ==
    ASSUME path \in Seq(Char)
    PROVE  Known(prep_path_insert, Len(path))
  <1> DEFINE len == Len(path)
             start == [base |-> 1, ext |-> 0]
             next == [k \in 1 .. len |-> [p \in ScanState |-> ScanStep(p, k)]]
             IsScan(scan) == scan = [n \in 0 .. len |->
                                CASE n = 0           -> [base |-> 1, ext |-> 0]
                                  [] n > 0 /\ path[n] = "/" -> AtSlash(scan[n - 1], n)
                                  [] n > 0 /\ path[n] = "." -> AtDot(scan[n - 1], n)
                                  [] OTHER           -> scan[n - 1]]
             result == CHOOSE scan : IsScan(scan)
  <1>1. len \in Nat
    OBVIOUS
  <1>2. next \in [1 .. len -> [ScanState -> ScanState]]
    <2>1. ASSUME NEW k \in 1 .. len, NEW p \in ScanState PROVE ScanStep(p, k) \in ScanState
      <3>1. k \in Nat /\ k + 1 \in Nat
        OBVIOUS
      <3> QED BY <3>1 DEF ScanStep, AtSlash, AtDot, ScanState
    <2> HIDE DEF len
    <2> QED BY <2>1
  <1>3. PICK g \in [0 .. len -> ScanState] :
          g[0] = start /\ \A k \in 1 .. len : g[k] = next[k][g[k - 1]]
    <2>1. start \in ScanState
      BY DEF ScanState
    <2>2. Recursion(len, ScanState, start, next)
      <3> HIDE DEF len, next, start
      <3> QED BY <1>1, <1>2, <2>1 DEF Recursion
    <2> HIDE DEF len, next, start
    <2>3. PICK g : Solves(g, len, ScanState, start, next)
      BY <2>2, RecursionUpTo
    <2> QED BY <2>3 DEF Solves
  <1>4. \A k \in 1 .. len : g[k] = ScanStep(g[k - 1], k)
    <2> SUFFICES ASSUME NEW k \in 1 .. len PROVE g[k] = ScanStep(g[k - 1], k)
      OBVIOUS
    <2>1. k - 1 \in 0 .. len
      BY <1>1
    <2>2. g[k - 1] \in ScanState
      BY <2>1
    <2> HIDE DEF len
    <2> QED BY <1>3, <2>2
  <1>5. \A f, n : n \in 0 .. len =>
          (CASE n = 0           -> [base |-> 1, ext |-> 0]
             [] n > 0 /\ path[n] = "/" -> AtSlash(f[n - 1], n)
             [] n > 0 /\ path[n] = "." -> AtDot(f[n - 1], n)
             [] OTHER           -> f[n - 1]) = IF n = 0 THEN start ELSE ScanStep(f[n - 1], n)
    <2> SUFFICES ASSUME NEW f, NEW n \in 0 .. len
                 PROVE  (CASE n = 0           -> [base |-> 1, ext |-> 0]
                           [] n > 0 /\ path[n] = "/" -> AtSlash(f[n - 1], n)
                           [] n > 0 /\ path[n] = "." -> AtDot(f[n - 1], n)
                           [] OTHER           -> f[n - 1])
                          = IF n = 0 THEN start ELSE ScanStep(f[n - 1], n)
      OBVIOUS
    <2>1. n = 0 \/ (n > 0 /\ n # 0)
      BY <1>1
    <2>2. n > 0 => n # 0
      BY <1>1
    <2>3. "/" # "."
      OBVIOUS
    <2> HIDE DEF len
    <2>4. CASE n = 0
      BY <2>2, <2>4, Zenon
    <2>5. CASE n # 0 /\ path[n] = "/"
      BY <2>1, <2>3, <2>5, Zenon DEF ScanStep
    <2>6. CASE n # 0 /\ path[n] # "/" /\ path[n] = "."
      BY <2>1, <2>3, <2>6, Zenon DEF ScanStep
    <2>7. CASE n # 0 /\ path[n] # "/" /\ path[n] # "."
      BY <2>1, <2>7, Zenon DEF ScanStep
    <2> QED BY <2>4, <2>5, <2>6, <2>7, Zenon
  <1>6. IsScan(g)
    <2>1. g = [k \in 0 .. len |-> g[k]]
      OBVIOUS
    <2>2. \A k \in 0 .. len : g[k] = IF k = 0 THEN start ELSE ScanStep(g[k - 1], k)
      <3> HIDE DEF len, next
      <3>1. \A k \in 0 .. len : k = 0 \/ k \in 1 .. len
        BY <1>1
      <3> QED BY <1>3, <1>4, <3>1, Zenon
    <2> HIDE DEF len
    <2> QED BY <1>5, <2>1, <2>2, ZenonT(30)
  <1>7. IsScan(result)
    <2> HIDE DEF IsScan
    <2> QED BY <1>6
  <1>8. \A k \in 0 .. len : result[k] = IF k = 0 THEN start ELSE ScanStep(result[k - 1], k)
    <2> HIDE DEF len, result
    <2>1. \A n \in 0 .. len : result[n] =
            CASE n = 0           -> [base |-> 1, ext |-> 0]
              [] n > 0 /\ path[n] = "/" -> AtSlash(result[n - 1], n)
              [] n > 0 /\ path[n] = "." -> AtDot(result[n - 1], n)
              [] OTHER           -> result[n - 1]
      BY <1>7, Zenon
    <2> QED BY <1>5, <2>1, Zenon
  <1>9. prep_path_insert = result[len]
    BY DEF prep_path_insert
  <1> HIDE DEF result
  <1> DEFINE S == {k \in 0 .. len : Known(result[k], k)}
  <1>10. 0 \in S
    <2>1. result[0] = start /\ 0 \in 0 .. len
      BY <1>1, <1>8
    <2>2. Known(start, 0)
      <3>1. start \in ScanState /\ start.base = 1 /\ start.ext = 0
        BY DEF ScanState
      <3>2. \A j \in 1 .. 0 : FALSE
        OBVIOUS
      <3>3. 1 \in 1 .. 0 + 1
        OBVIOUS
      <3> HIDE DEF start
      <3> QED BY <3>1, <3>2, <3>3, Zenon DEF Known
    <2> QED BY <2>1, <2>2
  <1>11. \A k \in 0 .. len - 1 : k \in S => k + 1 \in S
    <2> SUFFICES ASSUME NEW k \in 0 .. len - 1, Known(result[k], k)
                 PROVE  k + 1 \in 0 .. len /\ Known(result[k + 1], k + 1)
      OBVIOUS
    <2>1. k + 1 \in 1 .. len /\ (k + 1) - 1 = k /\ k + 1 \in 0 .. len /\ k + 1 # 0
      BY <1>1
    <2>2. result[k + 1] = ScanStep(result[k], k + 1)
      <3> HIDE DEF len
      <3>1. result[k + 1] = ScanStep(result[(k + 1) - 1], k + 1)
        BY <1>8, <2>1, Zenon
      <3> QED BY <2>1, <3>1
    <2>3. \A n \in 1 .. Len(path) : \A p : Known(p, n - 1) => Known(ScanStep(p, n), n)
      BY KnownNext
    <2>4. Known(ScanStep(result[k], k + 1), k + 1)
      <3> HIDE DEF Known, ScanStep
      <3> QED BY <2>1, <2>3
    <2> QED BY <2>1, <2>2, <2>4
  <1>12. 0 .. len \subseteq S
    <2> HIDE DEF S, len
    <2> QED BY <1>1, <1>10, <1>11, InductionUpTo
  <1>13. len \in 0 .. len
    BY <1>1
  <1> QED BY <1>9, <1>12, <1>13

\* Where a scan that knows the whole path has the text put in.
LEMMA KnownSplits ==
    ASSUME path \in Seq(Char), NEW p, Known(p, Len(path))
    PROVE  \E k \in 0 .. Len(path) :
             /\ copyout(p) = SubSeq(path, 1, k) \o <<"#">> \o SubSeq(path, k + 1, Len(path))
             /\ \A j \in k + 1 .. Len(path) : path[j] # "/"
             /\ k < Len(path) => Inner(k + 1)
             /\ \A i \in 1 .. k : (\A j \in i .. k : path[j] # "/") => ~Inner(i)
  <1> DEFINE len == Len(path)
             b == p.base
             e == p.ext
             k == IF e >= b THEN e - 1 ELSE len
  <1>1. len \in Nat /\ copyout(p) = SubSeq(path, 1, k) \o <<"#">> \o SubSeq(path, k + 1, len)
    BY DEF copyout
  <1>2. /\ b \in Nat /\ e \in Nat /\ b >= 1 /\ b <= len + 1
        /\ b = 1 \/ path[b - 1] = "/"
        /\ \A j \in b .. len : path[j] # "/"
        /\ e = 0 => \A i \in b .. len : ~Inner(i)
        /\ e # 0 => /\ e >= b /\ e <= len /\ Inner(e)
                    /\ \A i \in b .. e - 1 : ~Inner(i)
    BY <1>1 DEF Known, ScanState
  <1> HIDE DEF len, b, e
  <1>3. k \in 0 .. len /\ k + 1 >= b /\ (k < len => k + 1 = e)
    BY <1>1, <1>2
  <1>4. \A i \in b .. k : ~Inner(i)
    <2>1. CASE e = 0
      <3>1. k = len
        BY <1>2, <2>1
      <3> QED BY <1>2, <2>1, <3>1
    <2>2. CASE e # 0
      <3>1. k = e - 1
        BY <1>2, <2>2
      <3> QED BY <1>2, <2>2, <3>1
    <2> QED BY <2>1, <2>2
  <1>5. k < len => Inner(k + 1)
    <2> SUFFICES ASSUME k < len PROVE Inner(k + 1)
      OBVIOUS
    <2>1. k + 1 = e /\ e # 0
      BY <1>1, <1>3
    <2> QED BY <1>2, <2>1
  <1> HIDE DEF k
  <1>6. ASSUME NEW j \in k + 1 .. len PROVE path[j] # "/"
    <2>1. j \in b .. len
      BY <1>1, <1>2, <1>3
    <2> QED BY <1>2, <2>1
  <1>7. ASSUME NEW i \in 1 .. k, \A j \in i .. k : path[j] # "/" PROVE ~Inner(i)
    <2>1. CASE i >= b
      <3>1. i \in b .. k
        BY <1>1, <1>2, <1>3, <2>1
      <3> QED BY <1>4, <3>1
    <2>2. CASE i < b
      <3>1. b - 1 \in i .. k /\ b # 1
        BY <1>1, <1>2, <1>3, <2>2
      <3> QED BY <1>2, <1>7, <3>1
    <2> QED BY <1>1, <1>2, <1>3, <2>1, <2>2
  <1> QED BY <1>1, <1>3, <1>5, <1>6, <1>7 DEF len

PathTypes == path \in Seq(Char) /\ (name # <<>> => name = copyout(prep_path_insert))

\* The text goes into the last component of a path, whatever it looks like, between
\* its stem and its first extension (prep_path_insert(), copyout();
\* InsertKeepsParts).
THEOREM PartsKept == PathSpec => []InsertKeepsParts
  <1>1. PathInit => PathTypes
    <2> SUFFICES ASSUME PathInit PROVE path \in Seq(Char) /\ name = <<>>
      BY DEF PathTypes
    <2>1. PICK m \in 0 .. MaxPath : path \in [1 .. m -> Char]
      BY DEF PathInit, BoundedSeq, SeqOf
    <2>2. m \in Nat
      BY PathAssumption
    <2> QED BY <2>1, <2>2 DEF PathInit
  <1>2. PathTypes /\ [Insert]_pathVars => PathTypes'
    <2> SUFFICES ASSUME PathTypes, [Insert]_pathVars PROVE PathTypes'
      OBVIOUS
    <2>1. path' = path
      BY DEF Insert, pathVars
    <2>2. copyout(prep_path_insert)' = copyout(prep_path_insert)
      BY <2>1 DEF copyout, prep_path_insert, AtSlash, AtDot
    <2>3. name' # <<>> => name' = copyout(prep_path_insert)
      BY DEF PathTypes, Insert, pathVars
    <2> QED BY <2>1, <2>2, <2>3 DEF PathTypes
  <1>3. PathTypes => InsertKeepsParts
    <2> SUFFICES ASSUME path \in Seq(Char), name = copyout(prep_path_insert)
                 PROVE  \E k \in 0 .. Len(path) :
                          LET stem == SubSeq(path, 1, k)
                              rest == SubSeq(path, k + 1, Len(path))
                              dots == {i \in 1 .. k : path[i] = "."
                                                        /\ \A j \in i .. k : path[j] # "/"}
                          IN  /\ name = stem \o <<"#">> \o rest
                              /\ ~ Contains(rest, "/")
                              /\ rest # <<>> => rest[1] = "." /\ k > 0 /\ path[k] # "/"
                              /\ \A i \in dots : i = 1 \/ path[i - 1] = "/"
      BY DEF PathTypes, InsertKeepsParts
    <2> DEFINE p == prep_path_insert
    <2>1. Known(p, Len(path))
      BY ScanKnows
    <2> HIDE DEF p
    <2>2. PICK k \in 0 .. Len(path) :
             /\ copyout(p) = SubSeq(path, 1, k) \o <<"#">> \o SubSeq(path, k + 1, Len(path))
             /\ \A j \in k + 1 .. Len(path) : path[j] # "/"
             /\ k < Len(path) => Inner(k + 1)
             /\ \A i \in 1 .. k : (\A j \in i .. k : path[j] # "/") => ~Inner(i)
      BY <2>1, KnownSplits
    <2> DEFINE len == Len(path)
               rest == SubSeq(path, k + 1, len)
               dots == {i \in 1 .. k : path[i] = "." /\ \A j \in i .. k : path[j] # "/"}
    <2>3. len \in Nat /\ k \in 0 .. len
      OBVIOUS
    <2>4. /\ Len(rest) = len - k /\ \A i \in 1 .. len - k : rest[i] = path[k + i]
          /\ rest \in Seq(Char)
      BY <2>3
    <2> HIDE DEF rest, len
    <2>5. ~Contains(rest, "/")
      <3> SUFFICES ASSUME NEW i \in 1 .. len - k PROVE rest[i] # "/"
        BY <2>4 DEF Contains
      <3>1. k + i \in k + 1 .. len
        BY <2>3
      <3> QED BY <2>2, <2>4, <3>1 DEF len
    <2>6. ASSUME rest # <<>> PROVE rest[1] = "." /\ k > 0 /\ path[k] # "/"
      <3>1. k < len
        <4>1. Len(rest) # 0
          BY <2>4, <2>6
        <4> QED BY <2>3, <2>4, <4>1
      <3>2. Inner(k + 1)
        BY <2>2, <3>1 DEF len
      <3>3. rest[1] = path[k + 1] /\ (k + 1) - 1 = k
        BY <2>3, <2>4, <3>1
      <3>4. path[k + 1] = "." /\ k + 1 > 1 /\ path[(k + 1) - 1] # "/"
        BY <3>2 DEF Inner
      <3> QED BY <2>3, <3>3, <3>4
    <2>7. ASSUME NEW i \in dots PROVE i = 1 \/ path[i - 1] = "/"
      <3>1. ~Inner(i) /\ path[i] = "." /\ i \in 1 .. k
        BY <2>2
      <3>2. i > 1 \/ i = 1
        BY <2>3, <3>1
      <3> QED BY <3>1, <3>2 DEF Inner
    <2> QED BY <2>2, <2>5, <2>6, <2>7 DEF rest, len, p
  <1> QED BY <1>1, <1>2, <1>3, PTL DEF PathSpec
=============================================================================

--------------------------- MODULE OperatorProofs ---------------------------
(***************************************************************************)
(* Lemmas about the operators several modules are built from.  Numbers:    *)
(* least and largest, recursion up to a bound, division.  Conversions:     *)
(* bits and numbers, what encoding and decoding lose.  Signals: what       *)
(* packing and unpacking preserve, for every layout whose signals lie      *)
(* apart.                                                                  *)
(***************************************************************************)
EXTENDS Conversions, Signals, FiniteSetsExt, WellFoundedInduction, TLAPS

\* Sets of natural numbers.
LEMMA NatsHaveLeast ==
    ASSUME NEW S \in SUBSET Nat, S # {}
    PROVE  \E x \in S : \A y \in S : x <= y
  <1> DEFINE below == {ss \in Nat \X Nat : ss[1] < ss[2]}
  <1>1. below = OpToRel(<, Nat)
    BY Zenon DEF OpToRel
  <1>2. IsWellFoundedOn(below, Nat)
    BY <1>1, NatLessThanWellFounded, Zenon
  <1>3. \E x \in S : \A y \in S : <<y, x>> \notin below
    <2> HIDE DEF below
    <2> QED BY <1>2, WFMin
  <1>4. \A x, y \in Nat : <<y, x>> \notin below => x <= y
    <2> SUFFICES ASSUME NEW x \in Nat, NEW y \in Nat, ~(x <= y) PROVE <<y, x>> \in below
      OBVIOUS
    <2>1. <<y, x>> \in Nat \X Nat /\ <<y, x>>[1] < <<y, x>>[2]
      OBVIOUS
    <2> QED BY <2>1
  <1> HIDE DEF below
  <1> QED BY <1>3, <1>4

\* A set of numbers up to n has a largest one.
LEMMA HasMax ==
    ASSUME NEW n \in Nat, NEW S \in SUBSET (0 .. n), S # {}
    PROVE  Max(S) \in S /\ \A y \in S : y <= Max(S)
  <1> DEFINE left == {n - y : y \in S}
  <1>1. left \in SUBSET Nat /\ left # {}
    <2>1. \A y \in S : n - y \in Nat
      OBVIOUS
    <2> QED BY <2>1
  <1>2. PICK x \in left : \A y \in left : x <= y
    <2> HIDE DEF left
    <2> QED BY <1>1, NatsHaveLeast
  <1>3. PICK m \in S : x = n - m
    BY <1>2
  <1>4. \A y \in S : m >= y
    <2> SUFFICES ASSUME NEW y \in S PROVE m >= y
      OBVIOUS
    <2>1. n - m <= n - y
      BY <1>2, <1>3
    <2> QED BY <2>1
  <1>5. Max(S) \in S /\ \A y \in S : Max(S) >= y
    BY <1>4 DEF Max
  <1> QED BY <1>5

\* A set that holds 0, and the next number of each of its own, holds all up to n.
LEMMA InductionUpTo ==
    ASSUME NEW n \in Nat, NEW S, 0 \in S, \A k \in 0 .. n - 1 : k \in S => k + 1 \in S
    PROVE  0 .. n \subseteq S
  <1> SUFFICES ASSUME (0 .. n) \ S # {} PROVE FALSE
    OBVIOUS
  <1>1. PICK x \in (0 .. n) \ S : \A y \in (0 .. n) \ S : x <= y
    <2>1. (0 .. n) \ S \in SUBSET Nat
      OBVIOUS
    <2> QED BY <2>1, NatsHaveLeast
  <1>2. x # 0 /\ x - 1 \in 0 .. n - 1
    BY <1>1
  <1>3. x - 1 \notin S
    BY <1>2
  <1> QED BY <1>1, <1>2, <1>3

\* A function may be defined by recursion on its argument, up to n.
Recursion(n, T, base, next) == n \in Nat /\ base \in T /\ next \in [1 .. n -> [T -> T]]
Solves(f, n, T, base, next) ==
    f \in [0 .. n -> T] /\ f[0] = base /\ \A k \in 1 .. n : f[k] = next[k][f[k - 1]]

LEMMA RecursionUpTo ==
    ASSUME NEW n, NEW T, NEW base, NEW next, Recursion(n, T, base, next)
    PROVE  \E f : Solves(f, n, T, base, next)
  <1> USE DEF Recursion
  <1> DEFINE Good(m, f) == f[0] = base /\ \A k \in 1 .. m : f[k] = next[k][f[k - 1]]
             S == {m \in 0 .. n : \E f \in [0 .. m -> T] : Good(m, f)}
  <1>1. 0 \in S
    <2>1. [k \in 0 .. 0 |-> base] \in [0 .. 0 -> T] /\ Good(0, [k \in 0 .. 0 |-> base])
      OBVIOUS
    <2>2. \E f \in [0 .. 0 -> T] : Good(0, f)
      <3> HIDE DEF Good
      <3> QED BY <2>1
    <2>3. 0 \in 0 .. n
      OBVIOUS
    <2> QED BY <2>2, <2>3
  <1>2. ASSUME NEW m \in 0 .. n - 1, m \in S PROVE m + 1 \in S
    <2>1. PICK f \in [0 .. m -> T] : Good(m, f)
      BY <1>2
    <2> DEFINE g == [k \in 0 .. m + 1 |-> IF k = m + 1 THEN next[m + 1][f[m]] ELSE f[k]]
    <2>2. next[m + 1][f[m]] \in T
      OBVIOUS
    <2>3. g \in [0 .. m + 1 -> T]
      BY <2>2
    <2>4. Good(m + 1, g)
      <3>1. g[0] = base
        BY <2>1
      <3>2. ASSUME NEW k \in 1 .. m + 1 PROVE g[k] = next[k][g[k - 1]]
        <4>1. CASE k = m + 1
          BY <4>1
        <4>2. CASE k # m + 1
          <5>1. k \in 1 .. m /\ k - 1 \in 0 .. m + 1 /\ k - 1 # m + 1
            BY <4>2
          <5>2. g[k] = f[k] /\ g[k - 1] = f[k - 1]
            BY <5>1, <4>2
          <5> QED BY <2>1, <5>1, <5>2
        <4> QED BY <4>1, <4>2
      <3> QED BY <3>1, <3>2
    <2>5. m + 1 \in 0 .. n
      OBVIOUS
    <2> QED BY <2>3, <2>4, <2>5
  <1>3. 0 .. n \subseteq S
    <2> HIDE DEF S
    <2> QED BY <1>1, <1>2, InductionUpTo
  <1>4. n \in S
    BY <1>3
  <1> QED BY <1>4 DEF Solves

----------------------------------------------------------------------------
(* Division.                                                               *)

LEMMA DivMod ==
    ASSUME NEW a \in Nat, NEW c \in Nat, c > 0
    PROVE  a = c * (a \div c) + (a % c) /\ a % c \in 0 .. c - 1 /\ a \div c \in Nat
  <1>1. a = c * (a \div c) + (a % c)
    BY Z3
  <1>2. a % c \in 0 .. c - 1
    BY Z3
  <1>3. a \div c \in Nat
    BY Z3
  <1> QED BY <1>1, <1>2, <1>3

LEMMA DivModUnique ==
    ASSUME NEW q \in Nat, NEW r \in Nat, NEW c \in Nat, r < c
    PROVE  (c * q + r) \div c = q /\ (c * q + r) % c = r
  <1> DEFINE a == c * q + r
             p == a \div c
             s == a % c
  <1>1. a \in Nat
    OBVIOUS
  <1>2. a = c * p + s /\ s \in 0 .. c - 1 /\ p \in Nat
    BY <1>1, DivMod
  <1> HIDE DEF p, s
  <1>3. c * (p - q) = r - s
    BY <1>2
  <1>4. ~(p - q >= 1)
    <2> SUFFICES ASSUME p - q >= 1 PROVE FALSE
      OBVIOUS
    <2>1. c * (p - q) >= c
      BY <1>2
    <2> QED BY <2>1, <1>2, <1>3
  <1>5. ~(q - p >= 1)
    <2> SUFFICES ASSUME q - p >= 1 PROVE FALSE
      OBVIOUS
    <2>1. c * (q - p) >= c
      BY <1>2
    <2>2. c * (q - p) = s - r
      BY <1>2
    <2> QED BY <2>1, <1>2, <2>2
  <1>6. p = q
    BY <1>2, <1>4, <1>5
  <1> QED BY <1>6, <1>2, <1>3 DEF p, s
----------------------------------------------------------------------------
(* Numbers and their bits.                                                 *)

Two(k) == 2^k

LEMMA Powers ==
    /\ Two(0) = 1
    /\ \A k \in 0 .. 31 : Two(k) \in Nat \ {0} /\ Two(k + 1) = 2 * Two(k)
  <1>1. /\ Two(0) = 1 /\ Two(1) = 2 /\ Two(2) = 4 /\ Two(3) = 8 /\ Two(4) = 16 /\ Two(5) = 32 /\ Two(6) = 64
        /\ Two(7) = 128 /\ Two(8) = 256 /\ Two(9) = 512 /\ Two(10) = 1024 /\ Two(11) = 2048 /\ Two(12) = 4096
        /\ Two(13) = 8192 /\ Two(14) = 16384 /\ Two(15) = 32768 /\ Two(16) = 65536 /\ Two(17) = 131072
        /\ Two(18) = 262144 /\ Two(19) = 524288 /\ Two(20) = 1048576 /\ Two(21) = 2097152 /\ Two(22) = 4194304
        /\ Two(23) = 8388608 /\ Two(24) = 16777216 /\ Two(25) = 33554432 /\ Two(26) = 67108864
        /\ Two(27) = 134217728 /\ Two(28) = 268435456 /\ Two(29) = 536870912 /\ Two(30) = 1073741824
        /\ Two(31) = 2147483648 /\ Two(32) = 4294967296
    BY DEF Two
  <1>2. ASSUME NEW k \in 0 .. 31
        PROVE  Two(k) \in Nat \ {0} /\ Two(k + 1) = 2 * Two(k)
    <2>1. CASE k \in 0 .. 7
      BY <1>1, <2>1
    <2>2. CASE k \in 8 .. 15
      BY <1>1, <2>2
    <2>3. CASE k \in 16 .. 23
      BY <1>1, <2>3
    <2>4. CASE k \in 24 .. 31
      BY <1>1, <2>4
    <2> QED BY <2>1, <2>2, <2>3, <2>4
  <1> QED BY <1>1, <1>2

\* The next bit of a number, and the number below it.
LEMMA NextBit ==
    ASSUME NEW n \in Nat, NEW c \in Nat, c > 0
    PROVE  n % (2 * c) = (n % c) + (IF (n \div c) % 2 = 1 THEN c ELSE 0)
  <1> DEFINE q == n \div c
             r == n % c
             h == q \div 2
             b == q % 2
  <1>1. n = c * q + r /\ r \in 0 .. c - 1 /\ q \in Nat
    BY DivMod
  <1>2. q = 2 * h + b /\ b \in {0, 1} /\ h \in Nat
    BY <1>1
  <1> HIDE DEF q, r, h, b
  <1>3. c * b + r \in Nat /\ c * b + r < 2 * c
    BY <1>1, <1>2
  <1>4. n = (2 * c) * h + (c * b + r)
    <2>1. c * q = c * (2 * h) + c * b
      BY <1>2
    <2>2. c * (2 * h) = (2 * c) * h
      BY <1>2
    <2> QED BY <1>1, <2>1, <2>2, <1>2
  <1>5. n % (2 * c) = c * b + r
    <2> DEFINE cc == 2 * c
               rr == c * b + r
    <2>1. cc \in Nat /\ rr \in Nat /\ rr < cc /\ n = cc * h + rr
      BY <1>3, <1>4
    <2> HIDE DEF cc, rr
    <2>2. n % cc = rr
      BY <2>1, <1>2, DivModUnique
    <2> QED BY <2>2 DEF cc, rr
  <1>6. c * b = IF b = 1 THEN c ELSE 0
    BY <1>2
  <1> QED BY <1>5, <1>6, <1>1 DEF q, r, b

\* Larger exponents have larger powers.
LEMMA PowersGrow ==
    ASSUME NEW k \in 0 .. 32, NEW i \in 0 .. k
    PROVE  Two(i) \in Nat /\ Two(k) \in Nat /\ Two(i) <= Two(k)
  <1> DEFINE S == {j \in 0 .. 32 : Two(j) \in Nat /\ \A h \in 0 .. j : Two(h) \in Nat /\ Two(h) <= Two(j)}
  <1>1. 0 \in S
    BY Powers
  <1>2. ASSUME NEW j \in 0 .. 32 - 1, j \in S PROVE j + 1 \in S
    <2>1. Two(j) \in Nat /\ Two(j + 1) = 2 * Two(j)
      BY Powers
    <2>2. \A h \in 0 .. j + 1 : h \in 0 .. j \/ h = j + 1
      OBVIOUS
    <2>3. j + 1 \in 0 .. 32
      OBVIOUS
    <2> QED BY <1>2, <2>1, <2>2, <2>3
  <1>3. 0 .. 32 \subseteq S
    <2> HIDE DEF S
    <2> QED BY <1>1, <1>2, InductionUpTo
  <1> QED BY <1>3

LEMMA SmallMod ==
    ASSUME NEW n \in Nat, NEW c \in Nat, n < c
    PROVE  n % c = n /\ n \div c = 0
  <1>1. c * 0 + n = n
    OBVIOUS
  <1>2. (c * 0 + n) \div c = 0 /\ (c * 0 + n) % c = n
    BY DivModUnique
  <1> QED BY <1>1, <1>2

\* A number has no bits above those of a power of two it is below.
LEMMA SmallBits ==
    ASSUME NEW n \in Nat, NEW len \in 0 .. 31, n < Two(len), NEW size \in Nat
    PROVE  Bits(n, size) \subseteq 0 .. len - 1
  <1>0. Bits(n, size) \subseteq 0 .. size - 1
    BY DEF Bits
  <1> SUFFICES ASSUME NEW k \in Bits(n, size), k >= len PROVE FALSE
    BY <1>0
  <1>1. k \in 0 .. 30 /\ (n \div Two(k)) % 2 = 1
    BY DEF Bits, Two
  <1>2. Two(k) \in Nat /\ Two(len) \in Nat /\ Two(len) <= Two(k)
    BY <1>1, PowersGrow
  <1>3. n \div Two(k) = 0
    BY <1>2, SmallMod
  <1> QED BY <1>1, <1>3

\* A number that fits, and is not negative if the type has a sign, is the number of
\* its bits.
LEMMA NumberOfBits ==
    ASSUME NEW c, c.bits \in 0 .. 32, c.signed => c.bits \in 1 .. 31,
           NEW n \in Nat, n < Two(31), c.bits < 31 => n < Two(c.bits),
           c.signed => n < Two(c.bits - 1)
    PROVE  Number(c, Bits(n, c.bits)) = n
  <1> DEFINE len == c.bits
             v == Bits(n, len)
             add == [k \in 1 .. len |-> IF k - 1 \in v THEN Weight(c, k - 1) ELSE 0]
             low == [k \in 0 .. len |-> IF k > 30 THEN n ELSE n % Two(k)]
             IsSum(f) == f = [k \in 0 .. len |->
                                IF k = 0 THEN 0
                                ELSE f[k - 1] + (IF k - 1 \in v THEN Weight(c, k - 1) ELSE 0)]
             below == CHOOSE f : IsSum(f)
  <1>1. len \in 0 .. 32 /\ (len < 31 => n < Two(len))
    OBVIOUS
  <1>2. \A k \in 0 .. 31 : Two(k) \in Nat \ {0} /\ Two(k + 1) = 2 * Two(k)
    BY Powers
  <1>3. \A k \in 0 .. len - 1 : k \in v <=> k <= 30 /\ (n \div Two(k)) % 2 = 1
    BY DEF Bits, Two
  <1>4. ASSUME NEW k \in v PROVE Weight(c, k) = Two(k)
    <2>1. CASE c.signed /\ k = len - 1
      <3>1. k \in 0 .. 30 /\ n < Two(k) /\ (n \div Two(k)) % 2 = 1
        BY <2>1 DEF Bits, Two
      <3>2. Two(k) \in Nat
        BY <1>2, <3>1
      <3>3. n \div Two(k) = 0
        BY <3>1, <3>2, SmallMod
      <3> QED BY <3>1, <3>3
    <2>2. CASE ~(c.signed /\ k = len - 1)
      BY <2>2 DEF Weight, Two
    <2> QED BY <2>1, <2>2
  <1>5. Number(c, v) = below[len]
    BY DEF Number
  <1> HIDE DEF len, v
  <1>6. n % Two(31) = n /\ (len < 31 => n % Two(len) = n)
    <2>1. Two(31) \in Nat /\ (len < 31 => Two(len) \in Nat)
      BY <1>1, <1>2
    <2> QED BY <1>1, <2>1, SmallMod
  <1>7. \A k \in 0 .. len : low[k] = IF k > 30 THEN n ELSE n % Two(k)
    OBVIOUS
  <1> HIDE DEF low
  <1>8. ASSUME NEW k \in 1 .. len PROVE low[k] = low[k - 1] + add[k]
    <2>1. k - 1 \in 0 .. len - 1 /\ k - 1 \in 0 .. len /\ k \in 0 .. len
      BY <1>1
    <2>2. add[k] = IF k - 1 <= 30 /\ (n \div Two(k - 1)) % 2 = 1 THEN Two(k - 1) ELSE 0
      BY <2>1, <1>3, <1>4
    <2>3. CASE k <= 31
      <3>1. k - 1 \in 0 .. 31 /\ k - 1 <= 30 /\ (k - 1) + 1 = k
        BY <2>3
      <3>2. Two(k) = 2 * Two(k - 1) /\ Two(k - 1) \in Nat /\ Two(k - 1) > 0
        BY <1>2, <3>1
      <3>3. n % Two(k) = (n % Two(k - 1)) + (IF (n \div Two(k - 1)) % 2 = 1 THEN Two(k - 1) ELSE 0)
        BY <3>2, NextBit
      <3>4. low[k] = n % Two(k)
        BY <1>6, <1>7, <2>1, <2>3
      <3>5. low[k - 1] = n % Two(k - 1)
        BY <1>7, <2>1, <3>1
      <3> QED BY <2>2, <3>1, <3>3, <3>4, <3>5
    <2>4. CASE ~(k <= 31)
      <3>1. add[k] = 0
        BY <2>2, <2>4
      <3>2. low[k] = n /\ low[k - 1] = n
        BY <1>7, <2>1, <2>4
      <3> QED BY <3>1, <3>2
    <2> QED BY <2>3, <2>4
  <1>9. low[0] = 0
    <2>1. low[0] = n % 1
      BY <1>1, <1>7, Powers
    <2> QED BY <2>1
  <1>10. IsSum(low)
    <2>1. low = [k \in 0 .. len |-> low[k]]
      BY DEF low
    <2>2. \A k \in 0 .. len : low[k] = IF k = 0 THEN 0
                ELSE low[k - 1] + (IF k - 1 \in v THEN Weight(c, k - 1) ELSE 0)
      BY <1>1, <1>8, <1>9
    <2> QED BY <2>1, <2>2
  <1>11. IsSum(below)
    <2> HIDE DEF IsSum
    <2> QED BY <1>10
  <1>12. below[0] = 0 /\ \A k \in 1 .. len : below[k] = below[k - 1] + add[k]
    <2> HIDE DEF below
    <2>1. \A k \in 0 .. len : below[k] = IF k = 0 THEN 0
                ELSE below[k - 1] + (IF k - 1 \in v THEN Weight(c, k - 1) ELSE 0)
      BY <1>11
    <2> QED BY <1>1, <2>1
  <1> HIDE DEF add, below
  <1>13. 0 .. len \subseteq {k \in 0 .. len : below[k] = low[k]}
    <2> DEFINE S == {k \in 0 .. len : below[k] = low[k]}
    <2>1. 0 \in S
      BY <1>1, <1>9, <1>12
    <2>2. ASSUME NEW k \in 0 .. len - 1, k \in S PROVE k + 1 \in S
      <3>1. k + 1 \in 1 .. len /\ (k + 1) - 1 = k /\ k + 1 \in 0 .. len
        BY <1>1
      <3>2. below[k + 1] = below[k] + add[k + 1]
        BY <1>12, <3>1
      <3>3. low[k + 1] = low[k] + add[k + 1]
        BY <1>8, <3>1
      <3> QED BY <2>2, <3>1, <3>2, <3>3
    <2> HIDE DEF S
    <2>3. len \in Nat
      BY <1>1
    <2>4. \A k \in 0 .. len - 1 : k \in S => k + 1 \in S
      BY <2>2
    <2>5. 0 .. len \subseteq S
      BY <2>1, <2>3, <2>4, InductionUpTo
    <2> QED BY <2>5 DEF S
  <1>14. below[len] = low[len]
    BY <1>1, <1>13
  <1>15. low[len] = n
    BY <1>1, <1>6, <1>7
  <1> QED BY <1>5, <1>14, <1>15 DEF v, len

\* A physical value that fits is a step off at most, once encoded and decoded.
LEMMA EncodeWithinStep ==
    ASSUME NEW c, c.bits \in 0 .. 32, c.signed => c.bits \in 1 .. 31,
           c.num \in Nat \ {0}, c.den \in Nat, c.off \in Int,
           NEW r \in Int, (r - 4 * c.den * c.off) \div (4 * c.num) >= 0,
           FitsType(c, (r - 4 * c.den * c.off) \div (4 * c.num)),
           (r - 4 * c.den * c.off) \div (4 * c.num) < Two(31),
           NEW v \in Encode(c, r)
    PROVE  Decode(c, v) <= r /\ r - Decode(c, v) <= 4 * c.num
  <1> DEFINE base == 4 * c.den * c.off
             steps == r - base
             m == 4 * c.num
             raw == steps \div m
  <1>1. base \in Int /\ steps \in Int /\ m \in Nat /\ m > 0
    OBVIOUS
  <1>2. FitsType(c, raw) /\ raw < Two(31)
    OBVIOUS
  <1>3. Encode(c, r) = IF FitsType(c, Toward0(steps, m))
                       THEN {Bits(q, c.bits) : q \in {Toward0(steps, m)} \cup
                               (IF Toward0(steps, m) > 0 /\ steps % m = 0 /\ ~Dyadic(c)
                                THEN {Toward0(steps, m) - 1} ELSE {})}
                       ELSE {Bits(Toward0(steps, m), c.bits), {}, 0 .. c.bits - 1}
    BY DEF Encode
  <1>4. \A w : Decode(c, w) = 4 * (Number(c, w) * c.num + c.den * c.off)
    BY DEF Decode
  <1>5. raw \in Int /\ steps = m * raw + (steps % m) /\ steps % m \in 0 .. m - 1
    <2> HIDE DEF steps, m
    <2>1. steps = m * (steps \div m) + (steps % m)
      BY <1>1, Z3
    <2>2. steps % m \in 0 .. m - 1
      BY <1>1, Z3
    <2>3. steps \div m \in Int
      BY <1>1, Z3
    <2> QED BY <2>1, <2>2, <2>3
  <1>6. raw >= 0 /\ (c.bits <= 30 => raw < Two(c.bits)) /\ (c.signed => raw < Two(c.bits - 1))
    <2>1. raw >= 0
      OBVIOUS
    <2>2. CASE c.signed
      <3>1. raw <= Two(c.bits - 1) - 1
        <4> HIDE DEF raw
        <4> QED BY <1>2, <2>2 DEF FitsType, Two
      <3>2. Two(c.bits - 1) \in Nat /\ Two(c.bits) \in Nat /\ Two(c.bits - 1) <= Two(c.bits)
        <4>1. c.bits - 1 \in 0 .. c.bits /\ c.bits \in 0 .. 32
          BY <2>2
        <4> QED BY <4>1, PowersGrow
      <3> HIDE DEF raw
      <3> QED BY <1>5, <2>1, <3>1, <3>2
    <2>3. CASE ~c.signed
      <3> HIDE DEF raw
      <3> QED BY <1>2, <2>1, <2>3 DEF FitsType, Two
    <2> QED BY <2>2, <2>3
  <1>7. r = base + steps
    BY <1>1
  <1> HIDE DEF raw, steps
  <1>8. steps >= 0
    <2>1. m * raw >= 0
      BY <1>1, <1>5, <1>6
    <2> HIDE DEF m
    <2> QED BY <1>1, <1>5, <2>1
  <1>9. Toward0(steps, m) = raw
    BY <1>8 DEF Toward0, raw
  <1>10. PICK q \in {raw} \cup (IF raw > 0 /\ steps % m = 0 THEN {raw - 1} ELSE {}) :
           v = Bits(q, c.bits)
    BY <1>2, <1>3, <1>9
  <1>11. /\ q \in Nat /\ q < Two(31) /\ (c.bits < 31 => q < Two(c.bits))
         /\ c.signed => q < Two(c.bits - 1)
    <2>1. /\ Two(31) \in Int /\ (c.bits < 31 => Two(c.bits) \in Int)
          /\ c.signed => Two(c.bits - 1) \in Int
      <3>1. c.signed => c.bits - 1 \in 0 .. 31
        OBVIOUS
      <3> QED BY <3>1, Powers
    <2> QED BY <1>2, <1>5, <1>6, <1>10, <2>1
  <1>12. Number(c, v) = q
    BY <1>10, <1>11, NumberOfBits
  <1>13. Decode(c, v) = m * q + base
    BY <1>4, <1>11, <1>12
  <1>14. m * (raw - 1) = m * raw - m
    <2> HIDE DEF m
    <2> QED BY <1>1, <1>5
  <1>15. m * raw \in Int
    BY <1>1, <1>5
  <1>16. CASE q = raw
    <2> HIDE DEF m, base
    <2> QED BY <1>1, <1>5, <1>7, <1>13, <1>15, <1>16 DEF m
  <1>17. CASE q = raw - 1 /\ steps % m = 0
    <2> DEFINE got == m * q + base
    <2>1. got = m * raw - m + base
      BY <1>14, <1>17
    <2> HIDE DEF base, m
    <2>2. m * raw - m + base <= r /\ r - (m * raw - m + base) <= m
      BY <1>1, <1>5, <1>7, <1>15, <1>17
    <2> QED BY <1>13, <2>1, <2>2 DEF m
  <1> QED BY <1>10, <1>16, <1>17
----------------------------------------------------------------------------
(* Signals in frames.                                                      *)

\* The signals of a layout start and end at natural numbers.
IsSignal(s) == s.at \in Nat /\ s.len \in Nat /\ s.bigEndian \in BOOLEAN

\* Every signal of the layout lies in the first n bits of the frame.
Within(layout, n) == \A f \in DOMAIN layout : Places(layout[f]) \subseteq 0 .. n - 1

LEMMA SignalTypes ==
    ASSUME NEW at \in Nat, NEW len \in Nat
    PROVE  IsSignal(Intel(at, len)) /\ IsSignal(Motorola(at, len))
  BY DEF IsSignal, Intel, Motorola

\* Byte by byte, highest bit first, is a numbering of the bits.
LEMMA SentInjective ==
    ASSUME NEW p \in Int, NEW q \in Int, Sent(p) = Sent(q)
    PROVE  p = q
  BY DEF Sent, Byte

\* The bits of a value go to different places.
LEMMA PlaceInjective ==
    ASSUME NEW s, IsSignal(s), NEW j \in Ones(s.len), NEW k \in Ones(s.len),
           Place(s, j) = Place(s, k)
    PROVE  j = k
  <1>1. CASE s.bigEndian
    <2>1. Sent(s.at + s.len - 1 - j) = Sent(s.at + s.len - 1 - k)
      BY <1>1 DEF Place
    <2>2. s.at + s.len - 1 - j \in Int /\ s.at + s.len - 1 - k \in Int
      BY DEF IsSignal, Ones
    <2>3. s.at + s.len - 1 - j = s.at + s.len - 1 - k
      BY <2>1, <2>2, SentInjective
    <2> QED BY <2>3 DEF IsSignal, Ones
  <1>2. CASE ~s.bigEndian
    BY <1>2 DEF Place, IsSignal, Ones
  <1> QED BY <1>1, <1>2

\* One signal: what is read is what was written, cut to the width.
LEMMA GetPut ==
    ASSUME NEW s, IsSignal(s), NEW v
    PROVE  Get(s, Put(s, v)) = v \cap Ones(s.len)
  <1>1. ASSUME NEW k \in Get(s, Put(s, v)) PROVE k \in v \cap Ones(s.len)
    <2>1. k \in Ones(s.len) /\ Place(s, k) \in Put(s, v)
      BY DEF Get
    <2>2. PICK j \in v \cap Ones(s.len) : Place(s, j) = Place(s, k)
      BY <2>1 DEF Put
    <2> QED BY <2>1, <2>2, PlaceInjective
  <1>2. ASSUME NEW k \in v \cap Ones(s.len) PROVE k \in Get(s, Put(s, v))
    BY DEF Get, Put
  <1> QED BY <1>1, <1>2

\* A signal occupies its places only.
LEMMA PutInPlaces ==
    ASSUME NEW s, NEW v
    PROVE  Put(s, v) \subseteq Places(s)
  BY DEF Put, Places

\* A whole message: every field comes back, cut to its width, whatever the other
\* fields hold (pack and unpack of a message with this layout).
THEOREM RoundTrip ==
    ASSUME NEW layout, NEW struct, Apart(layout),
           \A f \in DOMAIN layout : IsSignal(layout[f]),
           NEW g \in DOMAIN layout
    PROVE  Get(layout[g], PackAll(layout, struct)) = struct[g] \cap Ones(layout[g].len)
  <1> DEFINE s == layout[g]
  <1>1. ASSUME NEW k \in Ones(s.len)
        PROVE  Place(s, k) \in PackAll(layout, struct) <=> Place(s, k) \in Put(s, struct[g])
    <2>1. ASSUME Place(s, k) \in PackAll(layout, struct)
          PROVE  Place(s, k) \in Put(s, struct[g])
      <3>1. PICK f \in DOMAIN layout : Place(s, k) \in Put(layout[f], struct[f])
        BY <2>1 DEF PackAll
      <3>2. Place(s, k) \in Places(layout[f]) /\ Place(s, k) \in Places(s)
        BY <3>1, <1>1, PutInPlaces DEF Places
      <3>3. f = g
        BY <3>2 DEF Apart
      <3> QED BY <3>1, <3>3
    <2>2. ASSUME Place(s, k) \in Put(s, struct[g])
          PROVE  Place(s, k) \in PackAll(layout, struct)
      BY <2>2 DEF PackAll
    <2> QED BY <2>1, <2>2
  <1>2. Get(s, PackAll(layout, struct)) = Get(s, Put(s, struct[g]))
    BY <1>1 DEF Get
  <1>3. Get(s, Put(s, struct[g])) = struct[g] \cap Ones(s.len)
    BY GetPut
  <1> QED BY <1>2, <1>3

\* What is packed lies where the layout's signals lie.
LEMMA PackWithin ==
    ASSUME NEW layout, NEW struct, NEW n, Within(layout, n)
    PROVE  PackAll(layout, struct) \subseteq 0 .. n - 1
  BY PutInPlaces DEF PackAll, Within

\* Unpacking assigns the fields of the layout and leaves the others: a receiver
\* finds the sender's value in each field that was sent, and its own in the rest.
THEOREM UnpackOfPack ==
    ASSUME NEW layout, NEW struct, NEW old, Apart(layout),
           \A f \in DOMAIN layout : IsSignal(layout[f]),
           \A f \in DOMAIN layout : struct[f] \subseteq Ones(layout[f].len),
           NEW g \in DOMAIN old
    PROVE  UnpackAll(layout, PackAll(layout, struct), old)[g] =
              IF g \in DOMAIN layout THEN struct[g] ELSE old[g]
  <1>1. CASE g \in DOMAIN layout
    <2>1. Get(layout[g], PackAll(layout, struct)) = struct[g] \cap Ones(layout[g].len)
      BY <1>1, RoundTrip
    <2>2. struct[g] \cap Ones(layout[g].len) = struct[g]
      BY <1>1
    <2> QED BY <1>1, <2>1, <2>2 DEF UnpackAll
  <1>2. CASE g \notin DOMAIN layout
    BY <1>2 DEF UnpackAll
  <1> QED BY <1>1, <1>2
----------------------------------------------------------------------------
(* Layouts are put together field by field.  Inside(layout, S): the signals *)
(* lie in the places S and apart from each other.                           *)

Inside(layout, S) ==
    /\ Apart(layout)
    /\ \A f \in DOMAIN layout : IsSignal(layout[f]) /\ Places(layout[f]) \subseteq S

LEMMA IntelPlaces ==
    ASSUME NEW at \in Nat, NEW len \in Nat
    PROVE  Places(Intel(at, len)) = at .. at + len - 1
  <1>1. ASSUME NEW k \in at .. at + len - 1 PROVE k \in Places(Intel(at, len))
    <2>1. k - at \in Ones(len) /\ Place(Intel(at, len), k - at) = k
      BY DEF Ones, Place, Intel
    <2> QED BY <2>1 DEF Places, Intel
  <1>2. ASSUME NEW k \in Places(Intel(at, len)) PROVE k \in at .. at + len - 1
    BY <1>2 DEF Ones, Place, Intel, Places
  <1> QED BY <1>1, <1>2

LEMMA OneField ==
    ASSUME NEW f, NEW at \in Nat, NEW len \in Nat
    PROVE  Inside(Field(f, Intel(at, len)), at .. at + len - 1)
  <1> DEFINE l == Field(f, Intel(at, len))
  <1>1. DOMAIN l = {f} /\ l[f] = Intel(at, len)
    BY DEF Field
  <1>2. IsSignal(Intel(at, len))
    BY SignalTypes
  <1>3. Apart(l)
    BY <1>1 DEF Apart
  <1> QED BY <1>1, <1>2, <1>3, IntelPlaces DEF Inside

LEMMA TwoLayouts ==
    ASSUME NEW a, NEW b, NEW S, NEW T, Inside(a, S), Inside(b, T), S \cap T = {}
    PROVE  Inside(a ++ b, S \cup T)
  <1> DEFINE l == a ++ b
  <1>1. DOMAIN l = DOMAIN a \cup DOMAIN b
    BY DEF ++
  <1>2. \A f \in DOMAIN l : l[f] = IF f \in DOMAIN a THEN a[f] ELSE b[f]
    BY DEF ++
  <1>3. \A f \in DOMAIN l :
           /\ IsSignal(l[f])
           /\ f \in DOMAIN a => Places(l[f]) \subseteq S
           /\ f \notin DOMAIN a => Places(l[f]) \subseteq T
    BY <1>1, <1>2 DEF Inside
  <1>4. Apart(l)
    <2> SUFFICES ASSUME NEW f \in DOMAIN l, NEW g \in DOMAIN l, f # g
                 PROVE  Places(l[f]) \cap Places(l[g]) = {}
      BY DEF Apart
    <2>1. CASE f \in DOMAIN a /\ g \in DOMAIN a
      BY <2>1, <1>2 DEF Inside, Apart
    <2>2. CASE f \notin DOMAIN a /\ g \notin DOMAIN a
      BY <2>2, <1>1, <1>2 DEF Inside, Apart
    <2>3. CASE (f \in DOMAIN a) # (g \in DOMAIN a)
      BY <2>3, <1>3
    <2> QED BY <2>1, <2>2, <2>3
  <1> QED BY <1>3, <1>4 DEF Inside

LEMMA InsideMore ==
    ASSUME NEW layout, NEW S, NEW T, Inside(layout, S), S \subseteq T
    PROVE  Inside(layout, T)
  BY DEF Inside

LEMMA NoField ==
    ASSUME NEW S PROVE Inside(<<>>, S)
  BY DEF Inside, Apart

\* Fields that follow each other, from the first bit to the n-th.
Fills(layout, n) == Inside(layout, 0 .. n - 1)

LEMMA FirstField ==
    ASSUME NEW f, NEW at \in Nat, NEW len \in Nat, NEW n \in Nat, n = at + len
    PROVE  Fills(Field(f, Intel(at, len)), n)
  <1>1. Inside(Field(f, Intel(at, len)), at .. at + len - 1)
    BY OneField
  <1> QED BY <1>1, InsideMore DEF Fills

LEMMA NextField ==
    ASSUME NEW a, NEW m \in Nat, Fills(a, m),
           NEW f, NEW at \in Nat, NEW len \in Nat, at >= m,
           NEW n \in Nat, n = at + len
    PROVE  Fills(a ++ Field(f, Intel(at, len)), n)
  <1>1. Inside(Field(f, Intel(at, len)), at .. at + len - 1)
    BY OneField
  <1>2. (0 .. m - 1) \cap (at .. at + len - 1) = {}
    OBVIOUS
  <1>3. Inside(a ++ Field(f, Intel(at, len)), (0 .. m - 1) \cup (at .. at + len - 1))
    BY <1>1, <1>2, TwoLayouts DEF Fills
  <1> QED BY <1>3, InsideMore DEF Fills
----------------------------------------------------------------------------
(* What a layout put together has where.                                  *)

LEMMA FieldIs == \A f, v : DOMAIN Field(f, v) = {f} /\ Field(f, v)[f] = v
  BY DEF Field
LEMMA BothDomain == \A a, b : DOMAIN (a ++ b) = DOMAIN a \cup DOMAIN b
  BY DEF ++
LEMMA FromFirst == \A a, b, f : f \in DOMAIN a => (a ++ b)[f] = a[f]
  BY DEF ++
LEMMA FromSecond == \A a, b, f : f \in DOMAIN b /\ f \notin DOMAIN a => (a ++ b)[f] = b[f]
  BY DEF ++
LEMMA InFirst == \A a, b, f : f \in DOMAIN a => f \in DOMAIN (a ++ b)
  <1> TAKE a, b, f
  <1>1. DOMAIN (a ++ b) = DOMAIN a \cup DOMAIN b
    BY BothDomain, Zenon
  <1> QED BY <1>1
LEMMA InSecond == \A a, b, f : f \in DOMAIN b => f \in DOMAIN (a ++ b)
  <1> TAKE a, b, f
  <1>1. DOMAIN (a ++ b) = DOMAIN a \cup DOMAIN b
    BY BothDomain, Zenon
  <1> QED BY <1>1

LEMMA TwoDomain == \A x, y, u, v : DOMAIN (Field(x, u) ++ Field(y, v)) = {x, y}
  <1> TAKE x, y, u, v
  <1>1. DOMAIN Field(x, u) = {x} /\ DOMAIN Field(y, v) = {y}
    BY FieldIs, Zenon
  <1>2. DOMAIN (Field(x, u) ++ Field(y, v)) = DOMAIN Field(x, u) \cup DOMAIN Field(y, v)
    BY BothDomain, Zenon
  <1>3. {x} \cup {y} = {x, y}
    OBVIOUS
  <1> QED BY <1>1, <1>2, <1>3, Zenon
LEMMA TwoFirst == \A x, y, u, v : (Field(x, u) ++ Field(y, v))[x] = u
  <1> TAKE x, y, u, v
  <1>1. x \in DOMAIN Field(x, u) /\ Field(x, u)[x] = u
    BY FieldIs, Zenon
  <1>2. (Field(x, u) ++ Field(y, v))[x] = Field(x, u)[x]
    BY <1>1, FromFirst, Zenon
  <1> QED BY <1>1, <1>2, Zenon
LEMMA TwoSecond == \A x, y, u, v : x # y => (Field(x, u) ++ Field(y, v))[y] = v
  <1> SUFFICES ASSUME NEW x, NEW y, NEW u, NEW v, x # y
               PROVE  (Field(x, u) ++ Field(y, v))[y] = v
    OBVIOUS
  <1>1. y \in DOMAIN Field(y, v) /\ Field(y, v)[y] = v
    BY FieldIs, Zenon
  <1>2. y \notin DOMAIN Field(x, u)
    <2>1. DOMAIN Field(x, u) = {x}
      BY FieldIs, Zenon
    <2>2. y \notin {x}
      OBVIOUS
    <2> QED BY <2>1, <2>2, Zenon
  <1>3. (Field(x, u) ++ Field(y, v))[y] = Field(y, v)[y]
    BY <1>1, <1>2, FromSecond, Zenon
  <1> QED BY <1>1, <1>3, Zenon
LEMMA ThreeFirst ==
    \A x, y, z, u, v, w : (Field(x, u) ++ Field(y, v) ++ Field(z, w))[x] = u
  <1> TAKE x, y, z, u, v, w
  <1> DEFINE d == Field(x, u) ++ Field(y, v)
  <1>1. d[x] = u
    BY TwoFirst
  <1>2. x \in DOMAIN d
    <2>1. DOMAIN d = {x, y}
      BY TwoDomain, Zenon
    <2> HIDE DEF d
    <2> QED BY <2>1
  <1> HIDE DEF d
  <1>3. (d ++ Field(z, w))[x] = d[x]
    BY <1>2, FromFirst, Zenon
  <1>4. (d ++ Field(z, w))[x] = u
    BY <1>1, <1>3, Zenon
  <1> USE DEF d
  <1> QED BY <1>4, Zenon
LEMMA ThreeSecond ==
    \A x, y, z, u, v, w : x # y => (Field(x, u) ++ Field(y, v) ++ Field(z, w))[y] = v
  <1> SUFFICES ASSUME NEW x, NEW y, NEW z, NEW u, NEW v, NEW w, x # y
               PROVE  (Field(x, u) ++ Field(y, v) ++ Field(z, w))[y] = v
    OBVIOUS
  <1> DEFINE d == Field(x, u) ++ Field(y, v)
  <1>1. d[y] = v
    BY TwoSecond
  <1>2. y \in DOMAIN d
    <2>1. DOMAIN d = {x, y}
      BY TwoDomain, Zenon
    <2> HIDE DEF d
    <2> QED BY <2>1
  <1> HIDE DEF d
  <1>3. (d ++ Field(z, w))[y] = d[y]
    BY <1>2, FromFirst, Zenon
  <1>4. (d ++ Field(z, w))[y] = v
    BY <1>1, <1>3, Zenon
  <1> USE DEF d
  <1> QED BY <1>4, Zenon
LEMMA ThreeThird ==
    \A x, y, z, u, v, w :
        x # z /\ y # z => (Field(x, u) ++ Field(y, v) ++ Field(z, w))[z] = w
  <1> SUFFICES ASSUME NEW x, NEW y, NEW z, NEW u, NEW v, NEW w, x # z, y # z
               PROVE  (Field(x, u) ++ Field(y, v) ++ Field(z, w))[z] = w
    OBVIOUS
  <1> DEFINE d == Field(x, u) ++ Field(y, v)
             c == Field(z, w)
  <1>1. DOMAIN d = {x, y}
    BY TwoDomain, Zenon
  <1>2. z \in DOMAIN c /\ c[z] = w
    BY FieldIs, Zenon
  <1> HIDE DEF c, d
  <1>3. z \notin DOMAIN d
    BY <1>1
  <1>4. (d ++ c)[z] = c[z]
    BY <1>2, <1>3, FromSecond, Zenon
  <1>5. (d ++ c)[z] = w
    BY <1>2, <1>4, Zenon
  <1> USE DEF c, d
  <1> QED BY <1>5, Zenon
=============================================================================

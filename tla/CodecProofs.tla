---------------------------- MODULE CodecProofs -----------------------------
(***************************************************************************)
(* Proofs about the conversions of a packet (Conversions), for every       *)
(* button, d-pad direction, value of an axis and altered byte, and for     *)
(* checksums of any length; and about the interrupt (Joystick) when its    *)
(* bytes and its checksum are the real ones.                               *)
(***************************************************************************)
EXTENDS Conversions, JoystickProofs

\* A byte as a pair of inequalities, which keeps its 256 values out of the proofs.
LEMMA ByteBounds ==
  ASSUME NEW b
  PROVE  b \in ByteValue <=> b \in Int /\ 0 <= b /\ b <= 255
  BY SMT DEF ByteValue

\* The number with the given binary digits.
Binary(d0, d1, d2, d3, d4, d5, d6, d7) ==
  d0 + 2 * d1 + 4 * d2 + 8 * d3 + 16 * d4 + 32 * d5 + 64 * d6 + 128 * d7

\* A digit is 0 or 1.
LEMMA BitType ==
  ASSUME NEW x \in Nat, NEW i \in 0..7
  PROVE  Bit(x, i) \in {0, 1}
<1>1. i \in {0, 1, 2, 3, 4, 5, 6, 7}
  OBVIOUS
<1>2. /\ Bit(x, 0) \in {0, 1} /\ Bit(x, 1) \in {0, 1} /\ Bit(x, 2) \in {0, 1} /\ Bit(x, 3) \in {0, 1}
      /\ Bit(x, 4) \in {0, 1} /\ Bit(x, 5) \in {0, 1} /\ Bit(x, 6) \in {0, 1} /\ Bit(x, 7) \in {0, 1}
  BY DEF Bit
<1>. QED
  BY <1>1, <1>2

\* A byte is its binary digits.
LEMMA ByteIsItsBits ==
  ASSUME NEW x \in ByteValue
  PROVE  x = Binary(Bit(x, 0), Bit(x, 1), Bit(x, 2), Bit(x, 3), Bit(x, 4), Bit(x, 5), Bit(x, 6), Bit(x, 7))
<1>1. /\ Bit(x, 0) = x % 2 /\ Bit(x, 1) = (x \div 2) % 2 /\ Bit(x, 2) = (x \div 4) % 2
      /\ Bit(x, 3) = (x \div 8) % 2 /\ Bit(x, 4) = (x \div 16) % 2 /\ Bit(x, 5) = (x \div 32) % 2
      /\ Bit(x, 6) = (x \div 64) % 2 /\ Bit(x, 7) = (x \div 128) % 2
  BY DEF Bit, ByteValue
<1>2. x \in 0..255
  BY DEF ByteValue
<1>3. x = Binary(x % 2, (x \div 2) % 2, (x \div 4) % 2, (x \div 8) % 2, (x \div 16) % 2,
                 (x \div 32) % 2, (x \div 64) % 2, (x \div 128) % 2)
  BY <1>2 DEF Binary
<1>. QED
  BY <1>1, <1>3

\* Eight digits make a byte.
LEMMA BinaryType ==
  ASSUME NEW a0 \in {0, 1}, NEW a1 \in {0, 1}, NEW a2 \in {0, 1}, NEW a3 \in {0, 1},
         NEW a4 \in {0, 1}, NEW a5 \in {0, 1}, NEW a6 \in {0, 1}, NEW a7 \in {0, 1}
  PROVE  Binary(a0, a1, a2, a3, a4, a5, a6, a7) \in ByteValue
  BY DEF Binary, ByteValue

\* One digit of an exclusive or.
Differ(p, q) == (p + q) % 2

\* Whether two digits differ: symmetric, and injective in the second one.
LEMMA DifferFacts ==
  /\ \A p, q \in {0, 1} : Differ(p, q) \in {0, 1} /\ Differ(p, q) = Differ(q, p)
  /\ \A p, q, r \in {0, 1} : Differ(p, q) = Differ(p, r) => q = r
  BY DEF Differ

\* The digits of an exclusive or are those in which its operands differ.
LEMMA XorDigits ==
  ASSUME NEW x \in ByteValue, NEW y \in ByteValue
  PROVE  Xor(x, y) = Binary(Differ(Bit(x, 0), Bit(y, 0)), Differ(Bit(x, 1), Bit(y, 1)),
                            Differ(Bit(x, 2), Bit(y, 2)), Differ(Bit(x, 3), Bit(y, 3)),
                            Differ(Bit(x, 4), Bit(y, 4)), Differ(Bit(x, 5), Bit(y, 5)),
                            Differ(Bit(x, 6), Bit(y, 6)), Differ(Bit(x, 7), Bit(y, 7)))
<1>1. \A i \in 0..7 : Differ(Bit(x, i), Bit(y, i)) \in {0, 1}
  BY BitType, DifferFacts DEF ByteValue
<1>. QED
  BY <1>1 DEF Xor, Binary, Differ

\* An exclusive or of bytes is a byte.
LEMMA XorType ==
  ASSUME NEW x \in ByteValue, NEW y \in ByteValue
  PROVE  Xor(x, y) \in ByteValue
<1>1. \A i \in 0..7 : Differ(Bit(x, i), Bit(y, i)) \in {0, 1}
  BY BitType, DifferFacts DEF ByteValue
<1>. QED
  BY <1>1, XorDigits, BinaryType

\* An exclusive or does not depend on the order of its operands.
LEMMA XorCommutes ==
  ASSUME NEW x \in ByteValue, NEW y \in ByteValue
  PROVE  Xor(x, y) = Xor(y, x)
<1>1. \A i \in 0..7 : Differ(Bit(x, i), Bit(y, i)) = Differ(Bit(y, i), Bit(x, i))
  BY BitType, DifferFacts DEF ByteValue
<1>. QED
  BY <1>1, XorDigits

\* Exclusive or with a byte loses nothing.
LEMMA XorIsInjective ==
  ASSUME NEW x \in ByteValue, NEW y \in ByteValue, NEW z \in ByteValue, Xor(x, y) = Xor(x, z)
  PROVE  y = z
<1>1. \A i \in 0..7 : Bit(x, i) \in {0, 1} /\ Bit(y, i) \in {0, 1} /\ Bit(z, i) \in {0, 1}
  BY BitType DEF ByteValue
<1>2. \A i \in 0..7 : Differ(Bit(x, i), Bit(y, i)) \in {0, 1} /\ Differ(Bit(x, i), Bit(z, i)) \in {0, 1}
  BY <1>1, DifferFacts
<1>3. \A i \in {0, 1, 2, 3, 4, 5, 6, 7} : Differ(Bit(x, i), Bit(y, i)) = Differ(Bit(x, i), Bit(z, i))
  <2>. DEFINE p(i) == Differ(Bit(x, i), Bit(y, i))
              q(i) == Differ(Bit(x, i), Bit(z, i))
  <2>1. Binary(p(0), p(1), p(2), p(3), p(4), p(5), p(6), p(7))
          = Binary(q(0), q(1), q(2), q(3), q(4), q(5), q(6), q(7))
    BY XorDigits
  <2>2. \A i \in 0..7 : p(i) \in {0, 1} /\ q(i) \in {0, 1}
    BY <1>2
  <2>. HIDE DEF p, q
  <2>3. /\ p(0) = q(0) /\ p(1) = q(1) /\ p(2) = q(2) /\ p(3) = q(3)
        /\ p(4) = q(4) /\ p(5) = q(5) /\ p(6) = q(6) /\ p(7) = q(7)
    <3>1. /\ p(0) \in {0, 1} /\ p(1) \in {0, 1} /\ p(2) \in {0, 1} /\ p(3) \in {0, 1}
          /\ p(4) \in {0, 1} /\ p(5) \in {0, 1} /\ p(6) \in {0, 1} /\ p(7) \in {0, 1}
      BY <2>2
    <3>2. /\ q(0) \in {0, 1} /\ q(1) \in {0, 1} /\ q(2) \in {0, 1} /\ q(3) \in {0, 1}
          /\ q(4) \in {0, 1} /\ q(5) \in {0, 1} /\ q(6) \in {0, 1} /\ q(7) \in {0, 1}
      BY <2>2
    <3>. QED
      BY <2>1, <3>1, <3>2, SMTT(60) DEF Binary
  <2>. QED
    BY <2>3 DEF p, q
<1>4. \A i \in {0, 1, 2, 3, 4, 5, 6, 7} : Bit(y, i) = Bit(z, i)
  BY <1>1, <1>3, DifferFacts
<1>. QED
  BY <1>4, ByteIsItsBits

-----------------------------------------------------------------------------
\* One round of crc8 loses nothing: a register with its top bit set ends odd, the
\* others end even.
LEMMA CrcRoundIsInjective ==
  /\ \A c \in ByteValue : CrcRound(c) \in ByteValue
  /\ \A c, d \in ByteValue : CrcRound(c) = CrcRound(d) => c = d
<1>1. 7 \in ByteValue /\ \A c \in ByteValue : (2 * c) % 256 \in ByteValue
  BY DEF ByteValue
<1>2. \A c \in ByteValue : c < 128 => 2 * c \in ByteValue
  BY DEF ByteValue
<1>3. \A c \in ByteValue : CrcRound(c) \in ByteValue
  <2>. SUFFICES ASSUME NEW c \in ByteValue PROVE CrcRound(c) \in ByteValue
    OBVIOUS
  <2>1. c >= 128 \/ (c < 128 /\ ~(c >= 128))
    BY DEF ByteValue
  <2>. QED
    BY <1>1, <1>2, <2>1, XorType DEF CrcRound
<1>4. ASSUME NEW c \in ByteValue PROVE Xor((2 * c) % 256, 7) % 2 = 1
  <2>. DEFINE e == (2 * c) % 256
              p(i) == Differ(Bit(e, i), Bit(7, i))
  <2>1. e \in ByteValue /\ e % 2 = 0
    BY DEF ByteValue
  <2>2. Bit(e, 0) = 0 /\ Bit(7, 0) = 1
    BY <2>1 DEF Bit, ByteValue
  <2>3. p(0) = 1
    BY <2>2 DEF Differ
  <2>4. Xor(e, 7) = Binary(p(0), p(1), p(2), p(3), p(4), p(5), p(6), p(7))
    BY <1>1, <2>1, XorDigits
  <2>5. \A i \in 0..7 : p(i) \in {0, 1}
    BY <1>1, <2>1, BitType, DifferFacts DEF ByteValue
  <2>. HIDE DEF p, e
  <2>6. Xor(e, 7) = 1 + 2 * (p(1) + 2 * p(2) + 4 * p(3) + 8 * p(4) + 16 * p(5) + 32 * p(6) + 64 * p(7))
    BY <2>3, <2>4, <2>5 DEF Binary
  <2>7. Xor(e, 7) % 2 = 1
    BY <2>5, <2>6
  <2>. QED
    BY <2>7 DEF e
<1>5. ASSUME NEW c \in ByteValue, NEW d \in ByteValue, CrcRound(c) = CrcRound(d) PROVE c = d
  <2>1. CASE c >= 128 /\ d >= 128
    <3>1. Xor(7, (2 * c) % 256) = Xor(7, (2 * d) % 256)
      BY <1>1, <1>5, <2>1, XorCommutes DEF CrcRound
    <3>2. (2 * c) % 256 = (2 * d) % 256
      BY <1>1, <3>1, XorIsInjective
    <3>. QED
      BY <2>1, <3>2 DEF ByteValue
  <2>2. CASE c >= 128 /\ ~(d >= 128)
    BY <1>4, <1>5, <2>2 DEF CrcRound, ByteValue
  <2>3. CASE ~(c >= 128) /\ d >= 128
    BY <1>4, <1>5, <2>3 DEF CrcRound, ByteValue
  <2>4. CASE ~(c >= 128) /\ ~(d >= 128)
    BY <1>5, <2>4 DEF CrcRound, ByteValue
  <2>. QED
    BY <2>1, <2>2, <2>3, <2>4
<1>. QED
  BY <1>3, <1>5

\* f holds what the register becomes after each number of rounds.
Rounds(f) ==
  f = [n \in 0..8 |-> IF n = 0 THEN [c \in ByteValue |-> c] ELSE [c \in ByteValue |-> CrcRound(f[n - 1][c])]]

\* The eight rounds lose nothing.
LEMMA CrcTableIsInjective ==
  /\ CrcTable \in [ByteValue -> ByteValue]
  /\ \A c, d \in ByteValue : CrcTable[c] = CrcTable[d] => c = d
<1>. DEFINE Table == [ByteValue -> ByteValue]
            same == [c \in ByteValue |-> c]
            round == [t \in Table |-> [c \in ByteValue |-> CrcRound(t[c])]]
            step == [n \in 1..8 |-> round]
            f == CHOOSE h : Rounds(h)
<1>1. same \in Table /\ round \in [Table -> Table] /\ step \in [1..8 -> [Table -> Table]]
  BY CrcRoundIsInjective
<1>2. ASSUME NEW h, Recursion(h, 8, same, step) PROVE Rounds(h)
  <2>1. h \in [0..8 -> Table]
    <3>. HIDE DEF Table, same, step
    <3>. QED
      BY <1>1, <1>2, RecursionType
  <2>2. ASSUME NEW n \in 0..8, n # 0 PROVE step[n][h[n - 1]] = [c \in ByteValue |-> CrcRound(h[n - 1][c])]
    <3>1. n \in 1..8 /\ n - 1 \in 0..8 /\ h[n - 1] \in Table
      BY <2>1, <2>2
    <3>. QED
      BY <3>1
  <2>3. \A n \in 0..8 : h[n] = IF n = 0 THEN same ELSE step[n][h[n - 1]]
    <3>. HIDE DEF same, step
    <3>. QED
      BY <1>2 DEF Recursion
  <2>4. DOMAIN h = 0..8 /\ h = [n \in 0..8 |-> h[n]]
    BY <2>1
  <2>. QED
    BY <2>2, <2>3, <2>4 DEF Rounds
<1>3. \E h : Recursion(h, 8, same, step)
  <2>. HIDE DEF Table, same, step
  <2>. QED
    BY <1>1, RecursionExists
<1>4. Rounds(f)
  BY <1>2, <1>3
<1>5. CrcTable = f[8]
  BY DEF CrcTable, Rounds
<1>. HIDE DEF f, step, round, same, Table
<1>. DEFINE Good(t) == t \in [ByteValue -> ByteValue] /\ \A c, d \in ByteValue : t[c] = t[d] => c = d
            Fine == {n \in Nat : n <= 8 => Good(f[n])}
<1>6. 0 \in Fine
  BY <1>4 DEF Rounds
<1>7. ASSUME NEW n \in Fine PROVE n + 1 \in Fine
  <2>. SUFFICES ASSUME n + 1 <= 8 PROVE Good(f[n + 1])
    OBVIOUS
  <2>1. n \in Nat /\ n + 1 \in 0..8 /\ n + 1 # 0 /\ (n + 1) - 1 = n /\ Good(f[n])
    OBVIOUS
  <2>2. f[n + 1] = [c \in ByteValue |-> CrcRound(f[n][c])]
    BY <1>4, <2>1 DEF Rounds
  <2>. QED
    BY <2>1, <2>2, CrcRoundIsInjective
<1>8. Fine = Nat
  <2>1. Fine \in SUBSET Nat
    OBVIOUS
  <2>. HIDE DEF Fine
  <2>. QED
    BY <1>6, <1>7, <2>1, NatSetInduction
<1>9. Good(f[8])
  BY <1>8
<1>. QED
  BY <1>5, <1>9

\* A byte into the checksum is a byte, and loses neither of the two.
LEMMA Crc8UpdateIsInjective ==
  /\ \A c, b \in ByteValue : Crc8Update(c, b) \in ByteValue
  /\ \A c, d, b \in ByteValue : Crc8Update(c, b) = Crc8Update(d, b) => c = d
  /\ \A c, a, b \in ByteValue : Crc8Update(c, a) = Crc8Update(c, b) => a = b
<1>1. ASSUME NEW c \in ByteValue, NEW b \in ByteValue PROVE Crc8Update(c, b) \in ByteValue
  BY XorType, CrcTableIsInjective DEF Crc8Update
<1>2. ASSUME NEW c \in ByteValue, NEW a \in ByteValue, NEW b \in ByteValue, Crc8Update(c, a) = Crc8Update(c, b)
      PROVE  a = b
  <2>1. Xor(c, a) = Xor(c, b)
    BY <1>2, XorType, CrcTableIsInjective DEF Crc8Update
  <2>. QED
    BY <2>1, XorIsInjective
<1>3. ASSUME NEW c \in ByteValue, NEW d \in ByteValue, NEW b \in ByteValue, Crc8Update(c, b) = Crc8Update(d, b)
      PROVE  c = d
  <2>1. Xor(c, b) = Xor(d, b)
    BY <1>3, XorType, CrcTableIsInjective DEF Crc8Update
  <2>2. Xor(b, c) = Xor(b, d)
    BY <2>1, XorCommutes
  <2>. QED
    BY <2>2, XorIsInjective
<1>. QED
  BY <1>1, <1>2, <1>3

-----------------------------------------------------------------------------
\* f is the checksum after each of the first bytes of data.
Crc8Run(f, data) ==
  f = [i \in 0..Len(data) |-> IF i = 0 THEN 0 ELSE Crc8Update(f[i - 1], data[i])]

\* The checksum is the end of a run, of bytes.
LEMMA Crc8IsARun ==
  ASSUME NEW data \in Seq(ByteValue)
  PROVE  \E f \in [0..Len(data) -> ByteValue] : Crc8Run(f, data) /\ Crc8(data) = f[Len(data)]
<1>. DEFINE n == Len(data)
            step == [i \in 1..n |-> [c \in ByteValue |-> Crc8Update(c, data[i])]]
            f == CHOOSE h : Crc8Run(h, data)
<1>1. n \in Nat /\ 0 \in ByteValue /\ step \in [1..n -> [ByteValue -> ByteValue]]
  <2>1. \A i \in 1..n : data[i] \in ByteValue
    OBVIOUS
  <2>2. n \in Nat /\ 0 \in ByteValue
    BY DEF ByteValue
  <2>. QED
    BY <2>1, <2>2, Crc8UpdateIsInjective
<1>2. ASSUME NEW h PROVE Recursion(h, n, 0, step) => h \in [0..n -> ByteValue]
  <2>. HIDE DEF n, step
  <2>. QED
    BY <1>1, RecursionType
<1>3. ASSUME NEW h \in [0..n -> ByteValue] PROVE Recursion(h, n, 0, step) => Crc8Run(h, data)
  <2>1. ASSUME NEW i \in 0..n, i # 0 PROVE step[i][h[i - 1]] = Crc8Update(h[i - 1], data[i])
    <3>1. i \in 1..n /\ i - 1 \in 0..n /\ h[i - 1] \in ByteValue
      BY <1>1, <2>1
    <3>. QED
      BY <3>1
  <2>2. Recursion(h, n, 0, step) => \A i \in 0..n : h[i] = IF i = 0 THEN 0 ELSE step[i][h[i - 1]]
    <3>. HIDE DEF step, n
    <3>. QED
      BY DEF Recursion
  <2>3. h = [i \in 0..n |-> h[i]]
    OBVIOUS
  <2>. HIDE DEF step
  <2>. QED
    BY <2>1, <2>2, <2>3 DEF Crc8Run
<1>4. \E h : Recursion(h, n, 0, step)
  <2>. HIDE DEF n, step
  <2>. QED
    BY <1>1, RecursionExists
<1>5. Crc8Run(f, data)
  BY <1>2, <1>3, <1>4
<1>6. Crc8(data) = f[Len(data)]
  BY DEF Crc8, Crc8Run
<1>. HIDE DEF f
<1>7. f \in [0..n -> ByteValue]
  <2>1. \A i \in 0..n : f[i] = IF i = 0 THEN 0 ELSE Crc8Update(f[i - 1], data[i])
    BY <1>5 DEF Crc8Run
  <2>. DEFINE Typed == {i \in Nat : i <= n => f[i] \in ByteValue}
  <2>2. 0 \in Typed
    BY <1>1, <2>1
  <2>3. ASSUME NEW i \in Typed PROVE i + 1 \in Typed
    <3>. SUFFICES ASSUME i + 1 <= n PROVE f[i + 1] \in ByteValue
      OBVIOUS
    <3>1. i \in Nat /\ i + 1 \in 0..n /\ i + 1 # 0 /\ (i + 1) - 1 = i /\ f[i] \in ByteValue /\ data[i + 1] \in ByteValue
      OBVIOUS
    <3>. QED
      BY <2>1, <3>1, Crc8UpdateIsInjective
  <2>4. Typed = Nat
    <3>1. Typed \in SUBSET Nat
      OBVIOUS
    <3>. HIDE DEF Typed
    <3>. QED
      BY <2>2, <2>3, <3>1, NatSetInduction
  <2>5. \A i \in 0..n : f[i] \in ByteValue
    BY <2>4
  <2>. QED
    BY <1>5, <2>5 DEF Crc8Run
<1>. QED
  BY <1>5, <1>6, <1>7

\* A checksum is a byte, whatever the length of the data.
LEMMA Crc8Type ==
  ASSUME NEW data \in Seq(ByteValue)
  PROVE  Crc8(data) \in ByteValue
<1>1. PICK f \in [0..Len(data) -> ByteValue] : Crc8Run(f, data) /\ Crc8(data) = f[Len(data)]
  BY Crc8IsARun
<1>2. Len(data) \in 0..Len(data)
  OBVIOUS
<1>. QED
  BY <1>1, <1>2

\* Two sequences of bytes of the same length, of any length, that differ in one byte have
\* different checksums: the two runs are equal before that byte, and differ from it on.
THEOREM OneByteChangesChecksum ==
  ASSUME NEW data \in Seq(ByteValue), NEW other \in Seq(ByteValue), NEW p \in 1..Len(data),
         Len(other) = Len(data), data[p] # other[p], \A i \in 1..Len(data) : i # p => data[i] = other[i]
  PROVE  Crc8(data) # Crc8(other)
<1>. DEFINE n == Len(data)
<1>1. PICK f \in [0..n -> ByteValue] : Crc8Run(f, data) /\ Crc8(data) = f[n]
  BY Crc8IsARun
<1>2. PICK g \in [0..n -> ByteValue] : Crc8Run(g, other) /\ Crc8(other) = g[n]
  BY Crc8IsARun
<1>3. /\ n \in Nat /\ p \in Nat /\ 1 <= p /\ p <= n
      /\ \A i \in 1..n : data[i] \in ByteValue /\ other[i] \in ByteValue
  OBVIOUS
<1>4. /\ f[0] = 0 /\ g[0] = 0
      /\ \A i \in 1..n : f[i] = Crc8Update(f[i - 1], data[i]) /\ g[i] = Crc8Update(g[i - 1], other[i])
  <2>1. \A i \in 1..n : i \in 0..n /\ i # 0
    BY <1>3
  <2>2. 0 \in 0..n
    BY <1>3
  <2>. QED
    BY <1>1, <1>2, <2>1, <2>2 DEF Crc8Run
<1>. HIDE DEF n
<1>. DEFINE Splits(i) == f[i] = g[i] <=> i < p
            Apart == {i \in Nat : i <= n => Splits(i)}
<1>5. 0 \in Apart
  BY <1>3, <1>4
<1>6. ASSUME NEW i \in Apart PROVE i + 1 \in Apart
  <2>. SUFFICES ASSUME i + 1 <= n PROVE Splits(i + 1)
    OBVIOUS
  <2>0. i \in Nat /\ Splits(i)
    <3>. HIDE DEF Splits
    <3>. QED
      BY <1>3
  <2>1. i \in Nat /\ i \in 0..n /\ i + 1 \in 1..n /\ (i + 1) - 1 = i
    BY <1>3, <2>0
  <2>2. /\ f[i + 1] = Crc8Update(f[i], data[i + 1]) /\ g[i + 1] = Crc8Update(g[i], other[i + 1])
        /\ f[i] \in ByteValue /\ g[i] \in ByteValue
        /\ data[i + 1] \in ByteValue /\ other[i + 1] \in ByteValue
    BY <1>3, <1>4, <2>1
  <2>3. CASE i + 1 < p
    <3>1. f[i] = g[i] /\ data[i + 1] = other[i + 1]
      BY <1>3, <2>0, <2>1, <2>3 DEF n
    <3>. QED
      BY <2>2, <2>3, <3>1
  <2>4. CASE i + 1 = p
    <3>1. f[i] = g[i] /\ data[i + 1] # other[i + 1] /\ ~(i + 1 < p)
      BY <1>3, <2>0, <2>1, <2>4
    <3>. QED
      BY <2>2, <3>1, Crc8UpdateIsInjective
  <2>5. CASE i + 1 > p
    <3>1. f[i] # g[i] /\ i + 1 # p /\ ~(i + 1 < p)
      BY <1>3, <2>0, <2>1, <2>5
    <3>2. data[i + 1] = other[i + 1]
      BY <2>1, <3>1 DEF n
    <3>3. Crc8Update(f[i], data[i + 1]) # Crc8Update(g[i], data[i + 1])
      BY <2>2, <3>1, Crc8UpdateIsInjective
    <3>. QED
      BY <2>2, <3>1, <3>2, <3>3
  <2>. QED
    BY <1>3, <2>1, <2>3, <2>4, <2>5
<1>7. Apart = Nat
  <2>1. Apart \in SUBSET Nat
    OBVIOUS
  <2>. HIDE DEF Apart
  <2>. QED
    BY <1>5, <1>6, <2>1, NatSetInduction
<1>8. f[n] # g[n]
  <2>1. n <= n => Splits(n)
    <3>. HIDE DEF Splits
    <3>. QED
      BY <1>3, <1>7
  <2>. QED
    BY <1>3, <2>1
<1>. QED
  BY <1>1, <1>2, <1>8

-----------------------------------------------------------------------------
\* The range of a raw axis as a pair of inequalities.
LEMMA RawAxisBounds ==
  ASSUME NEW s
  PROVE  s \in RawAxis <=> s \in Int /\ -32768 <= s /\ s <= 32767
<1>1. AxisMax = 32767
  BY DEF AxisMax
<1>2. AxisMax \in Int
  BY <1>1
<1>3. s \in RawAxis <=> s \in Int /\ -AxisMax - 1 <= s /\ s <= AxisMax
  BY <1>2, SMT DEF RawAxis
<1>. QED
  BY <1>1, <1>3, SMT

\* What Norm computes on the two scales, before its dead zone: the halves of the range are
\* divided by 32767 and by 32768, and only -32768 on the first falls below 0.
LEMMA NormXInput ==
  ASSUME NEW s \in RawAxis
  PROVE  /\ Norm(s, 32767) \in ByteValue
         /\ s = -32768 => Norm(s, 32767) = 0
         /\ s # -32768 => Norm(s, 32767) = ((s + 32767) * 255) \div 65534
<1>1. s \in Int /\ -32768 <= s /\ s <= 32767
  BY RawAxisBounds, SMT
<1>2. CASE s = -32768
  <2>1. Truncate((s + 32767) * 255, 2 * 32767) = 0
    BY <1>2, SMT DEF Truncate
  <2>. QED
    BY <1>2, <2>1, SMT DEF Norm, ByteValue
<1>3. CASE s # -32768
  <2>1. (s + 32767) * 255 \in Int /\ 0 <= (s + 32767) * 255 /\ (s + 32767) * 255 <= 16711170
    BY <1>1, <1>3, SMT
  <2>2. Truncate((s + 32767) * 255, 2 * 32767) = ((s + 32767) * 255) \div 65534
    BY <2>1, SMT DEF Truncate
  <2>3. ((s + 32767) * 255) \div 65534 \in ByteValue
    BY <2>1, ByteBounds, SMT
  <2>4. (((s + 32767) * 255) \div 65534) % 256 = ((s + 32767) * 255) \div 65534
    BY <2>3, ByteBounds, SMT
  <2>. QED
    BY <1>3, <2>2, <2>3, <2>4, SMT DEF Norm
<1>. QED
  BY <1>2, <1>3, SMT

\* The lower half of an SDL axis: the sum is not negative, so truncating is rounding down
\* and the mask changes nothing.
LEMMA NormSdl ==
  ASSUME NEW s \in Int, -32768 <= s, s <= 32768
  PROVE  Norm(s, 32768) = (((s + 32768) * 255) \div 65536) /\ Norm(s, 32768) \in ByteValue
<1>1. (s + 32768) * 255 \in Int /\ 0 <= (s + 32768) * 255 /\ (s + 32768) * 255 <= 16711680
  BY SMT
<1>2. Truncate((s + 32768) * 255, 2 * 32768) = ((s + 32768) * 255) \div 65536
  BY <1>1, SMT DEF Truncate
<1>3. ((s + 32768) * 255) \div 65536 \in ByteValue
  BY <1>1, ByteBounds, SMT
<1>4. (((s + 32768) * 255) \div 65536) % 256 = ((s + 32768) * 255) \div 65536
  BY <1>3, ByteBounds, SMT
<1>. QED
  BY <1>2, <1>3, <1>4, SMT DEF Norm

\* The dead zone keeps the order.
LEMMA RestedKeepsOrder ==
  /\ \A b \in ByteValue : Rested(b) \in ByteValue
  /\ \A a, b \in ByteValue : a <= b => Rested(a) <= Rested(b)
  BY SMT DEF Rested, ByteValue

\* A stick axis becomes a byte.
LEMMA StickByteType ==
  ASSUME NEW s \in RawAxis
  PROVE  StickByte(s) \in ByteValue
  BY NormXInput, RestedKeepsOrder, SMT DEF StickByte, AxisMax

\* One raw step never lowers the byte, and the ends and the centre are where they should be.
LEMMA SticksKeepOrder ==
  ASSUME NEW axis \in RawAxis
  PROVE  SticksAreMonotone(axis)
<1>1. /\ axis \in Int /\ -32768 <= axis /\ axis <= 32767 /\ AxisMax = 32767
      /\ -32768 \in RawAxis /\ 0 \in RawAxis /\ 32767 \in RawAxis
  BY RawAxisBounds, SMT DEF AxisMax
<1>2. ASSUME axis < AxisMax PROVE StickByte(axis) <= StickByte(axis + 1)
  <2>1. axis + 1 \in RawAxis /\ axis + 1 # -32768
    BY <1>1, <1>2, RawAxisBounds, SMT
  <2>2. CASE axis = -32768
    <3>1. Norm(axis, 32767) = 0 /\ Norm(axis, 32767) \in ByteValue /\ Norm(axis + 1, 32767) \in ByteValue
      BY <2>1, <2>2, NormXInput, SMT
    <3>2. Norm(axis, 32767) <= Norm(axis + 1, 32767)
      BY <3>1, ByteBounds, SMT
    <3>. QED
      BY <3>1, <3>2, RestedKeepsOrder, SMT DEF StickByte, AxisMax
  <2>3. CASE axis # -32768
    <3>1. /\ Norm(axis, 32767) = ((axis + 32767) * 255) \div 65534 /\ Norm(axis, 32767) \in ByteValue
          /\ Norm(axis + 1, 32767) = ((axis + 1 + 32767) * 255) \div 65534 /\ Norm(axis + 1, 32767) \in ByteValue
      BY <2>1, <2>3, NormXInput, SMT
    <3>2. ((axis + 32767) * 255) \div 65534 <= ((axis + 1 + 32767) * 255) \div 65534
      BY <1>1, SMT
    <3>. QED
      BY <3>1, <3>2, RestedKeepsOrder, SMT DEF StickByte, AxisMax
  <2>. QED
    BY <2>2, <2>3, SMT
<1>3. StickByte(-32768) = 0
  <2>1. Norm(-32768, 32767) = 0
    BY <1>1, NormXInput, SMT
  <2>. QED
    BY <2>1, SMT DEF StickByte, Rested, AxisMax
<1>4. StickByte(0) = 128
  <2>1. Norm(0, 32767) = ((0 + 32767) * 255) \div 65534
    BY <1>1, NormXInput, SMT
  <2>2. Norm(0, 32767) = 127
    BY <2>1, SMT
  <2>. QED
    BY <2>2, SMT DEF StickByte, Rested, AxisMax
<1>5. StickByte(AxisMax) = 255
  <2>1. Norm(32767, 32767) = ((32767 + 32767) * 255) \div 65534
    BY <1>1, NormXInput, SMT
  <2>2. Norm(32767, 32767) = 255
    BY <2>1, SMT
  <2>. QED
    BY <2>2, SMT DEF StickByte, Rested, AxisMax
<1>. QED
  BY <1>2, <1>3, <1>4, <1>5, StickByteType, SMT DEF SticksAreMonotone

\* For a value below 0 the two scales differ, by less than one raw step, and so they do for
\* a negated one, which is above 0.
LEMMA ScalesAgree ==
  ASSUME NEW s \in Int, -32768 <= s, s <= 32767
  PROVE  /\ s < 0 => /\ Norm(s, 32767) <= Norm(s, 32768)
                     /\ Norm(s, 32768) <= Norm(s + 1, 32767)
         /\ s >= 0 => /\ Norm(s, 32767) <= Norm(s + 1, 32768)
                      /\ Norm(s + 1, 32768) <= Norm(IF s = 32767 THEN s ELSE s + 1, 32767)
<1>1. s \in RawAxis /\ (s # 32767 => s + 1 \in RawAxis) /\ s + 1 # -32768
  BY RawAxisBounds, SMT
<1>2. /\ Norm(s, 32768) = ((s + 32768) * 255) \div 65536
      /\ Norm(s + 1, 32768) = ((s + 1 + 32768) * 255) \div 65536
      /\ s # 32767 => Norm(s + 1, 32767) = ((s + 1 + 32767) * 255) \div 65534
      /\ s # -32768 => Norm(s, 32767) = ((s + 32767) * 255) \div 65534
      /\ s = -32768 => Norm(s, 32767) = 0
  BY <1>1, NormSdl, NormXInput, SMT
<1>3. ASSUME s < 0 PROVE Norm(s, 32767) <= Norm(s, 32768) /\ Norm(s, 32768) <= Norm(s + 1, 32767)
  <2>1. ((s + 32768) * 255) \div 65536 <= ((s + 1 + 32767) * 255) \div 65534
    BY <1>3, SMT
  <2>2. s # -32768 => ((s + 32767) * 255) \div 65534 <= ((s + 32768) * 255) \div 65536
    BY <1>3, SMT
  <2>3. s = -32768 => 0 <= ((s + 32768) * 255) \div 65536
    BY <1>3, SMT
  <2>. QED
    BY <1>2, <1>3, <2>1, <2>2, <2>3, SMT
<1>4. ASSUME s >= 0
      PROVE  /\ Norm(s, 32767) <= Norm(s + 1, 32768)
             /\ Norm(s + 1, 32768) <= Norm(IF s = 32767 THEN s ELSE s + 1, 32767)
  <2>1. ((s + 32767) * 255) \div 65534 <= ((s + 1 + 32768) * 255) \div 65536
    BY <1>4, SMT
  <2>2. s # 32767 => ((s + 1 + 32768) * 255) \div 65536 <= ((s + 1 + 32767) * 255) \div 65534
    BY <1>4, SMT
  <2>3. s = 32767 => ((s + 1 + 32768) * 255) \div 65536 <= ((s + 32767) * 255) \div 65534
    BY <1>4, SMT
  <2>. QED
    BY <1>2, <1>4, <2>1, <2>2, <2>3, SMT
<1>. QED
  BY <1>3, <1>4, SMT

\* The two scales of an SDL axis lie between neighbouring values of the XInput scale.
LEMMA SdlKeepsOrder ==
  ASSUME NEW axis \in RawAxis
  PROVE  SdlAgreesWithXInput(axis)
<1>1. axis \in Int /\ -32768 <= axis /\ axis <= 32767 /\ AxisMax = 32767
  BY RawAxisBounds, SMT DEF AxisMax
<1>2. ASSUME NEW s \in Int, -32768 <= s, s < 32767
      PROVE  /\ StickByte(s) \in Int /\ StickByte(s + 1) \in Int /\ StickByte(s) <= StickByte(s + 1)
             /\ s + 1 \in RawAxis
  <2>1. s \in RawAxis /\ s + 1 \in RawAxis
    BY <1>2, RawAxisBounds, SMT
  <2>2. StickByte(s) \in Int /\ StickByte(s + 1) \in Int
    BY <2>1, StickByteType, ByteBounds
  <2>. QED
    BY <1>1, <1>2, <2>1, <2>2, SticksKeepOrder, SMT DEF SticksAreMonotone
<1>3. ASSUME NEW s \in Int, -32768 <= s, s <= 32768
      PROVE  Rested(Norm(s, 32768)) \in Int /\ Norm(s, 32768) \in ByteValue
  <2>1. Norm(s, 32768) \in ByteValue
    BY <1>3, NormSdl, SMT
  <2>. QED
    BY <2>1, RestedKeepsOrder, ByteBounds, SMT
<1>. DEFINE next == IF axis < AxisMax THEN axis + 1 ELSE AxisMax
            up == IF axis = -32768 THEN AxisMax ELSE -axis
<1>4. SdlByte(axis) \in StickByte(axis)..StickByte(next)
  <2>1. CASE axis < 0
    <3>1. Norm(axis, 32767) <= Norm(axis, 32768) /\ Norm(axis, 32768) <= Norm(axis + 1, 32767)
      BY <1>1, <2>1, ScalesAgree, SMT
    <3>2. axis + 1 \in RawAxis /\ axis < 32767 /\ next = axis + 1
      BY <1>1, <2>1, RawAxisBounds, SMT
    <3>3. Norm(axis, 32767) \in ByteValue /\ Norm(axis, 32768) \in ByteValue /\ Norm(axis + 1, 32767) \in ByteValue
      BY <1>1, <1>3, <3>2, NormXInput, SMT
    <3>4. SdlByte(axis) = Rested(Norm(axis, 32768))
      BY <2>1, SMT DEF SdlByte, SdlSpan
    <3>5. StickByte(axis) <= SdlByte(axis) /\ SdlByte(axis) <= StickByte(axis + 1)
      BY <3>1, <3>3, <3>4, RestedKeepsOrder, SMT DEF StickByte, AxisMax
    <3>6. SdlByte(axis) \in Int /\ StickByte(axis) \in Int /\ StickByte(axis + 1) \in Int
      BY <1>1, <1>2, <1>3, <3>2, <3>4, SMT
    <3>. HIDE DEF next
    <3>. QED
      BY <3>2, <3>5, <3>6, SMT
  <2>2. CASE axis >= 0
    <3>1. SdlByte(axis) = StickByte(axis)
      BY <1>1, <2>2, SMT DEF SdlByte, SdlSpan, StickByte
    <3>2. StickByte(axis) \in Int /\ StickByte(next) \in Int /\ StickByte(axis) <= StickByte(next)
      <4>1. CASE axis < 32767
        BY <1>1, <1>2, <4>1, SMT
      <4>2. CASE axis = 32767
        BY <1>1, <4>2, StickByteType, ByteBounds, SMT
      <4>. QED
        BY <1>1, <4>1, <4>2, SMT
    <3>. HIDE DEF next
    <3>. QED
      BY <3>1, <3>2, SMT
  <2>. QED
    BY <1>1, <2>1, <2>2, SMT
<1>5. SdlByteY(axis) \in StickByte(up - 1)..StickByte(up)
  <2>1. CASE axis < 0
    <3>. DEFINE s == -axis - 1
    <3>1. s \in Int /\ 0 <= s /\ s <= 32767 /\ s + 1 = -axis /\ s \in RawAxis /\ up \in RawAxis
          /\ up = IF s = 32767 THEN s ELSE s + 1
      BY <1>1, <2>1, RawAxisBounds, SMT
    <3>. HIDE DEF s, up
    <3>2. Norm(s, 32767) <= Norm(s + 1, 32768) /\ Norm(s + 1, 32768) <= Norm(up, 32767)
      BY <3>1, ScalesAgree, SMT
    <3>3. Norm(s, 32767) \in ByteValue /\ Norm(s + 1, 32768) \in ByteValue /\ Norm(up, 32767) \in ByteValue
      BY <1>3, <3>1, NormXInput, SMT
    <3>4. SdlByteY(axis) = Rested(Norm(s + 1, 32768))
      BY <2>1, <3>1, SMT DEF SdlByteY, SdlSpan
    <3>5. StickByte(s) <= SdlByteY(axis) /\ SdlByteY(axis) <= StickByte(up)
      BY <3>2, <3>3, <3>4, RestedKeepsOrder, SMT DEF StickByte, AxisMax
    <3>6. SdlByteY(axis) \in Int /\ StickByte(s) \in Int /\ StickByte(up) \in Int
      BY <1>3, <3>1, <3>4, StickByteType, ByteBounds, SMT
    <3>7. StickByte(up - 1) \in Int /\ StickByte(up - 1) <= StickByte(s)
      <4>1. CASE s = 32767
        <5>1. up - 1 = 32766 /\ 32766 + 1 = s
          BY <3>1, <4>1, SMT
        <5>. QED
          BY <1>2, <5>1, SMT
      <4>2. CASE s # 32767
        <5>1. up - 1 = s
          BY <3>1, <4>2, SMT
        <5>. QED
          BY <3>6, <5>1, SMT
      <4>. QED
        BY <4>1, <4>2
    <3>. QED
      BY <3>5, <3>6, <3>7, SMT
  <2>2. CASE axis >= 0
    <3>1. up = -axis /\ up - 1 \in Int /\ -32768 <= up - 1 /\ up - 1 < 32767 /\ (up - 1) + 1 = up
      BY <1>1, <2>2, SMT
    <3>2. SdlByteY(axis) = StickByte(up)
      BY <1>1, <2>2, <3>1, SMT DEF SdlByteY, SdlSpan, StickByte
    <3>. HIDE DEF up
    <3>3. StickByte(up - 1) \in Int /\ StickByte(up) \in Int /\ StickByte(up - 1) <= StickByte(up)
      BY <1>2, <3>1, SMT
    <3>. QED
      BY <3>2, <3>3, SMT
  <2>. QED
    BY <1>1, <2>1, <2>2, SMT
<1>. QED
  BY <1>4, <1>5 DEF SdlAgreesWithXInput

\* Both halves of norm_sdl_trigger are monotone, and they meet at a trigger that is released.
LEMMA TriggersKeepOrder ==
  ASSUME NEW axis \in RawAxis
  PROVE  TriggerIsPulledOnce(axis)
<1>1. axis \in Int /\ -32768 <= axis /\ axis <= 32767 /\ AxisMax = 32767
  BY RawAxisBounds, SMT DEF AxisMax
<1>. QED
  BY <1>1, SMT DEF TriggerIsPulledOnce, SdlTrigger

\* The order of the axes survives packing, for every value of every axis of the pad and on
\* every backend (Packet.norm, norm_sdl_axis, norm_sdl_trigger).
THEOREM AxesKeepTheirOrder == PadSpec => []AxesKeepOrder
<1>1. PadInit => AxesKeepOrder
  <2>. SUFFICES ASSUME PadInit, NEW i \in 1..4
                PROVE  SticksAreMonotone(axes[i]) /\ SdlAgreesWithXInput(axes[i]) /\ TriggerIsPulledOnce(axes[i])
    BY DEF AxesKeepOrder
  <2>1. axes[i] \in RawAxis
    BY DEF PadInit
  <2>. QED
    BY <2>1, SticksKeepOrder, SdlKeepsOrder, TriggersKeepOrder
<1>2. AxesKeepOrder /\ [UNCHANGED pad]_pad => AxesKeepOrder'
  <2>. SUFFICES ASSUME AxesKeepOrder, axes' = axes PROVE AxesKeepOrder'
    BY DEF pad
  <2>. QED
    BY DEF AxesKeepOrder
<1>. QED
  BY <1>1, <1>2, PTL DEF PadSpec

-----------------------------------------------------------------------------
\* The two readings of a button's bit.
LEMMA ButtonBit ==
  ASSUME NEW w \in Nat, NEW i \in 0..13
  PROVE  Bit(w, i) = 1 <=> (w % 2^(i + 1)) >= 2^i
<1>. DEFINE Reads(k) == Bit(w, k) = 1 <=> (w % 2^(k + 1)) >= 2^k
<1>1. Reads(0) /\ Reads(1) /\ Reads(2) /\ Reads(3) /\ Reads(4) /\ Reads(5) /\ Reads(6)
  BY SMT DEF Bit
<1>2. Reads(7) /\ Reads(8) /\ Reads(9) /\ Reads(10) /\ Reads(11) /\ Reads(12) /\ Reads(13)
  BY SMT DEF Bit
<1>. HIDE DEF Reads
<1>3. Reads(i)
  BY <1>1, <1>2
<1>. QED
  BY <1>3 DEF Reads

\* The console reads the two bytes of a triplet back, each at the middle of its 16 values.
LEMMA TripletReadsBack ==
  ASSUME NEW x \in ByteValue, NEW y \in ByteValue
  PROVE  /\ ConsoleStick(StickTriplet(x, y)) = <<16 * x + 8, 16 * y + 8>>
         /\ StickTriplet(x, y) \in Seq(ByteValue) /\ Len(StickTriplet(x, y)) = 3
<1>. DEFINE u == x * 16 + 8
            v == y * 16 + 8
            t1 == u % 256
            t2 == (v % 16) * 16 + (u \div 256)
            t3 == v \div 16
<1>1. StickTriplet(x, y) = <<t1, t2, t3>>
  BY DEF StickTriplet
<1>2. x \in Int /\ 0 <= x /\ x <= 255 /\ y \in Int /\ 0 <= y /\ y <= 255
  BY ByteBounds
<1>3. v % 16 = 8 /\ u \div 256 \in Int /\ 0 <= u \div 256 /\ u \div 256 <= 15
  BY <1>2, SMT
<1>4. t2 = 128 + (u \div 256) /\ t2 \in Int /\ 0 <= t2 /\ t2 <= 255 /\ t2 % 16 = u \div 256 /\ t2 \div 16 = 8
  BY <1>3, SMT
<1>5. t3 = y /\ t1 \in Int /\ 0 <= t1 /\ t1 <= 255 /\ t1 + (u \div 256) * 256 = u
  BY <1>2, SMT
<1>6. t1 + (t2 % 16) * 256 = 16 * x + 8 /\ (t2 \div 16) + t3 * 16 = 16 * y + 8
  BY <1>2, <1>4, <1>5, SMT
<1>7. t1 \in ByteValue /\ t2 \in ByteValue /\ t3 \in ByteValue
  BY <1>2, <1>4, <1>5, ByteBounds
<1>. HIDE DEF t1, t2, t3
<1>. QED
  BY <1>1, <1>6, <1>7 DEF ConsoleStick

\* The bytes of a packet.
LEMMA PacketBytes ==
  ASSUME PadInit
  PROVE  /\ packet = <<word \div 256, word % 256, hat, StickByte(axes[1]), StickByte(axes[2]),
                       StickByte(axes[3]), StickByte(axes[4]), 0>>
         /\ packet \in Seq(ByteValue) /\ Len(packet) = 8
         /\ (word \div 256) * 256 + (word % 256) = word /\ word \in Nat
<1>1. packet = <<word \div 256, word % 256, hat, StickByte(axes[1]), StickByte(axes[2]),
                 StickByte(axes[3]), StickByte(axes[4]), 0>>
  BY DEF packet, Pack
<1>2. word \in Int /\ 0 <= word /\ word <= 16383
  <2>1. WordMax = 16383
    BY DEF WordMax
  <2>2. WordMax \in Int
    BY <2>1
  <2>3. word \in Int /\ 0 <= word /\ word <= WordMax
    BY <2>2, SMT DEF PadInit
  <2>. QED
    BY <2>1, <2>3, SMT
<1>3. /\ word \div 256 \in ByteValue /\ word % 256 \in ByteValue
      /\ (word \div 256) * 256 + (word % 256) = word /\ word \in Nat
  BY <1>2, ByteBounds, SMT
<1>4. hat \in ByteValue /\ 0 \in ByteValue
  BY ByteBounds DEF PadInit
<1>5. /\ StickByte(axes[1]) \in ByteValue /\ StickByte(axes[2]) \in ByteValue
      /\ StickByte(axes[3]) \in ByteValue /\ StickByte(axes[4]) \in ByteValue
  BY StickByteType DEF PadInit
<1>. QED
  BY <1>1, <1>3, <1>4, <1>5

\* What the two d-pad conversions say of each direction.
LEMMA DirectionsOfVector ==
  ASSUME NEW v
  PROVE  /\ Directions(v) \subseteq {"up", "down", "left", "right"}
         /\ "up" \in Directions(v) <=> v[2] = 1
         /\ "down" \in Directions(v) <=> v[2] = -1
         /\ "left" \in Directions(v) <=> v[1] = -1
         /\ "right" \in Directions(v) <=> v[1] = 1
  BY DEF Directions

\* The directions of a d-pad value, one by one.
LEMMA DirectionsOfHat ==
  ASSUME NEW h
  PROVE  /\ DpadOf(h) \subseteq {"up", "down", "left", "right"}
         /\ "up" \in DpadOf(h) <=> h \in {0, 1, 7}
         /\ "down" \in DpadOf(h) <=> h \in {3, 4, 5}
         /\ "left" \in DpadOf(h) <=> h \in {5, 6, 7}
         /\ "right" \in DpadOf(h) <=> h \in {1, 2, 3}
  BY DEF DpadOf

\* The nine values of HAT_MAP are read back as the directions they were made from.
LEMMA HatReadsBack ==
  ASSUME NEW h \in 0..8
  PROVE  DpadOf(h) = Directions(HatVector[h + 1])
<1>. DEFINE v == HatVector[h + 1]
<1>1. /\ HatVector[1] = <<0, 1>> /\ HatVector[2] = <<1, 1>> /\ HatVector[3] = <<1, 0>>
      /\ HatVector[4] = <<1, -1>> /\ HatVector[5] = <<0, -1>> /\ HatVector[6] = <<-1, -1>>
      /\ HatVector[7] = <<-1, 0>> /\ HatVector[8] = <<-1, 1>> /\ HatVector[9] = <<0, 0>>
  BY DEF HatVector
<1>2. /\ v[2] = 1 <=> h \in {0, 1, 7}
      /\ v[2] = -1 <=> h \in {3, 4, 5}
  BY <1>1
<1>3. /\ v[1] = -1 <=> h \in {5, 6, 7}
      /\ v[1] = 1 <=> h \in {1, 2, 3}
  BY <1>1
<1>. HIDE DEF v
<1>4. \A d \in {"up", "down", "left", "right"} : d \in DpadOf(h) <=> d \in Directions(v)
  BY <1>2, <1>3, DirectionsOfVector, DirectionsOfHat
<1>5. DpadOf(h) \subseteq Directions(v) /\ Directions(v) \subseteq DpadOf(h)
  BY <1>4, DirectionsOfVector, DirectionsOfHat
<1>. QED
  BY <1>5 DEF v

\* The elements of a concatenation.
LEMMA ConcatAt ==
  ASSUME NEW S, NEW s \in Seq(S), NEW t \in Seq(S)
  PROVE  /\ s \o t \in Seq(S) /\ Len(s \o t) = Len(s) + Len(t)
         /\ \A i \in 1..Len(s) : (s \o t)[i] = s[i]
         /\ \A i \in 1..Len(t) : (s \o t)[i + Len(s)] = t[i]
  OBVIOUS

\* The elements after an append.
LEMMA AppendAt ==
  ASSUME NEW S, NEW s \in Seq(S), NEW e \in S
  PROVE  /\ Append(s, e) \in Seq(S) /\ Len(Append(s, e)) = Len(s) + 1
         /\ Append(s, e)[Len(s) + 1] = e /\ \A i \in 1..Len(s) : Append(s, e)[i] = s[i]
  OBVIOUS

\* The elements of a sequence in which one was replaced.
LEMMA ReplaceAt ==
  ASSUME NEW S, NEW s \in Seq(S), NEW p \in 1..Len(s), NEW e \in S
  PROVE  /\ [s EXCEPT ![p] = e] \in Seq(S) /\ Len([s EXCEPT ![p] = e]) = Len(s)
         /\ [s EXCEPT ![p] = e][p] = e
         /\ \A i \in 1..Len(s) : i # p => [s EXCEPT ![p] = e][i] = s[i]
  OBVIOUS

\* The elements of a prefix.
LEMMA PrefixAt ==
  ASSUME NEW S, NEW s \in Seq(S), NEW n \in 0..Len(s)
  PROVE  /\ SubSeq(s, 1, n) \in Seq(S) /\ Len(SubSeq(s, 1, n)) = n
         /\ \A i \in 1..n : SubSeq(s, 1, n)[i] = s[i]
  OBVIOUS

\* Two triplets in a row, and each of them again.
LEMMA TwoTriplets ==
  ASSUME NEW S, NEW s \in Seq(S), NEW t \in Seq(S)
  PROVE  Len(s) = 3 /\ Len(t) = 3 =>
           /\ \A i \in 1..3 : (s \o t)[i] = s[i] /\ (s \o t)[i + 3] = t[i]
           /\ \A i \in 1..3 : SubSeq(s \o t, 1, 3)[i] = s[i] /\ SubSeq(s \o t, 4, 6)[i] = t[i]
<1>. DEFINE both == s \o t
<1>0. /\ both \in Seq(S) /\ Len(both) = Len(s) + Len(t)
      /\ \A i \in 1..Len(s) : both[i] = s[i]
      /\ \A i \in 1..Len(t) : both[i + Len(s)] = t[i]
  BY ConcatAt
<1>. HIDE DEF both
<1>. SUFFICES ASSUME Len(s) = 3, Len(t) = 3
              PROVE  /\ \A i \in 1..3 : both[i] = s[i] /\ both[i + 3] = t[i]
                     /\ \A i \in 1..3 : SubSeq(both, 1, 3)[i] = s[i] /\ SubSeq(both, 4, 6)[i] = t[i]
  BY DEF both
<1>1. both \in Seq(S) /\ Len(both) = 6
  BY <1>0
<1>2. \A i \in 1..3 : both[i] = s[i] /\ both[i + 3] = t[i]
  BY <1>0
<1>3. \A i \in 1..3 : SubSeq(both, 1, 3)[i] = both[i] /\ SubSeq(both, 4, 6)[i] = both[i + 3]
  BY <1>1
<1>. QED
  BY <1>2, <1>3

\* What the console reads is what was pressed, for all buttons, d-pad directions and values
\* of the axes (Packet.pack, populate_report_from_serial).
THEOREM PackedInputIsRead == PadSpec => []ConsoleReadsWhatWasPacked
<1>1. ASSUME PadInit PROVE ConsoleReadsWhatWasPacked
  <2>. DEFINE report == PopulateReport(packet)
              b(i) == StickByte(axes[i])
              l == StickTriplet(b(1), b(2))
              r == StickTriplet(b(3), b(4))
  <2>1. /\ packet[1] = word \div 256 /\ packet[2] = word % 256 /\ packet[3] = hat
        /\ packet[4] = b(1) /\ packet[5] = b(2) /\ packet[6] = b(3) /\ packet[7] = b(4)
        /\ (word \div 256) * 256 + (word % 256) = word /\ word \in Nat
    BY <1>1, PacketBytes
  <2>2. report.buttons = ButtonsOf(word) /\ report.dpad = DpadOf(hat) /\ report.analog = l \o r
    BY <2>1 DEF PopulateReport
  <2>3. \A i \in 0..13 : i \in report.buttons <=> (word % 2^(i + 1)) >= 2^i
    BY <2>1, <2>2, ButtonBit DEF ButtonsOf
  <2>4. report.dpad = Directions(HatVector[hat + 1])
    BY <1>1, <2>2, HatReadsBack DEF PadInit
  <2>5. b(1) \in ByteValue /\ b(2) \in ByteValue /\ b(3) \in ByteValue /\ b(4) \in ByteValue
    BY <1>1, StickByteType DEF PadInit
  <2>. HIDE DEF b
  <2>6. l \in Seq(ByteValue) /\ Len(l) = 3 /\ r \in Seq(ByteValue) /\ Len(r) = 3
    BY <2>5, TripletReadsBack
  <2>7. /\ ConsoleStick(l) = <<16 * b(1) + 8, 16 * b(2) + 8>>
        /\ ConsoleStick(r) = <<16 * b(3) + 8, 16 * b(4) + 8>>
    BY <2>5, TripletReadsBack
  <2>. HIDE DEF l, r
  <2>8. /\ \A i \in 1..3 : (l \o r)[i] = l[i] /\ (l \o r)[i + 3] = r[i]
        /\ \A i \in 1..3 : SubSeq(l \o r, 1, 3)[i] = l[i] /\ SubSeq(l \o r, 4, 6)[i] = r[i]
    BY <2>6, TwoTriplets
  <2>. DEFINE a == report.analog
  <2>9. a = l \o r
    BY <2>2
  <2>. HIDE DEF a
  <2>10. \A i \in 1..6 : a[i] \in ByteValue
    <3>1. \A i \in 1..3 : l[i] \in ByteValue /\ r[i] \in ByteValue
      BY <2>6
    <3>2. \A i \in 1..3 : a[i] \in ByteValue /\ a[i + 3] \in ByteValue
      BY <2>8, <2>9, <3>1
    <3>3. \A i \in 1..6 : i \in 1..3 \/ (i - 3 \in 1..3 /\ (i - 3) + 3 = i)
      OBVIOUS
    <3>. QED
      BY <3>2, <3>3
  <2>11. ConsoleStick(SubSeq(a, 1, 3)) = ConsoleStick(l) /\ ConsoleStick(SubSeq(a, 4, 6)) = ConsoleStick(r)
    <3>1. \A i \in 1..3 : SubSeq(a, 1, 3)[i] = l[i] /\ SubSeq(a, 4, 6)[i] = r[i]
      BY <2>8, <2>9
    <3>. QED
      BY <3>1 DEF ConsoleStick
  <2>. HIDE DEF report
  <2>12. ConsoleStick(SubSeq(a, 1, 3)) = <<16 * b(1) + 8, 16 * b(2) + 8>>
    BY <2>7, <2>11
  <2>13. ConsoleStick(SubSeq(a, 4, 6)) = <<16 * b(3) + 8, 16 * b(4) + 8>>
    BY <2>7, <2>11
  <2>. QED
    BY <2>3, <2>4, <2>10, <2>12, <2>13 DEF ConsoleReadsWhatWasPacked, a, b, report
<1>2. ConsoleReadsWhatWasPacked /\ [UNCHANGED pad]_pad => ConsoleReadsWhatWasPacked'
  <2>. SUFFICES ASSUME ConsoleReadsWhatWasPacked, word' = word, hat' = hat, axes' = axes
                PROVE  ConsoleReadsWhatWasPacked'
    BY DEF pad
  <2>1. packet' = packet
    BY DEF packet
  <2>. QED
    BY <2>1 DEF ConsoleReadsWhatWasPacked
<1>. QED
  BY <1>1, <1>2, PTL DEF PadSpec

\* A frame that arrives with one byte altered is rejected, whatever the packet, the byte and
\* the value it arrives with (crc8, _crc8_ccitt_update).
THEOREM AlteredFramesAreRejected == PadSpec => []OneAlteredByteIsRejected
<1>1. ASSUME PadInit PROVE OneAlteredByteIsRejected
  <2>. DEFINE altered == [frame EXCEPT ![place] = value]
              got == SubSeq(altered, 1, 8)
  <2>. SUFFICES ASSUME place # 0 PROVE Crc8(got) = altered[9] <=> altered = frame
    BY DEF OneAlteredByteIsRejected
  <2>0. /\ packet \in Seq(ByteValue) /\ Crc8(packet) \in ByteValue
        /\ place \in 1..9 /\ value \in ByteValue
    BY <1>1, PacketBytes, Crc8Type DEF PadInit
  <2>a. /\ frame \in Seq(ByteValue) /\ Len(frame) = Len(packet) + 1 /\ frame[Len(packet) + 1] = Crc8(packet)
        /\ \A i \in 1..Len(packet) : frame[i] = packet[i]
    BY <2>0, AppendAt DEF frame
  <2>1. Len(packet) = 8
    BY <1>1, PacketBytes
  <2>2. /\ frame \in Seq(ByteValue) /\ Len(frame) = 9 /\ frame[9] = Crc8(packet)
        /\ \A i \in 1..8 : frame[i] = packet[i]
    BY <2>1, <2>a
  <2>3. /\ altered \in Seq(ByteValue) /\ Len(altered) = 9
        /\ altered[place] = value /\ \A i \in 1..9 : i # place => altered[i] = frame[i]
    <3>1. place \in 1..Len(frame)
      BY <2>0, <2>2
    <3>2. /\ altered \in Seq(ByteValue) /\ Len(altered) = Len(frame)
          /\ altered[place] = value /\ \A i \in 1..Len(frame) : i # place => altered[i] = frame[i]
      BY <2>0, <2>a, <3>1, ReplaceAt
    <3>. HIDE DEF altered
    <3>. QED
      BY <2>2, <3>2
  <2>4. altered = frame <=> value = frame[place]
    BY <2>0, <2>2
  <2>. HIDE DEF altered
  <2>5. got \in Seq(ByteValue) /\ Len(got) = 8 /\ \A i \in 1..8 : got[i] = altered[i]
    <3>1. 8 \in 0..Len(altered)
      BY <2>3
    <3>. QED
      BY <2>3, <3>1, PrefixAt
  <2>. HIDE DEF got
  <2>6. CASE place = 9 \/ value = frame[place]
    <3>1. \A i \in 1..8 : got[i] = packet[i]
      <4>1. \A i \in 1..9 : i # 9 => altered[i] = frame[i]
        BY <2>3, <2>6
      <4>2. \A i \in 1..8 : i \in 1..9 /\ i # 9
        OBVIOUS
      <4>. QED
        BY <2>2, <2>5, <4>1, <4>2
    <3>2. got = packet
      BY <2>0, <2>1, <2>5, <3>1
    <3>. QED
      BY <2>0, <2>1, <2>2, <2>3, <2>4, <2>6, <3>2
  <2>7. CASE place # 9 /\ value # frame[place]
    <3>1. place \in 1..8 /\ place \in 1..9
      BY <2>0, <2>7
    <3>2. got[place] # packet[place] /\ altered[9] = Crc8(packet) /\ altered # frame
      BY <2>2, <2>3, <2>4, <2>5, <2>7, <3>1
    <3>3. \A i \in 1..8 : i # place => packet[i] = got[i]
      BY <2>2, <2>3, <2>5
    <3>4. /\ place \in 1..Len(packet) /\ Len(got) = Len(packet)
          /\ \A i \in 1..Len(packet) : i # place => packet[i] = got[i]
      BY <2>1, <2>5, <3>1, <3>3
    <3>5. Crc8(packet) # Crc8(got)
      BY <2>0, <2>5, <3>2, <3>4, OneByteChangesChecksum
    <3>. QED
      BY <3>2, <3>5
  <2>. QED
    BY <2>6, <2>7
<1>2. OneAlteredByteIsRejected /\ [UNCHANGED pad]_pad => OneAlteredByteIsRejected'
  <2>. SUFFICES ASSUME OneAlteredByteIsRejected, UNCHANGED pad PROVE OneAlteredByteIsRejected'
    BY DEF pad
  <2>1. frame' = frame /\ place' = place /\ value' = value
    BY DEF frame, packet, pad
  <2>. QED
    BY <2>1 DEF OneAlteredByteIsRejected
<1>. QED
  BY <1>1, <1>2, PTL DEF PadSpec

-----------------------------------------------------------------------------
(***************************************************************************)
(* The interrupt with the real bytes, frames and checksum.                 *)
(***************************************************************************)
RealWidths ==
  /\ Byte = ByteValue /\ PayloadLen = 8
  /\ CrcZero = 0 /\ \A c, b \in ByteValue : CrcUpdate(c, b) = Crc8Update(c, b)

\* What the interrupt accumulates byte by byte is the checksum that the host appends, for
\* any number of bytes (crc8, _crc8_ccitt_update).
THEOREM ChecksumsAgree == RealWidths => \A data \in Seq(ByteValue) : CrcOf(data) = Crc8(data)
<1>. SUFFICES ASSUME RealWidths, NEW data \in Seq(ByteValue) PROVE CrcOf(data) = Crc8(data)
  OBVIOUS
<1>1. PICK f \in [0..Len(data) -> ByteValue] : Crc8Run(f, data) /\ Crc8(data) = f[Len(data)]
  BY Crc8IsARun
<1>2. ASSUME NEW i \in 0..Len(data)
      PROVE  f[i] = IF i = 0 THEN CrcZero ELSE CrcUpdate(f[i - 1], data[i])
  <2>1. f[i] = IF i = 0 THEN 0 ELSE Crc8Update(f[i - 1], data[i])
    BY <1>1 DEF Crc8Run
  <2>2. i # 0 => f[i - 1] \in ByteValue /\ data[i] \in ByteValue
    OBVIOUS
  <2>. QED
    BY <2>1, <2>2 DEF RealWidths
<1>3. CrcRun(f, data)
  BY <1>1, <1>2 DEF CrcRun
<1>4. data \in Seq(Byte)
  BY DEF RealWidths
<1>. QED
  BY <1>1, <1>3, <1>4, CrcOfRun

\* Two sequences that differ in one element.
OneApart(s, t) ==
  /\ Len(s) = Len(t)
  /\ \E i \in 1..Len(s) : s[i] # t[i] /\ \A j \in 1..Len(s) : j # i => s[j] = t[j]

\* The nine bytes that the interrupt compares are the frame of no packet once one of them is
\* altered: the byte is answered with an error, or taken for a request to synchronise, and
\* no report is decoded.
AlteredFrameIsRefused ==
  \A q \in Seq(ByteValue), b \in ByteValue, r \in Response \cup {NoResponse} :
    /\ Len(q) = 8 /\ OneApart(Append(q, Crc8(q)), Append(input, b))
    /\ state = "SYNCED" /\ ISR(b, r)
    => r \in {RESP_UPDATE_NACK, RESP_SYNC_START} /\ UNCHANGED controllerReport

\* Nine bytes that differ from a frame in one place do not end with their checksum: either the
\* payload differs and so does its checksum, or the payload is the same and the last byte differs.
LEMMA AlteredFrameHasNoChecksum ==
  ASSUME NEW q \in Seq(ByteValue), NEW s \in Seq(ByteValue), NEW b \in ByteValue,
         OneApart(Append(q, Crc8(q)), Append(s, b))
  PROVE  Len(s) = Len(q) /\ Crc8(s) # b
<1>. DEFINE n == Len(q)
            f == Append(q, Crc8(q))
            g == Append(s, b)
<1>1. Crc8(q) \in ByteValue
  BY Crc8Type
<1>a. /\ Len(f) = n + 1 /\ f[n + 1] = Crc8(q) /\ \A i \in 1..n : f[i] = q[i]
      /\ Len(g) = Len(s) + 1 /\ g[Len(s) + 1] = b /\ \A i \in 1..Len(s) : g[i] = s[i]
  BY <1>1, AppendAt
<1>b. Len(s) = n
  <2>1. Len(s) \in Nat /\ n \in Nat /\ Len(f) = Len(g)
    BY DEF OneApart
  <2>. HIDE DEF n, f, g
  <2>. QED
    BY <1>a, <2>1
<1>2. /\ Len(f) = n + 1 /\ f[n + 1] = Crc8(q) /\ \A i \in 1..n : f[i] = q[i]
      /\ Len(g) = n + 1 /\ g[n + 1] = b /\ \A i \in 1..n : g[i] = s[i]
  <2>. HIDE DEF n, f, g
  <2>. QED
    BY <1>a, <1>b
<1>3. PICK i \in 1..Len(f) : f[i] # g[i] /\ \A j \in 1..Len(f) : j # i => f[j] = g[j]
  BY DEF OneApart
<1>4. n \in Nat /\ i \in 1..(n + 1)
  BY <1>2, <1>3
<1>. HIDE DEF n, f, g
<1>5. CASE i = n + 1
  <2>1. \A j \in 1..n : j \in 1..Len(f) /\ j # i
    BY <1>2, <1>4, <1>5
  <2>2. \A j \in 1..n : q[j] = s[j]
    BY <1>2, <1>3, <2>1
  <2>3. q = s
    BY <1>b, <2>2 DEF n
  <2>. QED
    BY <1>b, <1>2, <1>3, <1>5, <2>3 DEF n
<1>6. CASE i # n + 1
  <2>1. i \in 1..n /\ n + 1 \in 1..Len(f)
    BY <1>2, <1>4, <1>6
  <2>2. \A j \in 1..n : j \in 1..Len(f)
    BY <1>2, <1>4
  <2>3. b = Crc8(q)
    BY <1>2, <1>3, <1>6, <2>1
  <2>4. q[i] # s[i] /\ \A j \in 1..n : j # i => q[j] = s[j]
    BY <1>2, <1>3, <2>1, <2>2
  <2>5. Crc8(q) # Crc8(s)
    BY <1>b, <2>1, <2>4, OneByteChangesChecksum DEF n
  <2>. QED
    BY <1>b, <2>3, <2>5 DEF n
<1>. QED
  BY <1>5, <1>6

\* In every state that the board reaches with the real checksum, for every packet and every
\* altered byte, an altered frame is refused (ISR(USART1_RX_vect)).
THEOREM AlteredFramesAreRefused == RealWidths => (Spec => [][AlteredFrameIsRefused]_vars)
<1>. SUFFICES ASSUME RealWidths PROVE Spec => [][AlteredFrameIsRefused]_vars
  OBVIOUS
<1>1. ASSUME IInv PROVE AlteredFrameIsRefused
  <2>. SUFFICES ASSUME NEW q \in Seq(ByteValue), NEW b \in ByteValue, NEW r \in Response \cup {NoResponse},
                       Len(q) = 8, OneApart(Append(q, Crc8(q)), Append(input, b)),
                       state = "SYNCED", ISR(b, r)
                PROVE  r \in {RESP_UPDATE_NACK, RESP_SYNC_START} /\ UNCHANGED controllerReport
    BY DEF AlteredFrameIsRefused
  <2>1. input \in Seq(ByteValue) /\ crc = CrcOf(input)
    BY <1>1 DEF IInv, TypeOK, FrameIsConsistent, RealWidths
  <2>2. Len(input) = Len(q) /\ Crc8(input) # b
    BY <2>1, AlteredFrameHasNoChecksum
  <2>3. crc # b
    BY <2>1, <2>2, ChecksumsAgree
  <2>4. Len(input) = PayloadLen /\ ~(Len(input) < PayloadLen)
    BY <2>1, <2>2 DEF RealWidths
  <2>5. RxResync(b, r) \/ RxNack(b, r)
    BY <2>3, <2>4 DEF ISR, RxFill, RxAccept, RxSync1, RxSync2, RxStart, RxDesync
  <2>. QED
    BY <2>5 DEF RxResync, RxNack, KeepReports
<1>2. Spec => []IInv
  BY Invariance
<1>. QED
  BY <1>1, <1>2, PTL
=============================================================================

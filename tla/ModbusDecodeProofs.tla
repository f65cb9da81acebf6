--------------------------- MODULE ModbusDecodeProofs ---------------------------
(***************************************************************************)
(* Proofs about ModbusDecode, for bytes of any even number of values, 256  *)
(* among them, and responses of any length.                                *)
(***************************************************************************)
EXTENDS ModbusDecode, SequenceTheorems, WellFoundedInduction, TLAPS

-----------------------------------------------------------------------------
(***************************************************************************)
(* Division                                                                *)
(***************************************************************************)
\* A number is written in one way as a multiple and a remainder.
LEMMA UniqueRemainder ==
  ASSUME NEW d \in Nat \ {0}, NEW q \in Int, NEW p \in Int,
         NEW r \in 0 .. d - 1, NEW s \in 0 .. d - 1, q * d + r = p * d + s
  PROVE  q = p /\ r = s
<1>1. (q - p) * d = s - r
  OBVIOUS
<1>2. ASSUME NEW k \in Int, k >= 1
      PROVE  k * d >= d
  BY <1>2
<1>3. CASE q - p >= 1
  <2>1. (q - p) * d >= d
    BY <1>2, <1>3
  <2> QED
    BY <1>1, <2>1
<1>4. CASE p - q >= 1
  <2>1. (p - q) * d >= d
    BY <1>2, <1>4
  <2>2. (p - q) * d = r - s
    BY <1>1
  <2> QED
    BY <2>1, <2>2
<1>5. CASE q = p
  BY <1>1, <1>5
<1> QED
  BY <1>3, <1>4, <1>5

LEMMA DivMod ==
  ASSUME NEW d \in Nat \ {0}, NEW q \in Int, NEW r \in 0 .. d - 1
  PROVE  (q * d + r) \div d = q /\ (q * d + r) % d = r
<1> DEFINE v == q * d + r
<1>1. v \in Int
  OBVIOUS
<1>2. /\ v \div d \in Int /\ v % d \in 0 .. d - 1
      /\ v = (v \div d) * d + (v % d)
  BY <1>1
<1> QED
  BY <1>2, UniqueRemainder

-----------------------------------------------------------------------------
(***************************************************************************)
(* Sizes                                                                   *)
(***************************************************************************)
\* The number of values of a width is even, and half of it is as expected.
EvenSize(size) == size \in Nat \ {0} /\ 2 * (size \div 2) = size

LEMMA EvenProduct ==
  ASSUME NEW m \in Nat \ {0}, EvenSize(m)
  PROVE  EvenSize(m * m)
<1>1. PICK k \in Nat \ {0} : m = 2 * k
  BY DEF EvenSize
<1>2. m * m = 2 * (k * m) /\ k * m \in Nat \ {0}
  BY <1>1
<1>3. (m * m) \div 2 = k * m
  BY <1>2
<1> QED
  BY <1>2, <1>3 DEF EvenSize

LEMMA Sizes == EvenSize(Size16) /\ EvenSize(Size32) /\ EvenSize(Size64)
<1>1. EvenSize(Base)
  BY BaseAssumption DEF EvenSize
<1>2. EvenSize(Size16)
  BY <1>1, EvenProduct DEF Size16, EvenSize
<1>3. EvenSize(Size32)
  BY <1>2, EvenProduct DEF Size32, EvenSize
<1> QED
  BY <1>2, <1>3, EvenProduct DEF Size64, EvenSize

\* The signed integer is the unsigned one, or less by the size, and in range.
LEMMA SignedShape ==
  ASSUME NEW size, EvenSize(size), NEW u \in 0 .. size - 1
  PROVE  /\ \E k \in {0, -1} : Signed(u, size) = k * size + u
         /\ 2 * Signed(u, size) \in -size .. size - 1
<1>1. CASE u < size \div 2
  BY <1>1 DEF Signed, EvenSize
<1>2. CASE ~ (u < size \div 2)
  BY <1>2 DEF Signed, EvenSize
<1> QED
  BY <1>1, <1>2

-----------------------------------------------------------------------------
(***************************************************************************)
(* Bytes and numbers                                                       *)
(***************************************************************************)
Word(a, b) == a * Base + b

LEMMA WordRange ==
  ASSUME NEW a \in Byte, NEW b \in Byte
  PROVE  Word(a, b) \in 0 .. Size16 - 1
<1>1. Base \in Nat \ {0} /\ a \in Nat /\ b \in Nat /\ a <= Base - 1 /\ b <= Base - 1
  BY BaseAssumption DEF Byte
<1>2. (Base - 1) * Base = Base * Base - Base
  BY <1>1
<1>3. a * Base <= (Base - 1) * Base /\ a * Base \in Nat
  BY <1>1
<1> QED
  BY <1>1, <1>2, <1>3 DEF Word, Size16

\* The bytes of a word, of two words and of four are found in its number, and
\* in every number that differs by a multiple of the size.
LEMMA Bytes2OfWord ==
  ASSUME NEW a \in Byte, NEW b \in Byte, NEW k \in Int
  PROVE  Bytes2(k * Size16 + Word(a, b)) = <<a, b>>
<1> USE DEF Byte
<1>1. Base \in Nat \ {0}
  BY BaseAssumption
<1>2. k * Size16 + Word(a, b) = (k * Base + a) * Base + b /\ k * Base + a \in Int
  BY <1>1 DEF Word, Size16
<1> DEFINE v == k * Size16 + Word(a, b)
<1> HIDE DEF v
<1>3. v \div Base = k * Base + a /\ v % Base = b
  BY <1>1, <1>2, DivMod DEF v
<1>4. (k * Base + a) % Base = a
  BY <1>1, DivMod
<1>5. Bytes2(v) = <<a, b>>
  BY <1>3, <1>4 DEF Bytes2
<1> QED
  BY <1>5 DEF v

\* A sequence made of the elements of two others is their concatenation.
LEMMA Joined ==
  ASSUME NEW S, NEW s \in Seq(S), NEW t \in Seq(S), NEW u \in Seq(S),
         Len(u) = Len(s) + Len(t),
         \A i \in 1 .. Len(s) : u[i] = s[i],
         \A i \in 1 .. Len(t) : u[Len(s) + i] = t[i]
  PROVE  s \o t = u
<1> DEFINE v == s \o t
<1>1. v \in Seq(S) /\ Len(v) = Len(s) + Len(t)
      /\ \A i \in 1 .. Len(s) + Len(t) :
           v[i] = IF i <= Len(s) THEN s[i] ELSE t[i - Len(s)]
  BY ConcatProperties
<1> HIDE DEF v
<1>2. ASSUME NEW i \in 1 .. Len(v)
      PROVE  v[i] = u[i]
  <2>1. CASE i <= Len(s)
    BY <1>1, <2>1
  <2>2. CASE ~ (i <= Len(s))
    <3>1. i - Len(s) \in 1 .. Len(t) /\ Len(s) + (i - Len(s)) = i
      BY <1>1, <2>2
    <3>2. v[i] = t[i - Len(s)]
      BY <1>1, <2>2
    <3>3. u[Len(s) + (i - Len(s))] = t[i - Len(s)]
      BY <3>1
    <3> QED
      BY <3>1, <3>2, <3>3
  <2> QED
    BY <2>1, <2>2
<1>3. v = u
  BY <1>1, <1>2, SeqEqual
<1> QED
  BY <1>3 DEF v

LEMMA TwoAndTwo ==
  ASSUME NEW a \in Byte, NEW b \in Byte, NEW c \in Byte, NEW d \in Byte
  PROVE  <<a, b>> \o <<c, d>> = <<a, b, c, d>>
<1> DEFINE s == <<a, b>>
           t == <<c, d>>
           u == <<a, b, c, d>>
<1>1. s \in Seq(Byte) /\ t \in Seq(Byte) /\ u \in Seq(Byte)
  OBVIOUS
<1>2. Len(s) = 2 /\ Len(t) = 2 /\ Len(u) = 4
  OBVIOUS
<1>3. \A i \in 1 .. 2 : u[i] = s[i] /\ u[2 + i] = t[i]
  OBVIOUS
<1> HIDE DEF s, t, u
<1>4. /\ Len(u) = Len(s) + Len(t)
      /\ \A i \in 1 .. Len(s) : u[i] = s[i]
      /\ \A i \in 1 .. Len(t) : u[Len(s) + i] = t[i]
  BY <1>2, <1>3
<1>5. s \o t = u
  BY <1>1, <1>4, Joined
<1> QED
  BY <1>5 DEF s, t, u

LEMMA FourAndFour ==
  ASSUME NEW a \in Byte, NEW b \in Byte, NEW c \in Byte, NEW d \in Byte,
         NEW e \in Byte, NEW f \in Byte, NEW g \in Byte, NEW h \in Byte
  PROVE  <<a, b, c, d>> \o <<e, f, g, h>> = <<a, b, c, d, e, f, g, h>>
<1> DEFINE s == <<a, b, c, d>>
           t == <<e, f, g, h>>
           u == <<a, b, c, d, e, f, g, h>>
<1>1. s \in Seq(Byte) /\ t \in Seq(Byte) /\ u \in Seq(Byte)
  OBVIOUS
<1>2. Len(s) = 4 /\ Len(t) = 4 /\ Len(u) = 8
  OBVIOUS
<1>3. \A i \in 1 .. 4 : u[i] = s[i] /\ u[4 + i] = t[i]
  OBVIOUS
<1> HIDE DEF s, t, u
<1>4. /\ Len(u) = Len(s) + Len(t)
      /\ \A i \in 1 .. Len(s) : u[i] = s[i]
      /\ \A i \in 1 .. Len(t) : u[Len(s) + i] = t[i]
  BY <1>2, <1>3
<1>5. s \o t = u
  BY <1>1, <1>4, Joined
<1> QED
  BY <1>5 DEF s, t, u

\* Two numbers of the same width side by side.
LEMMA DoubleRange ==
  ASSUME NEW size \in Nat \ {0}, NEW x \in 0 .. size - 1, NEW y \in 0 .. size - 1
  PROVE  x * size + y \in 0 .. size * size - 1
<1>1. x * size <= (size - 1) * size /\ x * size \in Nat
  OBVIOUS
<1>2. (size - 1) * size = size * size - size
  OBVIOUS
<1> QED
  BY <1>1, <1>2

LEMMA Bytes4OfWords ==
  ASSUME NEW a \in Byte, NEW b \in Byte, NEW c \in Byte, NEW d \in Byte, NEW k \in Int
  PROVE  Bytes4(k * Size32 + (Word(a, b) * Size16 + Word(c, d))) = <<a, b, c, d>>
<1> DEFINE x == Word(a, b)
           y == Word(c, d)
           v == k * Size32 + (x * Size16 + y)
           q == k * Size16 + x
<1>1. Size16 \in Nat \ {0} /\ x \in 0 .. Size16 - 1 /\ y \in 0 .. Size16 - 1
  BY Sizes, WordRange DEF EvenSize
<1>2. Bytes2(q) = <<a, b>>
  BY Bytes2OfWord
<1>3. \A n \in Int : Bytes2(n * Size16 + y) = <<c, d>>
  BY Bytes2OfWord
<1> HIDE DEF x, y
<1>4. v = q * Size16 + y /\ q \in Int
  BY <1>1 DEF Size32
<1> HIDE DEF v, q
<1>5. v \div Size16 = q
  BY <1>1, <1>4, DivMod
<1>6. Bytes2(v) = <<c, d>>
  BY <1>3, <1>4
<1>7. Bytes4(v) = <<a, b, c, d>>
  <2>1. <<a, b>> \o <<c, d>> = <<a, b, c, d>>
    BY TwoAndTwo
  <2> QED
    BY <1>2, <1>5, <1>6, <2>1 DEF Bytes4
<1> QED
  BY <1>7 DEF v, x, y

\* s are the four bytes of n, and of every number that agrees with it there.
EndsIn(n, s) == \A k \in Int : Bytes4(k * Size32 + n) = s

DoubleWord(a, b, c, d) == Word(a, b) * Size16 + Word(c, d)

LEMMA Bytes4OfDoubleWord ==
  ASSUME NEW a \in Byte, NEW b \in Byte, NEW c \in Byte, NEW d \in Byte
  PROVE  /\ EndsIn(DoubleWord(a, b, c, d), <<a, b, c, d>>)
         /\ DoubleWord(a, b, c, d) \in 0 .. Size32 - 1
<1>1. DoubleWord(a, b, c, d) \in 0 .. Size32 - 1
  <2>1. Word(a, b) \in 0 .. Size16 - 1 /\ Word(c, d) \in 0 .. Size16 - 1
    BY WordRange
  <2> QED
    BY <2>1, Sizes, DoubleRange DEF EvenSize, Size32, DoubleWord
<1> QED
  BY <1>1, Bytes4OfWords DEF DoubleWord, EndsIn

LEMMA Bytes8OfHalves ==
  ASSUME NEW x \in 0 .. Size32 - 1, NEW y \in 0 .. Size32 - 1, NEW s, NEW t,
         EndsIn(x, s), EndsIn(y, t), NEW k \in Int
  PROVE  Bytes8(k * Size64 + (x * Size32 + y)) = s \o t
<1> DEFINE v == k * Size64 + (x * Size32 + y)
           q == k * Size32 + x
<1>1. Size32 \in Nat \ {0}
  BY Sizes DEF EvenSize
<1>2. Bytes4(q) = s
  BY DEF EndsIn
<1>3. v = q * Size32 + y /\ q \in Int
  BY <1>1 DEF Size64
<1> HIDE DEF v, q
<1>4. v \div Size32 = q
  BY <1>1, <1>3, DivMod
<1>5. Bytes4(v) = t
  BY <1>3 DEF EndsIn
<1>6. Bytes8(v) = s \o t
  BY <1>2, <1>4, <1>5 DEF Bytes8
<1> QED
  BY <1>6 DEF v

-----------------------------------------------------------------------------
(***************************************************************************)
(* The helpers on a whole response                                         *)
(***************************************************************************)
\* The number a helper makes of a response, by its words.
LEMMA WordOfResponse ==
  ASSUME NEW b \in Seq(Byte), Len(b) >= 2
  PROVE  b[1] \in Byte /\ b[2] \in Byte /\ U16(b) = Word(b[1], b[2])
  BY DEF U16, Word

LEMMA WordsOfResponse ==
  ASSUME NEW b \in Seq(Byte), Len(b) >= 4
  PROVE  /\ b[1] \in Byte /\ b[2] \in Byte /\ b[3] \in Byte /\ b[4] \in Byte
         /\ U32(b) = Word(b[1], b[2]) * Size16 + Word(b[3], b[4])
         /\ U32LE(b) = Word(b[3], b[4]) * Size16 + Word(b[1], b[2])
<1>1. /\ b[1] \in Byte /\ b[2] \in Byte /\ b[3] \in Byte /\ b[4] \in Byte
      /\ U16(b) = Word(b[1], b[2])
  BY WordOfResponse
<1>2. Word(b[1], b[2]) \in Int /\ Word(b[3], b[4]) \in Int /\ Size16 \in Nat
  <2>1. Word(b[1], b[2]) \in 0 .. Size16 - 1 /\ Word(b[3], b[4]) \in 0 .. Size16 - 1
    BY <1>1, WordRange
  <2> QED
    BY <2>1, Sizes DEF EvenSize
<1>3. /\ U16(SubSeq(b, 1, 2)) = Word(b[1], b[2])
      /\ U16(SubSeq(b, 3, 4)) = Word(b[3], b[4])
  BY <1>1 DEF U16, Word
<1>4. U32LE(b) = Word(b[3], b[4]) * Size16 + Word(b[1], b[2])
  <2>1. U32LE(b) = Word(b[1], b[2]) + Word(b[3], b[4]) * Size16
    BY <1>3 DEF U32LE
  <2>2. \A x, y \in Int : x + y * Size16 = y * Size16 + x
    BY <1>2
  <2> QED
    BY <1>2, <2>1, <2>2
<1>5. U32(b) = Word(b[1], b[2]) * Size16 + Word(b[3], b[4])
  <2>1. Base \in Nat /\ b[3] \in Nat /\ b[4] \in Nat /\ Word(b[1], b[2]) \in Int
    BY <1>1, <1>2, BaseAssumption DEF Byte
  <2>2. \A w \in Int, c \in Nat, d \in Nat :
          (w * Base + c) * Base + d = w * (Base * Base) + (c * Base + d)
    BY <2>1
  <2>3. U32(b) = (Word(b[1], b[2]) * Base + b[3]) * Base + b[4]
    BY <1>1 DEF U32
  <2> QED
    BY <2>1, <2>2, <2>3 DEF Word, Size16
<1> QED
  BY <1>1, <1>4, <1>5

LEMMA Horner ==
  ASSUME NEW u \in Int, NEW c \in Nat, NEW d \in Nat, NEW e \in Nat, NEW f \in Nat
  PROVE  u * Size32 + (Word(c, d) * Size16 + Word(e, f))
           = (((u * Base + c) * Base + d) * Base + e) * Base + f
  BY BaseAssumption DEF Size32, Size16, Word

LEMMA LongOfResponse ==
  ASSUME NEW b \in Seq(Byte), Len(b) >= 8
  PROVE  /\ b[5] \in Byte /\ b[6] \in Byte /\ b[7] \in Byte /\ b[8] \in Byte
         /\ U64BE(b) = (Word(b[1], b[2]) * Size16 + Word(b[3], b[4])) * Size32
                         + (Word(b[5], b[6]) * Size16 + Word(b[7], b[8]))
<1>1. /\ b[5] \in Byte /\ b[6] \in Byte /\ b[7] \in Byte /\ b[8] \in Byte
      /\ U64BE(b) = (((U32(b) * Base + b[5]) * Base + b[6]) * Base + b[7]) * Base + b[8]
  BY DEF U64BE
<1>2. U32(b) = Word(b[1], b[2]) * Size16 + Word(b[3], b[4]) /\ U32(b) \in Int
  <2>1. /\ b[1] \in Byte /\ b[2] \in Byte /\ b[3] \in Byte /\ b[4] \in Byte
        /\ U32(b) = Word(b[1], b[2]) * Size16 + Word(b[3], b[4])
    BY WordsOfResponse
  <2>2. Word(b[1], b[2]) \in 0 .. Size16 - 1 /\ Word(b[3], b[4]) \in 0 .. Size16 - 1
    BY <2>1, WordRange
  <2> QED
    BY <2>1, <2>2, Sizes DEF EvenSize
<1>3. Base \in Nat /\ b[5] \in Nat /\ b[6] \in Nat /\ b[7] \in Nat /\ b[8] \in Nat
  BY <1>1, BaseAssumption DEF Byte
<1>4. U32(b) * Size32 + (Word(b[5], b[6]) * Size16 + Word(b[7], b[8]))
        = (((U32(b) * Base + b[5]) * Base + b[6]) * Base + b[7]) * Base + b[8]
  <2> DEFINE u == U32(b)
             c == b[5]
             d == b[6]
             e == b[7]
             f == b[8]
  <2>1. u \in Int /\ c \in Nat /\ d \in Nat /\ e \in Nat /\ f \in Nat
    BY <1>2, <1>3
  <2> HIDE DEF u, c, d, e, f
  <2>2. u * Size32 + (Word(c, d) * Size16 + Word(e, f))
          = (((u * Base + c) * Base + d) * Base + e) * Base + f
    BY <2>1, Horner
  <2> QED
    BY <2>2 DEF u, c, d, e, f
<1> QED
  BY <1>1, <1>2, <1>4

-----------------------------------------------------------------------------
(***************************************************************************)
(* Signed readings                                                         *)
(***************************************************************************)
LEMMA S16IsComplement ==
  ASSUME NEW b \in Seq(Byte), Len(b) = 2
  PROVE  /\ Bytes2(S16(b)) = b /\ 2 * S16(b) \in -Size16 .. Size16 - 1
         /\ U8(b) = S16(b) % Base
<1>1. PICK x, y \in Byte : b = <<x, y>>
  <2>1. b[1] \in Byte /\ b[2] \in Byte /\ b = <<b[1], b[2]>>
    OBVIOUS
  <2> QED
    BY <2>1
<1>2. b[1] = x /\ b[2] = y /\ U8(b) = y
  BY <1>1 DEF U8, Last
<1>3. U16(b) = Word(x, y) /\ Word(x, y) \in 0 .. Size16 - 1
  <2>1. U16(b) = b[1] * Base + b[2]
    BY DEF U16
  <2>2. Word(x, y) \in 0 .. Size16 - 1
    BY WordRange
  <2> QED
    BY <1>2, <2>1, <2>2 DEF Word
<1>4. /\ \E k \in {0, -1} : S16(b) = k * Size16 + Word(x, y)
      /\ 2 * S16(b) \in -Size16 .. Size16 - 1
  BY <1>3, Sizes, SignedShape DEF S16
<1>5. Bytes2(S16(b)) = <<x, y>>
  BY <1>4, Bytes2OfWord
<1>6. S16(b) % Base = y
  <2>1. Bytes2(S16(b))[2] = y
    BY <1>5
  <2> QED
    BY <2>1 DEF Bytes2
<1> QED
  BY <1>1, <1>2, <1>4, <1>5, <1>6

LEMMA FourBytes ==
  ASSUME NEW b \in Seq(Byte), Len(b) = 4
  PROVE  \E p, q, r, s \in Byte :
           /\ b = <<p, q, r, s>>
           /\ U32(b) = Word(p, q) * Size16 + Word(r, s)
           /\ U32LE(b) = Word(r, s) * Size16 + Word(p, q)
<1>1. Len(b) >= 4
  OBVIOUS
<1>2. /\ b[1] \in Byte /\ b[2] \in Byte /\ b[3] \in Byte /\ b[4] \in Byte
      /\ U32(b) = Word(b[1], b[2]) * Size16 + Word(b[3], b[4])
      /\ U32LE(b) = Word(b[3], b[4]) * Size16 + Word(b[1], b[2])
  BY <1>1, WordsOfResponse, Zenon
<1>3. b = <<b[1], b[2], b[3], b[4]>>
  OBVIOUS
<1> QED
  BY <1>2, <1>3, Zenon

LEMMA S32IsComplement ==
  ASSUME NEW b \in Seq(Byte), Len(b) = 4
  PROVE  /\ Bytes4(S32(b)) = b /\ 2 * S32(b) \in -Size32 .. Size32 - 1
         /\ Bytes4(S32LE(b)) = <<b[3], b[4], b[1], b[2]>>
<1>1. PICK p, q, r, s \in Byte :
        /\ b = <<p, q, r, s>>
        /\ U32(b) = Word(p, q) * Size16 + Word(r, s)
        /\ U32LE(b) = Word(r, s) * Size16 + Word(p, q)
  BY FourBytes
<1>2. U32(b) \in 0 .. Size32 - 1 /\ U32LE(b) \in 0 .. Size32 - 1
  BY <1>1, Bytes4OfDoubleWord DEF DoubleWord
<1>3. /\ \E k \in {0, -1} : S32(b) = k * Size32 + U32(b)
      /\ 2 * S32(b) \in -Size32 .. Size32 - 1
  BY <1>2, Sizes, SignedShape DEF S32
<1>4. \E k \in {0, -1} : S32LE(b) = k * Size32 + U32LE(b)
  BY <1>2, Sizes, SignedShape DEF S32LE
<1>5. Bytes4(S32(b)) = <<p, q, r, s>>
  <2> DEFINE n == Word(p, q) * Size16 + Word(r, s)
  <2>1. PICK k \in {0, -1} : S32(b) = k * Size32 + n
    BY <1>1, <1>3
  <2>2. \A i \in Int : Bytes4(i * Size32 + n) = <<p, q, r, s>>
    BY Bytes4OfWords
  <2> HIDE DEF n
  <2> QED
    BY <2>1, <2>2
<1>6. Bytes4(S32LE(b)) = <<r, s, p, q>>
  <2> DEFINE n == Word(r, s) * Size16 + Word(p, q)
  <2>1. PICK k \in {0, -1} : S32LE(b) = k * Size32 + n
    BY <1>1, <1>4
  <2>2. \A i \in Int : Bytes4(i * Size32 + n) = <<r, s, p, q>>
    BY Bytes4OfWords
  <2> HIDE DEF n
  <2> QED
    BY <2>1, <2>2
<1>7. b[1] = p /\ b[2] = q /\ b[3] = r /\ b[4] = s
  BY <1>1
<1> QED
  BY <1>1, <1>3, <1>5, <1>6, <1>7

LEMMA EightBytes ==
  ASSUME NEW b \in Seq(Byte), Len(b) = 8
  PROVE  \E p, q, r, s, t, u, v, w \in Byte :
           /\ b = <<p, q, r, s, t, u, v, w>>
           /\ U64BE(b) = (Word(p, q) * Size16 + Word(r, s)) * Size32
                           + (Word(t, u) * Size16 + Word(v, w))
<1>1. Len(b) >= 4 /\ Len(b) >= 8
  OBVIOUS
<1>2. /\ b[1] \in Byte /\ b[2] \in Byte /\ b[3] \in Byte /\ b[4] \in Byte
  BY <1>1, WordsOfResponse, Zenon
<1>3. /\ b[5] \in Byte /\ b[6] \in Byte /\ b[7] \in Byte /\ b[8] \in Byte
      /\ U64BE(b) = (Word(b[1], b[2]) * Size16 + Word(b[3], b[4])) * Size32
                      + (Word(b[5], b[6]) * Size16 + Word(b[7], b[8]))
  BY <1>1, LongOfResponse, Zenon
<1>4. b = <<b[1], b[2], b[3], b[4], b[5], b[6], b[7], b[8]>>
  OBVIOUS
<1> DEFINE p == b[1]
           q == b[2]
           r == b[3]
           s == b[4]
           t == b[5]
           u == b[6]
           v == b[7]
           w == b[8]
<1>5. /\ p \in Byte /\ q \in Byte /\ r \in Byte /\ s \in Byte
      /\ t \in Byte /\ u \in Byte /\ v \in Byte /\ w \in Byte
  BY <1>2, <1>3
<1>6. /\ b = <<p, q, r, s, t, u, v, w>>
      /\ U64BE(b) = (Word(p, q) * Size16 + Word(r, s)) * Size32
                      + (Word(t, u) * Size16 + Word(v, w))
  BY <1>3, <1>4
<1> HIDE DEF p, q, r, s, t, u, v, w
<1> WITNESS p \in Byte, q \in Byte, r \in Byte, s \in Byte,
            t \in Byte, u \in Byte, v \in Byte, w \in Byte
<1> QED
  BY <1>6

LEMMA S64IsComplement ==
  ASSUME NEW b \in Seq(Byte), Len(b) = 8
  PROVE  Bytes8(S64BE(b)) = b /\ 2 * S64BE(b) \in -Size64 .. Size64 - 1
<1>1. PICK p, q, r, s, t, u, v, w \in Byte :
        /\ b = <<p, q, r, s, t, u, v, w>>
        /\ U64BE(b) = (Word(p, q) * Size16 + Word(r, s)) * Size32
                        + (Word(t, u) * Size16 + Word(v, w))
  BY EightBytes
<1> DEFINE hi == DoubleWord(p, q, r, s)
           lo == DoubleWord(t, u, v, w)
           first == <<p, q, r, s>>
           second == <<t, u, v, w>>
<1>2. hi \in 0 .. Size32 - 1 /\ lo \in 0 .. Size32 - 1
  BY Bytes4OfDoubleWord
<1>3. EndsIn(hi, first) /\ EndsIn(lo, second)
  BY Bytes4OfDoubleWord, Zenon
<1>4. U64BE(b) = hi * Size32 + lo
  BY <1>1 DEF DoubleWord
<1>5. first \o second = b
  BY <1>1, FourAndFour
<1> HIDE DEF hi, lo, first, second
<1>6. U64BE(b) \in 0 .. Size64 - 1
  BY <1>2, <1>4, Sizes, DoubleRange DEF EvenSize, Size64
<1>7. /\ \E k \in {0, -1} : S64BE(b) = k * Size64 + U64BE(b)
      /\ 2 * S64BE(b) \in -Size64 .. Size64 - 1
  BY <1>6, Sizes, SignedShape DEF S64BE
<1>8. Bytes8(S64BE(b)) = first \o second
  <2>1. PICK k \in Int : S64BE(b) = k * Size64 + (hi * Size32 + lo)
    BY <1>4, <1>7
  <2>2. Bytes8(k * Size64 + (hi * Size32 + lo)) = first \o second
    <3>1. \A x, y \in 0 .. Size32 - 1 : \A f, g : EndsIn(x, f) /\ EndsIn(y, g) =>
            \A i \in Int : Bytes8(i * Size64 + (x * Size32 + y)) = f \o g
      BY Bytes8OfHalves
    <3>2. \A i \in Int : Bytes8(i * Size64 + (hi * Size32 + lo)) = first \o second
      <4>1. \A f, g : EndsIn(hi, f) /\ EndsIn(lo, g) =>
              \A i \in Int : Bytes8(i * Size64 + (hi * Size32 + lo)) = f \o g
        BY <1>2, <3>1
      <4> QED
        BY <1>3, <4>1, Zenon
    <3> QED
      BY <2>1, <3>2, Zenon
  <2> QED
    BY <2>1, <2>2
<1> QED
  BY <1>5, <1>7, <1>8

-----------------------------------------------------------------------------
(***************************************************************************)
(* Text                                                                    *)
(***************************************************************************)
\* A set of numbers that is not empty has a least one.
LEMMA Least ==
  ASSUME NEW T, T \subseteq Nat, T # {}
  PROVE  \E m \in T : \A n \in T : m <= n
<1> DEFINE R == {p \in Nat \X Nat : p[1] < p[2]}
<1>1. IsWellFoundedOn(R, Nat)
  BY NatLessThanWellFounded DEF OpToRel
<1>2. \A x, y \in Nat : y < x => <<y, x>> \in R
  OBVIOUS
<1> HIDE DEF R
<1>3. PICK m \in T : \A n \in T : ~ (<<n, m>> \in R)
  BY <1>1, WFMin
<1>4. ASSUME NEW n \in T
      PROVE  m <= n
  <2>1. m \in Nat /\ n \in Nat /\ ~ (<<n, m>> \in R)
    BY <1>3
  <2>2. ~ (n < m)
    BY <1>2, <2>1, Zenon
  <2> QED
    BY <2>1, <2>2
<1> QED
  BY <1>4

LEMMA TextShape ==
  ASSUME NEW b \in Seq(Byte)
  PROVE  \E n \in 0 .. Len(b) :
           /\ UTF8(b) = SubSeq(b, 1, n)
           /\ \A i \in 1 .. n : b[i] # 0
           /\ n < Len(b) => b[n + 1] = 0
<1>1. CASE \E i \in DOMAIN b : b[i] = 0
  <2> DEFINE zeros == {i \in 1 .. Len(b) : b[i] = 0}
             First(i) == b[i] = 0 /\ \A j \in 1 .. i - 1 : b[j] # 0
             first == CHOOSE i \in DOMAIN b : First(i)
  <2>1. zeros \subseteq Nat /\ zeros # {}
    BY <1>1
  <2>2. PICK m \in zeros : \A n \in zeros : m <= n
    BY <2>1, Least
  <2>3. m \in DOMAIN b /\ First(m)
    BY <2>2
  <2>4. first \in DOMAIN b /\ First(first)
    <3> HIDE DEF First
    <3> QED
      BY <2>3
  <2>5. UTF8(b) = SubSeq(b, 1, first - 1)
    BY <1>1 DEF UTF8
  <2> HIDE DEF first
  <2>6. first \in 1 .. Len(b)
    BY <2>4
  <2>7. first - 1 \in 0 .. Len(b) /\ (first - 1) + 1 = first
    BY <2>6
  <2>8. \A i \in 1 .. first - 1 : b[i] # 0
    BY <2>4
  <2>9. b[(first - 1) + 1] = 0
    BY <2>4, <2>7
  <2> QED
    BY <2>5, <2>7, <2>8, <2>9
<1>2. CASE ~ \E i \in DOMAIN b : b[i] = 0
  <2>1. UTF8(b) = b /\ SubSeq(b, 1, Len(b)) = b
    BY <1>2 DEF UTF8
  <2>2. Len(b) \in 0 .. Len(b)
    OBVIOUS
  <2> WITNESS Len(b) \in 0 .. Len(b)
  <2> QED
    BY <1>2, <2>1
<1> QED
  BY <1>1, <1>2

-----------------------------------------------------------------------------
(***************************************************************************)
(* Theorems                                                                *)
(***************************************************************************)
\* The response holds bytes.
IsBytes == resp \in Seq(Byte)

LEMMA ResponseIsBytes == Spec => []IsBytes
<1>1. Init => IsBytes
  BY DEF Init, IsBytes
<1>2. IsBytes /\ [Arrive]_resp => IsBytes'
  <2> SUFFICES ASSUME IsBytes, [Arrive]_resp
               PROVE  IsBytes'
    OBVIOUS
  <2>1. CASE Arrive
    <3>1. PICK b \in Byte : resp' = Append(resp, b)
      BY <2>1 DEF Arrive
    <3> QED
      BY <3>1 DEF IsBytes
  <2>2. CASE UNCHANGED resp
    BY <2>2 DEF IsBytes
  <2> QED
    BY <2>1, <2>2
<1> QED
  BY <1>1, <1>2, PTL DEF Spec

\* S16, S32, S32LE and S64BE (ion7400/internal/modbus.go:89-95, 114, 168) for
\* bytes of 256 values as for those of the runs: every response is decoded to
\* the number whose two's complement it is, and U8 to the low byte of the word.
THEOREM TwosComplementHolds == Spec => []TwosComplement
<1>1. IsBytes => TwosComplement
  BY S16IsComplement, S32IsComplement, S64IsComplement DEF TwosComplement, IsBytes
<1> QED
  BY <1>1, ResponseIsBytes, PTL

\* UTF8 (ion7400/internal/modbus.go:95-103): a text of any length is cut at its
\* first NUL and nowhere else.
THEOREM TextIsCutHolds == Spec => []TextIsCut
<1>1. ASSUME resp \in Seq(Byte)
      PROVE  TextIsCut
  <2>1. PICK n \in 0 .. Len(resp) :
          /\ UTF8(resp) = SubSeq(resp, 1, n)
          /\ \A i \in 1 .. n : resp[i] # 0
          /\ n < Len(resp) => resp[n + 1] = 0
    BY <1>1, TextShape
  <2>2. Len(UTF8(resp)) = n /\ \A i \in 1 .. n : UTF8(resp)[i] = resp[i]
    BY <1>1, <2>1
  <2>3. DOMAIN UTF8(resp) = 1 .. n
    BY <1>1, <2>1
  <2>4. IsPrefix(UTF8(resp), resp)
    <3>1. SubSeq(UTF8(resp), 1, n) = UTF8(resp)
      BY <1>1, <2>1
    <3> QED
      BY <1>1, <2>1, <2>2, <3>1 DEF IsPrefix
  <2> QED
    BY <2>1, <2>2, <2>3, <2>4 DEF TextIsCut
<1>2. IsBytes => TextIsCut
  BY <1>1 DEF IsBytes
<1> QED
  BY <1>2, ResponseIsBytes, PTL
===============================================================================

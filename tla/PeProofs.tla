------------------------------ MODULE PeProofs ------------------------------
(***************************************************************************)
(* What the operators of PeImage return, for every value of its constants, *)
(* up to the theorem that a file assembled by write_signed_pe_to is read   *)
(* back as signed, over the same digest, with the same signature.          *)
(*                                                                         *)
(* Then PeWriter, for every input, blob, buffer size and layout: its       *)
(* variables keep their types, and with an output path of its own an       *)
(* output reported as done is that file, or the one of                     *)
(* write_unsigned_pe_to; what a failure leaves never looks signed by       *)
(* mistake; and the writer implements Publish.                             *)
(***************************************************************************)
EXTENDS PeWriter, BasicLemmas


----------------------------------------------------------------------------
(* Integers *)

LEMMA WordType == Word \in Nat /\ Word >= 256 /\ Base * Base \in Nat
<1>1. Base * Base \in Nat /\ Base * Base >= 16
  BY BaseAssumption
<1>2. \A q \in Nat : q >= 16 => q * q \in Nat /\ q * q >= 256
  OBVIOUS
<1>3. Word = (Base * Base) * (Base * Base)
  BY BaseAssumption DEF Word
<1> QED BY <1>1, <1>2, <1>3

LEMMA PadLenType ==
    ASSUME NEW n \in Nat
    PROVE  /\ PadLen(n) \in 0 .. 7
           /\ (n + PadLen(n)) % 8 = 0
           /\ PadLen(n + PadLen(n)) = 0
  BY DEF PadLen

LEMMA PadLenNat == \A n \in Nat : PadLen(n) \in Nat
  BY PadLenType

----------------------------------------------------------------------------
(* Little-endian fields *)

LEMMA Put16Type ==
    ASSUME NEW n \in Nat
    PROVE  Put16(n) \in Seq(Byte) /\ Len(Put16(n)) = 2
<1>1. Base \in Nat \ {0}
  BY BaseAssumption
<1>2. n % Base \in Byte /\ n \div Base \in Nat
  BY <1>1, DivMod DEF Byte
<1>3. (n \div Base) % Base \in Byte
  BY <1>1, <1>2, DivMod DEF Byte
<1> QED BY <1>2, <1>3 DEF Put16

LEMMA Put32Type ==
    ASSUME NEW n \in Nat
    PROVE  Put32(n) \in Seq(Byte) /\ Len(Put32(n)) = 4
<1>1. Base \in Nat \ {0}
  BY BaseAssumption
<1>2. \A m \in Nat : m % Base \in Byte /\ m \div Base \in Nat
  BY <1>1, DivMod DEF Byte
<1> DEFINE n1 == n \div Base
           n2 == n1 \div Base
           n3 == n2 \div Base
<1>3. n1 \in Nat /\ n2 \in Nat /\ n3 \in Nat
  BY <1>2
<1>4. n % Base \in Byte /\ n1 % Base \in Byte /\ n2 % Base \in Byte /\ n3 % Base \in Byte
  BY <1>2, <1>3
<1>5. Put32(n) = << n % Base, n1 % Base, n2 % Base, n3 % Base >>
  BY DEF Put32
<1> HIDE DEF n1, n2, n3
<1> QED BY <1>4, <1>5

\* What Put16 and Put32 wrote, read_u16 and read_u32 read.
LEMMA RoundTrip16 ==
    ASSUME NEW n \in U16s, NEW f, NEW a \in Nat,
           f[a+1] = Put16(n)[1], f[a+2] = Put16(n)[2]
    PROVE  read_u16(f, a) = n
<1>1. Base \in Nat \ {0} /\ n \in Nat /\ n < Base * Base
  BY BaseAssumption, WordType DEF U16s
<1>2. n = (n % Base) + (Base * (n \div Base)) /\ n \div Base \in Nat
  BY <1>1, DivMod
<1>3. n \div Base < Base
  BY <1>1, DivBound
<1>4. (n \div Base) % Base = n \div Base
  BY <1>1, <1>2, <1>3
<1>5. f[a+1] = n % Base /\ f[a+2] = n \div Base
  BY <1>4 DEF Put16
<1> QED BY <1>2, <1>5 DEF read_u16

LEMMA RoundTrip32 ==
    ASSUME NEW n \in U32s, NEW f, NEW a \in Nat,
           f[a+1] = Put32(n)[1], f[a+2] = Put32(n)[2],
           f[a+3] = Put32(n)[3], f[a+4] = Put32(n)[4]
    PROVE  read_u32(f, a) = n
<1> DEFINE B2 == Base * Base
           B3 == Base * B2
           n1 == n \div Base
           n2 == n1 \div Base
           n3 == n2 \div Base
<1>1. Base \in Nat \ {0} /\ n \in Nat /\ n < Word
  BY BaseAssumption, WordType DEF U32s
<1>2. B2 \in Nat /\ B3 \in Nat
  BY <1>1
<1>3. Word = Base * B3
  BY <1>1 DEF Word
<1>4. n1 \in Nat /\ n2 \in Nat /\ n3 \in Nat
  BY <1>1, DivMod
<1>5. n1 < B3
  BY <1>1, <1>2, <1>3, DivBound
<1>6. n2 < B2
  BY <1>1, <1>2, <1>4, <1>5, DivBound
<1>7. n3 < Base
  BY <1>1, <1>2, <1>4, <1>6, DivBound
<1>8. n3 % Base = n3
  BY <1>1, <1>4, <1>7
<1>9. n = (n % Base) + (Base * n1) /\ n1 = (n1 % Base) + (Base * n2)
      /\ n2 = (n2 % Base) + (Base * n3)
  BY <1>1, <1>4, DivMod
<1>10. Put32(n) = << n % Base, n1 % Base, n2 % Base, n3 % Base >>
  BY DEF Put32
<1> HIDE DEF n1, n2, n3, B2, B3
<1>11. f[a+1] = n % Base /\ f[a+2] = n1 % Base /\ f[a+3] = n2 % Base /\ f[a+4] = n3
  BY <1>8, <1>10
<1> QED BY <1>9, <1>11 DEF read_u32

LEMMA ReadType ==
    ASSUME NEW f \in Seq(Byte), NEW a \in Nat
    PROVE  /\ a + 2 <= Len(f) => read_u16(f, a) \in U16s
           /\ a + 4 <= Len(f) => read_u32(f, a) \in U32s
<1>1. Base \in Nat
  BY BaseAssumption
<1>2. \A i \in 1 .. Len(f) : f[i] \in 0 .. Base - 1
  <2>1. \A i \in 1 .. Len(f) : f[i] \in Byte
    OBVIOUS
  <2> QED BY <2>1 DEF Byte
<1>3. ASSUME a + 2 <= Len(f) PROVE read_u16(f, a) \in U16s
  <2>1. f[a+1] \in 0 .. Base - 1 /\ f[a+2] \in 0 .. Base - 1
    BY <1>2, <1>3
  <2> QED BY <1>1, <2>1, Horner DEF read_u16, U16s
<1>4. ASSUME a + 4 <= Len(f) PROVE read_u32(f, a) \in U32s
  <2>1. /\ f[a+1] \in 0 .. Base - 1 /\ f[a+2] \in 0 .. Base - 1
        /\ f[a+3] \in 0 .. Base - 1 /\ f[a+4] \in 0 .. Base - 1
    BY <1>2, <1>4
  <2> DEFINE B2 == Base * Base
             B3 == Base * B2
  <2>2. B2 \in Nat /\ B3 \in Nat
    BY <1>1
  <2>3. f[a+3] + Base * f[a+4] \in 0 .. B2 - 1
    BY <1>1, <2>1, Horner
  <2>4. f[a+2] + Base * (f[a+3] + Base * f[a+4]) \in 0 .. B3 - 1
    <3> HIDE DEF B2
    <3> QED BY <1>1, <2>1, <2>2, <2>3, Horner
  <2>5. f[a+1] + Base * (f[a+2] + Base * (f[a+3] + Base * f[a+4])) \in 0 .. Base * B3 - 1
    <3> HIDE DEF B3
    <3> QED BY <1>1, <2>1, <2>2, <2>4, Horner
  <2>6. Word = Base * B3
    BY <1>1 DEF Word
  <2> QED BY <2>5, <2>6 DEF read_u32, U32s
<1> QED BY <1>3, <1>4

\* The bytes read_u32 reads a number from are the ones Put32 writes for it.
LEMMA Digits32 ==
    ASSUME NEW f \in Seq(Byte), NEW a \in Nat, a + 4 <= Len(f)
    PROVE  \A i \in 1 .. 4 : f[a + i] = Put32(read_u32(f, a))[i]
<1> DEFINE b1 == f[a+1]
           b2 == f[a+2]
           b3 == f[a+3]
           b4 == f[a+4]
           m2 == b3 + Base * b4
           m1 == b2 + Base * m2
           n  == b1 + Base * m1
<1>1. Base \in Nat \ {0}
  BY BaseAssumption
<1>2. b1 \in 0 .. Base - 1 /\ b2 \in 0 .. Base - 1 /\ b3 \in 0 .. Base - 1
      /\ b4 \in 0 .. Base - 1
  <2>1. a + 1 \in 1 .. Len(f) /\ a + 2 \in 1 .. Len(f) /\ a + 3 \in 1 .. Len(f)
        /\ a + 4 \in 1 .. Len(f)
    OBVIOUS
  <2>2. \A i \in 1 .. Len(f) : f[i] \in Byte
    OBVIOUS
  <2> QED BY <2>1, <2>2 DEF Byte
<1>3. read_u32(f, a) = n
  BY DEF read_u32
<1> HIDE DEF b1, b2, b3, b4
<1>4. b4 \in Nat /\ m2 \in Nat /\ b4 % Base = b4
  BY <1>1, <1>2
<1>5. m2 % Base = b3 /\ m2 \div Base = b4
  BY <1>1, <1>2, <1>4, DivModUnique
<1> HIDE DEF m2
<1>6. m1 \in Nat /\ m1 % Base = b2 /\ m1 \div Base = m2
  BY <1>1, <1>2, <1>4, DivModUnique
<1> HIDE DEF m1
<1>7. n % Base = b1 /\ n \div Base = m1
  BY <1>1, <1>2, <1>6, DivModUnique
<1> HIDE DEF n
<1>8. Put32(n) = << b1, b2, b3, b4 >>
  BY <1>4, <1>5, <1>6, <1>7 DEF Put32
<1>9. \A i \in 1 .. 4 : i = 1 \/ i = 2 \/ i = 3 \/ i = 4
  OBVIOUS
<1> QED BY <1>3, <1>8, <1>9 DEF b1, b2, b3, b4

----------------------------------------------------------------------------
(* Reads, writes and concatenation, byte by byte *)

LEMMA ZeroIsByte == 0 \in Byte
  BY BaseAssumption DEF Byte

LEMMA ZerosType ==
    ASSUME NEW n \in Nat
    PROVE  /\ Zeros(n) \in Seq(Byte)
           /\ Len(Zeros(n)) = n
           /\ \A i \in 1 .. n : Zeros(n)[i] = 0
  BY ZeroIsByte DEF Zeros

LEMMA NotEmpty ==
    ASSUME NEW s \in Seq(Byte), Len(s) > 0
    PROVE  s # << >>
  OBVIOUS

LEMMA Cancel ==
    ASSUME NEW a \in Seq(Byte), NEW x \in Seq(Byte), NEW y \in Seq(Byte), a \o x = a \o y
    PROVE  x = y
<1>1. Len(a \o x) = Len(a) + Len(x) /\ Len(a \o y) = Len(a) + Len(y)
  OBVIOUS
<1>2. Len(x) = Len(y)
  BY <1>1
<1>3. \A i \in 1 .. Len(x) : (a \o x)[Len(a) + i] = x[i]
  OBVIOUS
<1>4. \A i \in 1 .. Len(y) : (a \o y)[Len(a) + i] = y[i]
  OBVIOUS
<1>5. \A i \in 1 .. Len(x) : x[i] = y[i]
  BY <1>2, <1>3, <1>4
<1> QED BY <1>2, <1>5, SeqEqual

\* Bytes within the file, the only ones the program asks for in an intact one.
LEMMA BytesWithin ==
    ASSUME NEW f \in Seq(Byte), NEW a \in Nat, NEW b \in Nat, a <= b, b <= Len(f)
    PROVE  /\ Bytes(f, a, b) \in Seq(Byte)
           /\ Len(Bytes(f, a, b)) = b - a
           /\ \A i \in 1 .. b - a : Bytes(f, a, b)[i] = f[a + i]
<1>1. Bytes(f, a, b) = [i \in 1 .. b - a |-> f[a + i]]
  BY DEF Bytes
<1>2. \A i \in 1 .. b - a : f[a + i] \in Byte
  OBVIOUS
<1> QED BY <1>1, <1>2

LEMMA BytesType ==
    ASSUME NEW f \in Seq(Byte), NEW a \in Nat, NEW b \in Nat
    PROVE  Bytes(f, a, b) \in Seq(Byte)
<1>1. CASE b <= Len(f) /\ a <= b
  BY <1>1, BytesWithin
<1>2. CASE b > Len(f) /\ a <= Len(f)
  <2>1. Bytes(f, a, b) = Bytes(f, a, Len(f))
    BY <1>2 DEF Bytes
  <2> QED BY <1>2, <2>1, BytesWithin
<1>3. CASE (b <= Len(f) /\ a > b) \/ (b > Len(f) /\ a > Len(f))
  <2>1. Bytes(f, a, b) = << >>
    BY <1>3 DEF Bytes
  <2> QED BY <2>1
<1> QED BY <1>1, <1>2, <1>3

\* Two reads in a row are one read.
LEMMA BytesJoin ==
    ASSUME NEW f \in Seq(Byte), NEW a \in Nat, NEW b \in Nat, NEW c \in Nat,
           a <= b, b <= c, c <= Len(f)
    PROVE  Bytes(f, a, b) \o Bytes(f, b, c) = Bytes(f, a, c)
<1> DEFINE x == Bytes(f, a, b)
           y == Bytes(f, b, c)
           z == Bytes(f, a, c)
<1>0. a <= c /\ b <= Len(f)
  OBVIOUS
<1>1. x \in Seq(Byte) /\ Len(x) = b - a /\ \A i \in 1 .. b - a : x[i] = f[a + i]
  BY <1>0, BytesWithin
<1>2. y \in Seq(Byte) /\ Len(y) = c - b /\ \A i \in 1 .. c - b : y[i] = f[b + i]
  BY <1>0, BytesWithin
<1>3. z \in Seq(Byte) /\ Len(z) = c - a /\ \A i \in 1 .. c - a : z[i] = f[a + i]
  BY <1>0, BytesWithin
<1> HIDE DEF x, y, z
<1> DEFINE w == x \o y
<1>4. /\ w \in Seq(Byte) /\ Len(w) = Len(x) + Len(y)
      /\ \A i \in 1 .. Len(x) : w[i] = x[i]
      /\ \A i \in 1 .. Len(y) : w[Len(x) + i] = y[i]
  <2>1. x \in Seq(Byte) /\ y \in Seq(Byte)
    BY <1>1, <1>2
  <2> QED BY <2>1
<1> HIDE DEF w
<1>5. Len(w) = Len(z)
  BY <1>1, <1>2, <1>3, <1>4
<1>6. ASSUME NEW i \in 1 .. Len(w) PROVE w[i] = z[i]
  <2>1. CASE i <= b - a
    BY <1>1, <1>2, <1>3, <1>4, <2>1
  <2>2. CASE i > b - a
    <3>1. i - (b - a) \in 1 .. c - b /\ (b - a) + (i - (b - a)) = i
          /\ b + (i - (b - a)) = a + i /\ i \in 1 .. c - a
      BY <1>1, <1>2, <1>4, <2>2
    <3>2. w[i] = y[i - (b - a)]
      BY <1>1, <1>2, <1>4, <3>1
    <3>3. y[i - (b - a)] = f[a + i]
      BY <1>2, <3>1
    <3> QED BY <1>3, <3>1, <3>2, <3>3
  <2> QED BY <1>1, <1>2, <1>4, <2>1, <2>2
<1>7. w = z
  <2>1. w \in Seq(Byte) /\ z \in Seq(Byte)
    BY <1>3, <1>4
  <2> QED BY <1>5, <1>6, <2>1, SeqEqual
<1> QED BY <1>7 DEF w, x, y, z

\* Two files give the same bytes where they agree.
LEMMA SameBytes ==
    ASSUME NEW f \in Seq(Byte), NEW g \in Seq(Byte), NEW a \in Nat, NEW b \in Nat,
           a <= b, b <= Len(f), b <= Len(g),
           \A i \in 1 .. b - a : g[a + i] = f[a + i]
    PROVE  Bytes(g, a, b) = Bytes(f, a, b)
  BY DEF Bytes

LEMMA WriteAtType ==
    ASSUME NEW f \in Seq(Byte), NEW at \in Nat, NEW b \in Seq(Byte)
    PROVE  write_at(f, at, b) \in Seq(Byte)
<1>1. CASE b = << >>
  BY <1>1 DEF write_at
<1>2. CASE b # << >>
  <2> DEFINE newlen == IF at + Len(b) > Len(f) THEN at + Len(b) ELSE Len(f)
             cell(i) == IF at < i /\ i <= at + Len(b) THEN b[i - at]
                        ELSE IF i <= Len(f) THEN f[i] ELSE 0
  <2>1. newlen \in Nat
    OBVIOUS
  <2>2. ASSUME NEW i \in 1 .. newlen PROVE cell(i) \in Byte
    <3>1. CASE at < i /\ i <= at + Len(b)
      <4>1. i - at \in 1 .. Len(b)
        BY <3>1
      <4> QED BY <3>1, <4>1
    <3>2. CASE ~(at < i /\ i <= at + Len(b))
      BY <3>2, ZeroIsByte
    <3> QED BY <3>1, <3>2
  <2>3. write_at(f, at, b) = [i \in 1 .. newlen |-> cell(i)]
    BY <1>2 DEF write_at
  <2> HIDE DEF newlen, cell
  <2> QED BY <2>1, <2>2, <2>3
<1> QED BY <1>1, <1>2

\* A write inside the file changes its bytes and no other.
LEMMA WriteAtWithin ==
    ASSUME NEW f \in Seq(Byte), NEW at \in Nat, NEW b \in Seq(Byte),
           at + Len(b) <= Len(f)
    PROVE  /\ write_at(f, at, b) \in Seq(Byte)
           /\ Len(write_at(f, at, b)) = Len(f)
           /\ \A i \in 1 .. Len(b) : write_at(f, at, b)[at + i] = b[i]
           /\ \A i \in 1 .. Len(f) : i <= at \/ i > at + Len(b)
                  => write_at(f, at, b)[i] = f[i]
<1>1. write_at(f, at, b) \in Seq(Byte)
  BY WriteAtType
<1>2. CASE b = << >>
  BY <1>1, <1>2 DEF write_at
<1>3. CASE b # << >>
  <2>1. write_at(f, at, b) =
          [i \in 1 .. Len(f) |-> IF at < i /\ i <= at + Len(b) THEN b[i - at]
                                 ELSE IF i <= Len(f) THEN f[i] ELSE 0]
    BY <1>3 DEF write_at
  <2>2. Len(write_at(f, at, b)) = Len(f)
    BY <2>1
  <2>3. ASSUME NEW i \in 1 .. Len(b) PROVE write_at(f, at, b)[at + i] = b[i]
    <3>1. at + i \in 1 .. Len(f) /\ (at + i) - at = i
      OBVIOUS
    <3> QED BY <2>1, <3>1
  <2>4. ASSUME NEW i \in 1 .. Len(f), i <= at \/ i > at + Len(b)
        PROVE  write_at(f, at, b)[i] = f[i]
    BY <2>1, <2>4
  <2> QED BY <1>1, <2>2, <2>3, <2>4
<1> QED BY <1>2, <1>3

\* A write at the end of the file appends.
LEMMA WriteAtEnd ==
    ASSUME NEW f \in Seq(Byte), NEW b \in Seq(Byte)
    PROVE  write_at(f, Len(f), b) = f \o b
<1>1. CASE b = << >>
  BY <1>1 DEF write_at
<1>2. CASE b # << >>
  <2> DEFINE g == write_at(f, Len(f), b)
  <2>1. Len(b) > 0
    BY <1>2
  <2>2. g = [i \in 1 .. Len(f) + Len(b) |->
                 IF Len(f) < i /\ i <= Len(f) + Len(b) THEN b[i - Len(f)]
                 ELSE IF i <= Len(f) THEN f[i] ELSE 0]
    BY <1>2, <2>1 DEF write_at
  <2>3. g \in Seq(Byte) /\ Len(g) = Len(f) + Len(b)
    BY <2>2, WriteAtType
  <2>4. f \o b \in Seq(Byte) /\ Len(f \o b) = Len(f) + Len(b)
    BY ConcatType
  <2>5. ASSUME NEW i \in 1 .. Len(g) PROVE g[i] = (f \o b)[i]
    <3>1. CASE i <= Len(f)
      BY <2>2, <2>3, <3>1
    <3>2. CASE i > Len(f)
      BY <2>2, <2>3, <3>2
    <3> QED BY <2>3, <3>1, <3>2
  <2> HIDE DEF g
  <2>6. g = f \o b
    BY <2>3, <2>4, <2>5, SeqEqual
  <2> QED BY <2>6 DEF g
<1> QED BY <1>1, <1>2

LEMMA WriteAtGrows ==
    ASSUME NEW f \in Seq(Byte), NEW at \in Nat, NEW b \in Seq(Byte)
    PROVE  /\ Len(write_at(f, at, b)) >= Len(f)
           /\ b # << >> => Len(write_at(f, at, b)) >= at + Len(b)
<1>1. CASE b = << >>
  BY <1>1 DEF write_at
<1>2. CASE b # << >>
  <2> DEFINE newlen == IF at + Len(b) > Len(f) THEN at + Len(b) ELSE Len(f)
             cell(i) == IF at < i /\ i <= at + Len(b) THEN b[i - at]
                        ELSE IF i <= Len(f) THEN f[i] ELSE 0
  <2>1. newlen \in Nat /\ newlen >= Len(f) /\ newlen >= at + Len(b)
    OBVIOUS
  <2>2. write_at(f, at, b) = [i \in 1 .. newlen |-> cell(i)]
    BY <1>2 DEF write_at
  <2> HIDE DEF newlen, cell
  <2>3. Len(write_at(f, at, b)) = newlen
    BY <2>1, <2>2
  <2> QED BY <2>1, <2>3
<1> QED BY <1>1, <1>2

\* What is written over part of four bytes is written over all of them, the
\* others being what they were.
LEMMA ShortWrite ==
    ASSUME NEW g \in Seq(Byte), NEW at \in Nat, at + 4 <= Len(g),
           NEW s \in Seq(Byte), Len(s) <= 4
    PROVE  \E b \in Seq(Byte) : Len(b) = 4 /\ write_at(g, at, s) = write_at(g, at, b)
<1> DEFINE w == write_at(g, at, s)
           b == Bytes(w, at, at + 4)
           x == write_at(g, at, b)
<1>1. /\ w \in Seq(Byte) /\ Len(w) = Len(g)
      /\ \A i \in 1 .. Len(g) : i <= at \/ i > at + Len(s) => w[i] = g[i]
  BY WriteAtWithin
<1> HIDE DEF w
<1>2. b \in Seq(Byte) /\ Len(b) = 4 /\ \A i \in 1 .. 4 : b[i] = w[at + i]
  <2>1. at + 4 \in Nat /\ at <= at + 4 /\ at + 4 <= Len(w) /\ (at + 4) - at = 4
    BY <1>1
  <2>2. /\ b \in Seq(Byte) /\ Len(b) = (at + 4) - at
        /\ \A i \in 1 .. (at + 4) - at : b[i] = w[at + i]
    BY <1>1, <2>1, BytesWithin, Zenon
  <2> QED BY <2>1, <2>2
<1> HIDE DEF b
<1>3. /\ x \in Seq(Byte) /\ Len(x) = Len(g)
      /\ \A i \in 1 .. 4 : x[at + i] = b[i]
      /\ \A i \in 1 .. Len(g) : i <= at \/ i > at + 4 => x[i] = g[i]
  <2>1. b \in Seq(Byte) /\ at + Len(b) <= Len(g)
    BY <1>2
  <2>2. /\ x \in Seq(Byte) /\ Len(x) = Len(g)
        /\ \A i \in 1 .. Len(b) : x[at + i] = b[i]
        /\ \A i \in 1 .. Len(g) : i <= at \/ i > at + Len(b) => x[i] = g[i]
    BY <2>1, WriteAtWithin, Zenon
  <2> QED BY <1>2, <2>2
<1> HIDE DEF x
<1>4. ASSUME NEW i \in 1 .. Len(w) PROVE w[i] = x[i]
  <2>1. CASE i <= at \/ i > at + 4
    BY <1>1, <1>3, <2>1
  <2>2. CASE i > at /\ i <= at + 4
    <3>1. i - at \in 1 .. 4 /\ at + (i - at) = i
      BY <1>1, <2>2
    <3>2. w[at + (i - at)] = x[at + (i - at)]
      BY <1>2, <1>3, <3>1
    <3> QED BY <3>1, <3>2
  <2> QED BY <1>1, <2>1, <2>2
<1>5. w = x
  BY <1>1, <1>3, <1>4, SeqEqual
<1> QED BY <1>2, <1>5 DEF w, x

----------------------------------------------------------------------------
(* The checksum *)

\* A sum that had been folded, one more word added, is folded again.
LEMMA FoldType ==
    ASSUME NEW x \in Nat, x < Base * Base * 2
    PROVE  Fold16[x] \in 0 .. Base * Base
<1> DEFINE B2 == Base * Base
           q  == x \div B2
           r  == x % B2
<1>1. B2 \in Nat \ {0}
  BY BaseAssumption, WordType
<1> HIDE DEF B2
<1>2. r \in 0 .. B2 - 1 /\ q \in Nat /\ x = r + (B2 * q)
  BY <1>1, DivMod
<1>3. q < 2
  BY <1>1, DivBound DEF B2
<1>4. r + q \in 0 .. B2
  <2>1. q = 0 \/ q = 1
    BY <1>2, <1>3
  <2> QED BY <1>1, <1>2, <2>1
<1>5. x \in 0 .. 2 * Base * Base
  <2>1. Base * Base * 2 = 2 * Base * Base
    BY BaseAssumption
  <2> QED BY <1>1, <2>1 DEF B2
<1>6. Fold16[x] = r + q
  BY <1>5 DEF Fold16, B2
<1> QED BY <1>4, <1>6 DEF B2

\* The loop over the words keeps its sum within one more than a word.
LEMMA FoldedSumType ==
    ASSUME NEW w \in Seq(U16s)
    PROVE  folded_sum(w) \in 0 .. Base * Base
<1> DEFINE S   == 0 .. Base * Base
           n   == Len(w)
           step == [p \in S \X (1 .. n) |-> Fold16[p[1] + w[p[2]]]]
           Loop(g) == g = [i \in 0 .. n |-> IF i = 0 THEN 0 ELSE Fold16[g[i-1] + w[i]]]
           sum == CHOOSE g : Loop(g)
<1>1. n \in Nat /\ 0 \in S
  BY WordType
<1>2. ASSUME NEW x \in S, NEW i \in 1 .. n
      PROVE  Fold16[x + w[i]] \in S
  <2>1. w[i] \in U16s
    OBVIOUS
  <2>2. x + w[i] \in Nat /\ x + w[i] < Base * Base * 2
    BY <2>1, WordType DEF U16s
  <2> QED BY <2>2, FoldType
<1>3. step \in [S \X (1 .. n) -> S]
  <2> HIDE DEF S, n
  <2> QED BY <1>2
<1>4. \A x \in S, i \in 1 .. n : step[<< x, i >>] = Fold16[x + w[i]]
  OBVIOUS
<1> HIDE DEF step, S, n
<1>5. PICK s \in [0 .. n -> S] : Recursion(s, n, 0, step)
  BY <1>1, <1>3, RecursionExists
<1>6. Loop(s)
  <2>1. s[0] = 0 /\ \A i \in 1 .. n : s[i] = step[<< s[i-1], i >>]
    BY <1>5 DEF Recursion
  <2>2. ASSUME NEW i \in 0 .. n
        PROVE  s[i] = IF i = 0 THEN 0 ELSE Fold16[s[i-1] + w[i]]
    <3>1. CASE i = 0
      BY <2>1, <3>1
    <3>2. CASE i # 0
      <4>1. i \in 1 .. n /\ i - 1 \in 0 .. n
        BY <1>1, <3>2
      <4>2. s[i-1] \in S
        BY <4>1
      <4> QED BY <1>4, <2>1, <3>2, <4>1, <4>2
    <3> QED BY <3>1, <3>2
  <2> QED BY <2>2
<1>7. Loop(sum)
  <2> HIDE DEF Loop
  <2> QED BY <1>6
<1> HIDE DEF sum
<1>8. \A k \in 0 .. n : sum[k] \in S
  <2> DEFINE K == {k \in 0 .. n : sum[k] \in S}
  <2>1. 0 \in K
    BY <1>1, <1>7
  <2>2. ASSUME NEW k \in 1 .. n, k - 1 \in K PROVE k \in K
    <3>1. k \in 0 .. n /\ k # 0
      BY <1>1
    <3>2. sum[k] = Fold16[sum[k-1] + w[k]]
      BY <1>7, <3>1
    <3> QED BY <1>2, <2>2, <3>1, <3>2
  <2> HIDE DEF K
  <2>3. 0 .. n \subseteq K
    BY <1>1, <2>1, <2>2, UpTo
  <2> QED BY <2>3 DEF K
<1>9. folded_sum(w) = sum[n]
  BY DEF folded_sum, sum, n
<1> QED BY <1>1, <1>8, <1>9 DEF S

LEMMA WordsType ==
    ASSUME NEW f \in Seq(Byte), NEW field
    PROVE  words(f, field) \in Seq(U16s)
<1> DEFINE n == Len(f) \div 2
           cell(i) == IF 2 * (i - 1) \in {field, field + 2} THEN 0
                      ELSE read_u16(f, 2 * (i - 1))
<1>1. n \in Nat /\ 2 * n <= Len(f)
  OBVIOUS
<1>2. ASSUME NEW i \in 1 .. n PROVE cell(i) \in U16s
  <2>1. 2 * (i - 1) \in Nat /\ 2 * (i - 1) + 2 <= Len(f)
    BY <1>1
  <2>2. read_u16(f, 2 * (i - 1)) \in U16s
    BY <2>1, ReadType
  <2>3. 0 \in U16s
    BY BaseAssumption, WordType DEF U16s
  <2> QED BY <2>2, <2>3
<1>3. words(f, field) = [i \in 1 .. n |-> cell(i)]
  BY DEF words
<1> HIDE DEF n, cell
<1> QED BY <1>1, <1>2, <1>3

\* pe_calc_checksum returns a u32.
LEMMA ChecksumType ==
    ASSUME NEW f \in Seq(Byte), NEW field
    PROVE  pe_calc_checksum(f, field) \in U32s
<1> DEFINE x == folded_sum(words(f, field))
<1>1. x \in 0 .. Base * Base
  BY WordsType, FoldedSumType
<1> HIDE DEF x
<1>2. Fold16[x] \in Nat
  <2>1. Base * Base \in Nat /\ Base * Base >= 16
    BY BaseAssumption
  <2>2. x \in Nat /\ x < Base * Base * 2
    BY <1>1, <2>1
  <2> QED BY <2>1, <2>2, FoldType
<1>3. Word \in Nat \ {0} /\ Len(f) % Word \in Nat
  BY WordType
<1> DEFINE y == Fold16[x] + (Len(f) % Word)
<1>4. y \in Nat
  BY <1>2, <1>3
<1> HIDE DEF y
<1>5. y % Word \in 0 .. Word - 1
  BY <1>3, <1>4, DivMod
<1> QED BY <1>5 DEF pe_calc_checksum, U32s, x, y

\* It depends on no byte of the field, when that starts at an even offset.
LEMMA ChecksumSkips ==
    ASSUME NEW f \in Seq(Byte), NEW g \in Seq(Byte), NEW field \in Nat,
           field % 2 = 0, Len(g) = Len(f),
           \A i \in 1 .. Len(f) : i <= field \/ i > field + 4 => g[i] = f[i]
    PROVE  pe_calc_checksum(g, field) = pe_calc_checksum(f, field)
<1>1. ASSUME NEW i \in 1 .. Len(f) \div 2, 2 * (i - 1) \notin {field, field + 2}
      PROVE  read_u16(g, 2 * (i - 1)) = read_u16(f, 2 * (i - 1))
  <2> DEFINE o == 2 * (i - 1)
  <2>1. o \in Nat /\ o % 2 = 0 /\ o + 2 <= Len(f)
    OBVIOUS
  <2>2. o + 2 <= field \/ o >= field + 4
    BY <1>1, <2>1
  <2> HIDE DEF o
  <2>3. g[o+1] = f[o+1] /\ g[o+2] = f[o+2]
    BY <2>1, <2>2
  <2> QED BY <2>3 DEF read_u16, o
<1>2. words(g, field) = words(f, field)
  BY <1>1 DEF words
<1> QED BY <1>2 DEF pe_calc_checksum

\* The checksum that write_signed_pe_to and write_unsigned_pe_to store is that
\* of the file it is stored in.
LEMMA ChecksumStored ==
    ASSUME NEW g \in Seq(Byte), NEW at \in Nat, at % 2 = 0, at + 4 <= Len(g)
    PROVE  LET s == write_at(g, at, Put32(pe_calc_checksum(g, at)))
           IN  read_u32(s, at) = pe_calc_checksum(s, at)
<1> DEFINE v == pe_calc_checksum(g, at)
           b == Put32(v)
           s == write_at(g, at, b)
<1>1. v \in U32s /\ v \in Nat
  BY ChecksumType, WordType DEF U32s
<1> HIDE DEF v
<1>2. b \in Seq(Byte) /\ Len(b) = 4
  BY <1>1, Put32Type
<1> HIDE DEF b
<1>3. /\ s \in Seq(Byte) /\ Len(s) = Len(g)
      /\ \A i \in 1 .. 4 : s[at + i] = b[i]
      /\ \A i \in 1 .. Len(g) : i <= at \/ i > at + 4 => s[i] = g[i]
  <2>1. b \in Seq(Byte) /\ at + Len(b) <= Len(g)
    BY <1>2
  <2>2. /\ s \in Seq(Byte) /\ Len(s) = Len(g)
        /\ \A i \in 1 .. Len(b) : s[at + i] = b[i]
        /\ \A i \in 1 .. Len(g) : i <= at \/ i > at + Len(b) => s[i] = g[i]
    BY <2>1, WriteAtWithin, Zenon
  <2> QED BY <1>2, <2>2
<1> HIDE DEF s
<1>4. read_u32(s, at) = v
  <2>1. s[at+1] = b[1] /\ s[at+2] = b[2] /\ s[at+3] = b[3] /\ s[at+4] = b[4]
    BY <1>3
  <2> QED BY <1>1, <2>1, RoundTrip32 DEF b
<1>5. pe_calc_checksum(s, at) = pe_calc_checksum(g, at)
  BY <1>3, ChecksumSkips
<1> QED BY <1>4, <1>5 DEF s, b, v

----------------------------------------------------------------------------
(* What parse_pe returns *)

LEMMA FilesizeType ==
    ASSUME NEW f \in Seq(Byte)
    PROVE  filesize(f) \in U32s /\ filesize(f) <= Len(f)
<1>1. Word \in Nat \ {0} /\ Len(f) \in Nat
  BY WordType
<1>2. Len(f) % Word \in 0 .. Word - 1 /\ Len(f) \div Word \in Nat
      /\ Len(f) = (Len(f) % Word) + (Word * (Len(f) \div Word))
  BY <1>1, DivMod
<1>3. Word * (Len(f) \div Word) \in Nat
  BY <1>1, <1>2
<1> QED BY <1>1, <1>2, <1>3 DEF filesize, U32s

\* The fields of accepted headers lie in the file, in this order.
LEMMA HeaderLayout ==
    ASSUME NEW f \in Seq(Byte), HeadersValid(f)
    PROVE  /\ header_size(f) \in Nat
           /\ shift(f) \in Nat
           /\ checksum_offset(f) \in Nat
           /\ cert_table_offset(f) \in Nat
           /\ LFANEW_AT + 4 <= checksum_offset(f)
           /\ header_size(f) + OPT_MAGIC_AT + 2 <= checksum_offset(f)
           /\ checksum_offset(f) + 4 <= header_size(f) + RVAS_AT + shift(f)
           /\ header_size(f) + RVAS_AT + shift(f) + 4 <= cert_table_offset(f)
           /\ cert_table_offset(f) + 8 <= header_size(f) + HEADERS
           /\ header_size(f) + HEADERS <= Len(f)
           /\ MIN_FILE <= header_size(f) + HEADERS
<1>1. MIN_FILE <= Len(f)
  BY FilesizeType, LayoutAssumption DEF HeadersValid, U32s
<1>2. header_size(f) \in Nat
  <2>1. LFANEW_AT \in Nat /\ LFANEW_AT + 4 <= Len(f)
    BY <1>1, LayoutAssumption
  <2> QED BY <2>1, ReadType, WordType DEF header_size, U32s
<1>3. header_size(f) >= MIN_HEADER /\ header_size(f) + HEADERS <= Len(f)
  BY DEF HeadersValid
<1>4. shift(f) \in {0, PE32PLUS_SHIFT}
  BY DEF shift
<1>5. /\ checksum_offset(f) = header_size(f) + CHECKSUM_AT
      /\ cert_table_offset(f) = header_size(f) + CERT_TABLE_AT + shift(f)
  BY DEF checksum_offset, cert_table_offset
<1> DEFINE h == header_size(f)
           s == shift(f)
<1>6. h \in Nat /\ h >= MIN_HEADER /\ h + HEADERS <= Len(f)
  BY <1>2, <1>3
<1>7. s \in Nat /\ s <= PE32PLUS_SHIFT
  BY <1>4, LayoutAssumption
<1> HIDE DEF h, s
<1>8. /\ LFANEW_AT + 4 <= h + CHECKSUM_AT
      /\ h + OPT_MAGIC_AT + 2 <= h + CHECKSUM_AT
      /\ h + CHECKSUM_AT \in Nat
  BY <1>6, LayoutAssumption
<1>9. /\ h + CHECKSUM_AT + 4 <= h + RVAS_AT + s
      /\ h + RVAS_AT + s + 4 <= h + CERT_TABLE_AT + s
      /\ h + CERT_TABLE_AT + s \in Nat
  BY <1>6, <1>7, LayoutAssumption
<1>10. /\ h + CERT_TABLE_AT + s + 8 <= h + HEADERS
       /\ MIN_FILE <= h + HEADERS
  BY <1>6, <1>7, LayoutAssumption
<1> QED BY <1>5, <1>6, <1>7, <1>8, <1>9, <1>10 DEF h, s

LEMMA ParsedFields ==
    ASSUME NEW f \in Seq(Byte), HeadersValid(f)
    PROVE  /\ parse_pe(f).ok
           /\ parse_pe(f).checksum_offset = checksum_offset(f)
           /\ parse_pe(f).cert_table_offset = cert_table_offset(f)
           /\ parse_pe(f).fileend = filesize(f)
           /\ parse_pe(f).sigpos =
                  IF Trailing(f) THEN read_u32(f, cert_table_offset(f)) ELSE 0
           /\ parse_pe(f).siglen =
                  IF Trailing(f) THEN read_u32(f, cert_table_offset(f) + 4) ELSE 0
           /\ parse_pe(f) # InvalidPe
  BY DEF parse_pe, InvalidPe

LEMMA ParsedType ==
    ASSUME NEW f \in Seq(Byte), HeadersValid(f)
    PROVE  /\ parse_pe(f).sigpos \in U32s
           /\ parse_pe(f).siglen \in U32s
           /\ parse_pe(f).sigpos = 0 <=> parse_pe(f).siglen = 0
           /\ data_end(parse_pe(f)) \in Nat
           /\ data_end(parse_pe(f)) <= Len(f)
<1>1. cert_table_offset(f) \in Nat /\ cert_table_offset(f) + 8 <= Len(f)
  BY HeaderLayout, LayoutAssumption, SMTT(30)
<1>2. /\ read_u32(f, cert_table_offset(f)) \in U32s
      /\ read_u32(f, cert_table_offset(f) + 4) \in U32s
  BY <1>1, ReadType
<1>3. 0 \in U32s
  BY WordType DEF U32s
<1>4. filesize(f) \in U32s /\ filesize(f) <= Len(f)
  BY FilesizeType
<1>5. Trailing(f) => /\ read_u32(f, cert_table_offset(f)) # 0
                     /\ read_u32(f, cert_table_offset(f) + 4) # 0
                     /\ read_u32(f, cert_table_offset(f)) < filesize(f)
  BY DEF Trailing
<1> QED BY <1>2, <1>3, <1>4, <1>5, ParsedFields, WordType DEF data_end, U32s

\* The u32 sum in parse_pe's check cannot mislead it: an entry is accepted
\* exactly when its table ends the file.
THEOREM TrailingIsExact ==
    ASSUME NEW f \in Seq(Byte), HeadersValid(f)
    PROVE  Trailing(f) <=>
               /\ read_u32(f, cert_table_offset(f)) # 0
               /\ read_u32(f, cert_table_offset(f) + 4) # 0
               /\ read_u32(f, cert_table_offset(f))
                      + read_u32(f, cert_table_offset(f) + 4) = filesize(f)
<1> DEFINE p == read_u32(f, cert_table_offset(f))
           l == read_u32(f, cert_table_offset(f) + 4)
<1>1. cert_table_offset(f) \in Nat /\ cert_table_offset(f) + 8 <= Len(f)
  BY HeaderLayout, LayoutAssumption, SMTT(30)
<1>2. p \in 0 .. Word - 1 /\ l \in 0 .. Word - 1
  BY <1>1, ReadType DEF U32s
<1>3. filesize(f) \in 0 .. Word - 1 /\ Word \in Nat \ {0}
  BY FilesizeType, WordType DEF U32s
<1>4. Trailing(f) <=> /\ p # 0 /\ l # 0 /\ p < filesize(f)
                      /\ (p + l) % Word = filesize(f)
  BY DEF Trailing
<1> HIDE DEF p, l
<1>5. p + l < Word => (p + l) % Word = p + l
  BY <1>2, <1>3
<1>6. p + l >= Word => (p + l) % Word = p + l - Word
  BY <1>2, <1>3
<1>7. Trailing(f) <=> p # 0 /\ l # 0 /\ p + l = filesize(f)
  BY <1>2, <1>3, <1>4, <1>5, <1>6
<1> QED BY <1>7 DEF p, l

----------------------------------------------------------------------------
(* Files that differ from an image in the checksum and the entry alone *)

\* g has the first n bytes of f outside the two fields a rewrite changes.
Keeps(g, f, n) ==
    \A i \in 1 .. n :
        /\ i <= checksum_offset(f) \/ i > checksum_offset(f) + 4
        /\ i <= cert_table_offset(f) \/ i > cert_table_offset(f) + 8
        => g[i] = f[i]

\* Such a file has the image's headers, with the fields at the same offsets.
LEMMA HeadersKept ==
    ASSUME NEW f \in Seq(Byte), HeadersValid(f),
           NEW g \in Seq(Byte), Len(g) < Word,
           header_size(f) + HEADERS <= Len(g),
           Keeps(g, f, header_size(f) + HEADERS)
    PROVE  /\ HeadersValid(g)
           /\ checksum_offset(g) = checksum_offset(f)
           /\ cert_table_offset(g) = cert_table_offset(f)
           /\ filesize(g) = Len(g)
<1> DEFINE h == header_size(f)
           C == checksum_offset(f)
           T == cert_table_offset(f)
           R == header_size(f) + RVAS_AT + shift(f)
<1>1. /\ h \in Nat /\ C \in Nat /\ T \in Nat /\ R \in Nat
      /\ LFANEW_AT + 4 <= C /\ h + OPT_MAGIC_AT + 2 <= C
      /\ C + 4 <= R /\ R + 4 <= T /\ T + 8 <= h + HEADERS
      /\ MIN_FILE <= h + HEADERS
  <2>1. header_size(f) \in Nat /\ shift(f) \in Nat /\ RVAS_AT \in Nat
    BY HeaderLayout, LayoutAssumption
  <2>2. R \in Nat
    BY <2>1
  <2> QED BY <2>2, HeaderLayout
<1>2. LFANEW_AT \in Nat /\ LFANEW_AT >= 2 /\ OPT_MAGIC_AT \in Nat /\ OPT_MAGIC_AT >= 4
      /\ HEADERS \in Nat /\ MIN_FILE \in Nat
  BY LayoutAssumption
<1>3. \A i \in 1 .. h + HEADERS : (i <= C \/ i > C + 4) /\ (i <= T \/ i > T + 8)
          => g[i] = f[i]
  BY DEF Keeps
<1>4. filesize(g) = Len(g)
  BY WordType DEF filesize
<1> HIDE DEF h, C, T, R
<1>5. \A i \in 1 .. C : g[i] = f[i]
  BY <1>1, <1>2, <1>3
<1>6. \A i \in R + 1 .. R + 4 : g[i] = f[i]
  BY <1>1, <1>2, <1>3
<1>7. read_u16(g, 0) = read_u16(f, 0)
  BY <1>1, <1>2, <1>5 DEF read_u16
<1>8. header_size(g) = h
  <2>1. read_u32(g, LFANEW_AT) = read_u32(f, LFANEW_AT)
    BY <1>1, <1>2, <1>5 DEF read_u32
  <2> QED BY <2>1 DEF header_size, h
<1>9. read_u32(g, h) = read_u32(f, h)
  BY <1>1, <1>2, <1>5 DEF read_u32
<1>10. read_u16(g, h + OPT_MAGIC_AT) = read_u16(f, h + OPT_MAGIC_AT)
  BY <1>1, <1>2, <1>5 DEF read_u16
<1>11. opt_magic(g) = opt_magic(f)
  BY <1>8, <1>10 DEF opt_magic, h
<1>12. shift(g) = shift(f)
  BY <1>11 DEF shift
<1>13. read_u32(g, R) = read_u32(f, R)
  BY <1>1, <1>6 DEF read_u32
<1>14. /\ checksum_offset(g) = C
       /\ cert_table_offset(g) = T
       /\ header_size(g) + RVAS_AT + shift(g) = R
  BY <1>8, <1>12 DEF checksum_offset, cert_table_offset, C, T, R, h
<1>15. (h + HEADERS) % Word = h + HEADERS
  <2>1. h + HEADERS <= Len(g)
    BY DEF h
  <2>2. h + HEADERS \in Nat /\ h + HEADERS < Word /\ Word \in Nat
    BY <1>1, <1>2, <2>1, WordType
  <2> QED BY <2>2, ModSmall
<1>16. /\ read_u16(f, 0) = DOS_MAGIC
       /\ h >= MIN_HEADER
       /\ read_u32(f, h) = PE_SIGNATURE
       /\ opt_magic(f) \in {PE32_MAGIC, PE32PLUS_MAGIC}
       /\ read_u32(f, R) >= 5
  BY DEF HeadersValid, h, R
<1>17. h <= Len(g) /\ Len(g) >= MIN_FILE /\ h + HEADERS <= Len(g)
  BY <1>1, <1>2 DEF h
<1>18. HeadersValid(g)
  BY <1>4, <1>7, <1>8, <1>9, <1>11, <1>13, <1>14, <1>15, <1>16, <1>17 DEF HeadersValid
<1> QED BY <1>4, <1>14, <1>18 DEF C, T

\* Facts about the data of a well-formed image.
LEMMA DataEnd ==
    ASSUME NEW f, WellFormed(f), Len(f) < Word
    PROVE  /\ f \in Seq(Byte)
           /\ HeadersValid(f)
           /\ data_end(parse_pe(f)) \in Nat
           /\ data_end(parse_pe(f)) <= Len(f)
           /\ header_size(f) + HEADERS <= data_end(parse_pe(f))
<1>1. f \in Seq(Byte) /\ HeadersValid(f)
  BY DEF WellFormed
<1>2. parse_pe(f).fileend = Len(f)
  BY <1>1, ParsedFields, WordType DEF filesize
<1>3. parse_pe(f).sigpos \in Nat
  BY <1>1, ParsedType, WordType DEF U32s
<1>4. header_size(f) + HEADERS <= Len(f)
  BY <1>1, HeaderLayout
<1> QED BY <1>1, <1>2, <1>3, <1>4, ParsedType DEF WellFormed, data_end

\* The two offsets of accepted headers, as the rewrites use them.
LEMMA Offsets ==
    ASSUME NEW f \in Seq(Byte), HeadersValid(f)
    PROVE  /\ checksum_offset(f) \in Nat
           /\ cert_table_offset(f) \in Nat
           /\ checksum_offset(f) + 4 <= cert_table_offset(f)
           /\ cert_table_offset(f) + 8 <= header_size(f) + HEADERS
           /\ header_size(f) + HEADERS \in Nat
           /\ header_size(f) + HEADERS <= Len(f)
<1>1. header_size(f) \in Nat /\ shift(f) \in Nat /\ RVAS_AT \in Nat /\ HEADERS \in Nat
  BY HeaderLayout, LayoutAssumption
<1>2. checksum_offset(f) + 4 <= header_size(f) + RVAS_AT + shift(f)
      /\ header_size(f) + RVAS_AT + shift(f) + 4 <= cert_table_offset(f)
  BY HeaderLayout
<1>3. /\ checksum_offset(f) \in Nat /\ cert_table_offset(f) \in Nat
      /\ cert_table_offset(f) + 8 <= header_size(f) + HEADERS
      /\ header_size(f) + HEADERS <= Len(f)
  BY HeaderLayout
<1>4. checksum_offset(f) + 4 <= cert_table_offset(f)
  BY <1>1, <1>2, <1>3
<1> QED BY <1>1, <1>3, <1>4

\* Overwriting one of the two fields keeps the rest.
LEMMA ChecksumWrite ==
    ASSUME NEW f \in Seq(Byte), HeadersValid(f),
           NEW g \in Seq(Byte), NEW n \in Nat, Keeps(g, f, n), n <= Len(g),
           checksum_offset(f) + 4 <= Len(g),
           NEW b \in Seq(Byte), Len(b) = 4
    PROVE  LET w == write_at(g, checksum_offset(f), b)
           IN  /\ w \in Seq(Byte)
               /\ Len(w) = Len(g)
               /\ Keeps(w, f, n)
               /\ \A i \in 1 .. 4 : w[checksum_offset(f) + i] = b[i]
               /\ \A i \in 1 .. Len(g) :
                      i <= checksum_offset(f) \/ i > checksum_offset(f) + 4
                      => w[i] = g[i]
<1> DEFINE at == checksum_offset(f)
           w == write_at(g, at, b)
<1>1. at \in Nat /\ at + Len(b) <= Len(g)
  BY Offsets
<1> HIDE DEF at
<1>2. /\ w \in Seq(Byte)
      /\ Len(w) = Len(g)
      /\ \A i \in 1 .. Len(b) : w[at + i] = b[i]
      /\ \A i \in 1 .. Len(g) : i <= at \/ i > at + Len(b) => w[i] = g[i]
  BY <1>1, WriteAtWithin, Zenon
<1> HIDE DEF w
<1>3. \A i \in 1 .. Len(g) : i <= at \/ i > at + 4 => w[i] = g[i]
  BY <1>2
<1>4. Keeps(w, f, n)
  BY <1>3 DEF Keeps, at
<1> QED BY <1>2, <1>3, <1>4 DEF w, at

LEMMA EntryWrite ==
    ASSUME NEW f \in Seq(Byte), HeadersValid(f),
           NEW g \in Seq(Byte), NEW n \in Nat, Keeps(g, f, n), n <= Len(g),
           cert_table_offset(f) + 8 <= Len(g),
           NEW b \in Seq(Byte), Len(b) = 8
    PROVE  LET w == write_at(g, cert_table_offset(f), b)
           IN  /\ w \in Seq(Byte)
               /\ Len(w) = Len(g)
               /\ Keeps(w, f, n)
               /\ \A i \in 1 .. 8 : w[cert_table_offset(f) + i] = b[i]
               /\ \A i \in 1 .. Len(g) :
                      i <= cert_table_offset(f) \/ i > cert_table_offset(f) + 8
                      => w[i] = g[i]
<1> DEFINE at == cert_table_offset(f)
           w == write_at(g, at, b)
<1>1. at \in Nat /\ at + Len(b) <= Len(g)
  BY Offsets
<1> HIDE DEF at
<1>2. /\ w \in Seq(Byte)
      /\ Len(w) = Len(g)
      /\ \A i \in 1 .. Len(b) : w[at + i] = b[i]
      /\ \A i \in 1 .. Len(g) : i <= at \/ i > at + Len(b) => w[i] = g[i]
  BY <1>1, WriteAtWithin, Zenon
<1> HIDE DEF w
<1>3. \A i \in 1 .. Len(g) : i <= at \/ i > at + 8 => w[i] = g[i]
  BY <1>2
<1>4. Keeps(w, f, n)
  BY <1>3 DEF Keeps, at
<1> QED BY <1>2, <1>3, <1>4 DEF w, at

\* The data of the image as copy_range leaves it, and with both fields zeroed:
\* what a signature is appended to, and what remains when one is removed.
LEMMA CopiedShape ==
    ASSUME NEW f, WellFormed(f), Len(f) < Word
    PROVE  LET n == data_end(parse_pe(f))
               c == Copied(f, parse_pe(f))
           IN  c \in Seq(Byte) /\ Len(c) = n /\ Keeps(c, f, n)
<1> DEFINE n == data_end(parse_pe(f))
<1>1. f \in Seq(Byte) /\ n \in Nat /\ n <= Len(f)
  BY DataEnd
<1>2. Copied(f, parse_pe(f)) = Bytes(f, 0, n)
  BY DEF Copied
<1> HIDE DEF n
<1>3. 0 \in Nat /\ 0 <= n
  BY <1>1
<1>4. /\ Bytes(f, 0, n) \in Seq(Byte)
      /\ Len(Bytes(f, 0, n)) = n - 0
      /\ \A i \in 1 .. n - 0 : Bytes(f, 0, n)[i] = f[0 + i]
  BY <1>1, <1>3, BytesWithin, Zenon
<1>5. n - 0 = n /\ \A i \in 1 .. n : 0 + i = i
  BY <1>1
<1>6. Keeps(Bytes(f, 0, n), f, n)
  BY <1>4, <1>5 DEF Keeps
<1> QED BY <1>2, <1>4, <1>5, <1>6 DEF n

LEMMA ZeroedChecksumShape ==
    ASSUME NEW f, WellFormed(f), Len(f) < Word
    PROVE  LET n == data_end(parse_pe(f))
               y == ZeroedChecksum(f, parse_pe(f))
           IN  y \in Seq(Byte) /\ Len(y) = n /\ Keeps(y, f, n)
<1> DEFINE n == data_end(parse_pe(f))
           c == Copied(f, parse_pe(f))
           z == Zeros(4)
<1>1. /\ f \in Seq(Byte) /\ HeadersValid(f) /\ n \in Nat
      /\ header_size(f) + HEADERS <= n
  BY DataEnd
<1>2. ZeroedChecksum(f, parse_pe(f)) = write_at(c, checksum_offset(f), z)
  BY <1>1, ParsedFields DEF ZeroedChecksum
<1>3. c \in Seq(Byte) /\ Len(c) = n /\ Keeps(c, f, n)
  BY CopiedShape
<1>4. z \in Seq(Byte) /\ Len(z) = 4
  BY ZerosType
<1> HIDE DEF n, c, z
<1>5. n <= Len(c) /\ checksum_offset(f) + 4 <= Len(c)
  BY <1>1, <1>3, Offsets
<1>6. LET w == write_at(c, checksum_offset(f), z)
      IN  w \in Seq(Byte) /\ Len(w) = Len(c) /\ Keeps(w, f, n)
  BY <1>1, <1>3, <1>4, <1>5, ChecksumWrite
<1> QED BY <1>2, <1>3, <1>6 DEF n

LEMMA ZeroedShape ==
    ASSUME NEW f, WellFormed(f), Len(f) < Word
    PROVE  LET n == data_end(parse_pe(f))
               z == Zeroed(f, parse_pe(f))
           IN  /\ z \in Seq(Byte)
               /\ Len(z) = n
               /\ Keeps(z, f, n)
               /\ \A i \in 1 .. 8 : z[cert_table_offset(f) + i] = 0
<1> DEFINE n == data_end(parse_pe(f))
           y == ZeroedChecksum(f, parse_pe(f))
           b == Zeros(8)
<1>1. /\ f \in Seq(Byte) /\ HeadersValid(f) /\ n \in Nat
      /\ header_size(f) + HEADERS <= n
  BY DataEnd
<1>2. Zeroed(f, parse_pe(f)) = write_at(y, cert_table_offset(f), b)
  BY <1>1, ParsedFields DEF Zeroed
<1>3. y \in Seq(Byte) /\ Len(y) = n /\ Keeps(y, f, n)
  BY ZeroedChecksumShape
<1>4. b \in Seq(Byte) /\ Len(b) = 8 /\ \A i \in 1 .. 8 : b[i] = 0
  BY ZerosType
<1> HIDE DEF n, y, b
<1>5. n <= Len(y) /\ cert_table_offset(f) + 8 <= Len(y)
  BY <1>1, <1>3, Offsets
<1>6. LET w == write_at(y, cert_table_offset(f), b)
      IN  /\ w \in Seq(Byte) /\ Len(w) = Len(y) /\ Keeps(w, f, n)
          /\ \A i \in 1 .. 8 : w[cert_table_offset(f) + i] = b[i]
  BY <1>1, <1>3, <1>4, <1>5, EntryWrite, SMTT(30)
<1> QED BY <1>2, <1>3, <1>4, <1>6 DEF n

----------------------------------------------------------------------------
(* The certificate table entry *)

LEMMA PaddedDerType ==
    ASSUME NEW sig \in Seq(Byte)
    PROVE  /\ PaddedDer(sig) \in Seq(Byte)
           /\ Len(PaddedDer(sig)) = Len(sig) + PadLen(Len(sig))
<1> DEFINE z == Zeros(PadLen(Len(sig)))
<1>1. PadLen(Len(sig)) \in Nat
  BY PadLenType
<1>2. z \in Seq(Byte) /\ Len(z) = PadLen(Len(sig))
  BY <1>1, ZerosType
<1> HIDE DEF z
<1>3. sig \o z \in Seq(Byte) /\ Len(sig \o z) = Len(sig) + Len(z)
  BY <1>2, ConcatType
<1> QED BY <1>2, <1>3 DEF PaddedDer, z

LEMMA CertLenType ==
    ASSUME NEW sig \in Seq(Byte)
    PROVE  CertLen(sig) \in Nat
<1>1. PadLen(Len(sig)) \in Nat
  BY PadLenType
<1>2. Len(sig) + 8 + PadLen(Len(sig)) \in Nat
  BY <1>1
<1>3. Word \in Nat \ {0}
  BY WordType
<1>4. (Len(sig) + 8 + PadLen(Len(sig))) % Word \in 0 .. Word - 1
  BY <1>2, <1>3, DivMod, Zenon
<1> QED BY <1>3, <1>4 DEF CertLen

LEMMA CertShape ==
    ASSUME NEW sig \in Seq(Byte)
    PROVE  LET w == WinCertificate(sig)
               p == PaddedDer(sig)
           IN  /\ w \in Seq(Byte)
               /\ Len(w) = 8 + Len(p)
               /\ \A i \in 1 .. 4 : w[i] = Put32(CertLen(sig))[i]
               /\ \A i \in 1 .. 2 : w[4 + i] = Put16(WIN_CERT_REVISION_2_0)[i]
               /\ \A i \in 1 .. 2 : w[6 + i] = Put16(WIN_CERT_TYPE_PKCS_SIGNED_DATA)[i]
               /\ \A i \in 1 .. Len(p) : w[8 + i] = p[i]
<1> DEFINE a == Put32(CertLen(sig))
           r == Put16(WIN_CERT_REVISION_2_0)
           t == Put16(WIN_CERT_TYPE_PKCS_SIGNED_DATA)
           z == Zeros(PadLen(Len(sig)))
           p == PaddedDer(sig)
           w == WinCertificate(sig)
<1>1. CertLen(sig) \in Nat
  BY CertLenType
<1>2. a \in Seq(Byte) /\ Len(a) = 4
  BY <1>1, Put32Type
<1>3. r \in Seq(Byte) /\ Len(r) = 2 /\ t \in Seq(Byte) /\ Len(t) = 2
  <2>1. WIN_CERT_REVISION_2_0 \in Nat /\ WIN_CERT_TYPE_PKCS_SIGNED_DATA \in Nat
    BY MagicAssumption, WordType DEF U16s
  <2> QED BY <2>1, Put16Type
<1>4. z \in Seq(Byte) /\ p = sig \o z
  <2>1. PadLen(Len(sig)) \in Nat
    BY PadLenType
  <2> QED BY <2>1, ZerosType DEF PaddedDer
<1>5. p \in Seq(Byte)
  BY PaddedDerType
<1>6. w = (((a \o r) \o t) \o sig) \o z
  BY DEF WinCertificate
<1>7. a \in Seq(Byte) /\ r \in Seq(Byte) /\ t \in Seq(Byte)
  BY <1>2, <1>3
<1> DEFINE h == (a \o r) \o t
<1> HIDE DEF a, r, t, z, p, w
<1>8. /\ h \in Seq(Byte) /\ Len(h) = Len(a) + Len(r) + Len(t)
      /\ \A i \in 1 .. Len(a) : h[i] = a[i]
      /\ \A i \in 1 .. Len(r) : h[Len(a) + i] = r[i]
      /\ \A i \in 1 .. Len(t) : h[Len(a) + Len(r) + i] = t[i]
  <2>1. h \in Seq(Byte) /\ Len(h) = Len(a) + Len(r) + Len(t)
    BY <1>7
  <2>2. \A i \in 1 .. Len(a) : h[i] = a[i]
    BY <1>7
  <2>3. \A i \in 1 .. Len(r) : h[Len(a) + i] = r[i]
    BY <1>7
  <2>4. \A i \in 1 .. Len(t) : h[Len(a) + Len(r) + i] = t[i]
    BY <1>7
  <2> QED BY <2>1, <2>2, <2>3, <2>4, Zenon
<1> HIDE DEF h
<1>9. w = h \o p
  <2>1. w = (h \o sig) \o z
    BY <1>6 DEF h
  <2>2. h \in Seq(Byte)
    BY <1>8
  <2>3. (h \o sig) \o z = h \o (sig \o z)
    BY <1>4, <2>2
  <2> QED BY <1>4, <2>1, <2>3
<1>10. /\ w \in Seq(Byte) /\ Len(w) = Len(h) + Len(p)
       /\ \A i \in 1 .. Len(h) : w[i] = h[i]
       /\ \A i \in 1 .. Len(p) : w[Len(h) + i] = p[i]
  <2>1. h \in Seq(Byte)
    BY <1>8
  <2>2. /\ h \o p \in Seq(Byte) /\ Len(h \o p) = Len(h) + Len(p)
        /\ \A i \in 1 .. Len(h) : (h \o p)[i] = h[i]
        /\ \A i \in 1 .. Len(p) : (h \o p)[Len(h) + i] = p[i]
    BY <1>5, <2>1
  <2> QED BY <1>9, <2>2, Zenon
<1>11. Len(h) = 8
  BY <1>2, <1>3, <1>8
<1>12. Len(w) = 8 + Len(p) /\ \A i \in 1 .. Len(p) : w[8 + i] = p[i]
  BY <1>10, <1>11
<1>13. \A i \in 1 .. 4 : w[i] = a[i]
  BY <1>2, <1>8, <1>10, <1>11
<1>14. \A i \in 1 .. 2 : w[4 + i] = r[i]
  <2>1. \A i \in 1 .. 2 : h[4 + i] = r[i]
    BY <1>2, <1>3, <1>8
  <2> QED BY <1>10, <1>11, <2>1
<1>15. \A i \in 1 .. 2 : w[6 + i] = t[i]
  <2>1. \A i \in 1 .. 2 : h[6 + i] = t[i]
    BY <1>2, <1>3, <1>8
  <2> QED BY <1>10, <1>11, <2>1
<1> QED BY <1>10, <1>12, <1>13, <1>14, <1>15 DEF a, r, t, w, p

\* Nothing wraps when the output fits.
LEMMA Sizes ==
    ASSUME NEW f, WellFormed(f), NEW sig \in Seq(Byte), Fits(f, sig)
    PROVE  LET n == data_end(parse_pe(f))
           IN  /\ Len(f) < Word
               /\ CertLen(sig) = 8 + Len(PaddedDer(sig))
               /\ n + PadLen(n) + CertLen(sig) < Word
               /\ n + PadLen(n) \in U32s
               /\ CertLen(sig) \in U32s
               /\ CertLen(sig) >= 8
<1> DEFINE n == data_end(parse_pe(f))
<1>1. Word \in Nat /\ Len(f) \in Nat /\ Len(sig) \in Nat /\ Len(f) + Len(sig) + 22 < Word
  BY WordType DEF Fits, WellFormed
<1>2. Len(f) < Word
  BY <1>1
<1>3. n \in Nat /\ n <= Len(f)
  BY <1>2, DataEnd
<1> HIDE DEF n
<1>4. PadLen(n) \in 0 .. 7 /\ PadLen(Len(sig)) \in 0 .. 7
  BY <1>1, <1>3, PadLenType
<1>5. Len(sig) + 8 + PadLen(Len(sig)) \in Nat /\ Len(sig) + 8 + PadLen(Len(sig)) < Word
  BY <1>1, <1>4
<1>6. CertLen(sig) = Len(sig) + 8 + PadLen(Len(sig))
  BY <1>1, <1>5, ModSmall DEF CertLen
<1>7. Len(PaddedDer(sig)) = Len(sig) + PadLen(Len(sig))
  BY PaddedDerType
<1>8. /\ n + PadLen(n) + CertLen(sig) < Word
      /\ n + PadLen(n) \in 0 .. Word - 1
      /\ CertLen(sig) \in 0 .. Word - 1
      /\ CertLen(sig) >= 8
      /\ CertLen(sig) = 8 + Len(PaddedDer(sig))
  <2> DEFINE k == PadLen(n)
             j == PadLen(Len(sig))
             L == CertLen(sig)
             P == Len(PaddedDer(sig))
  <2>1. /\ k \in 0 .. 7 /\ j \in 0 .. 7
        /\ L = Len(sig) + 8 + j /\ P = Len(sig) + j
    BY <1>4, <1>6, <1>7
  <2> HIDE DEF k, j, L, P
  <2>2. /\ n + k + L < Word
        /\ n + k \in 0 .. Word - 1
        /\ L \in 0 .. Word - 1
        /\ L >= 8
        /\ L = 8 + P
    BY <1>1, <1>3, <2>1
  <2> QED BY <2>2 DEF k, L, P
<1> QED BY <1>2, <1>8 DEF n, U32s

----------------------------------------------------------------------------
(* The signed file, stage by stage *)

LEMMA PaddedShape ==
    ASSUME NEW f, WellFormed(f), Len(f) < Word
    PROVE  LET n == data_end(parse_pe(f))
               p == Padded(f, parse_pe(f))
           IN  /\ p \in Seq(Byte)
               /\ Len(p) = n + PadLen(n)
               /\ Keeps(p, f, n)
               /\ \A i \in n + 1 .. n + PadLen(n) : p[i] = 0
<1> DEFINE n == data_end(parse_pe(f))
           z == Zeroed(f, parse_pe(f))
           k == PadLen(n)
           b == Zeros(k)
           p == Padded(f, parse_pe(f))
<1>1. z \in Seq(Byte) /\ Len(z) = n /\ Keeps(z, f, n)
  BY ZeroedShape
<1>2. n \in Nat /\ k \in Nat
  <2>1. n \in Nat
    BY DataEnd
  <2> HIDE DEF n
  <2> QED BY <2>1, PadLenNat
<1>3. p = z \o b
  BY <1>1 DEF Padded
<1>4. b \in Seq(Byte) /\ Len(b) = k /\ \A i \in 1 .. k : b[i] = 0
  BY <1>2, ZerosType
<1> HIDE DEF n, z, k, b, p
<1>5. /\ p \in Seq(Byte) /\ Len(p) = Len(z) + Len(b)
      /\ \A i \in 1 .. Len(z) : p[i] = z[i]
      /\ \A i \in 1 .. Len(b) : p[Len(z) + i] = b[i]
  <2>1. z \in Seq(Byte) /\ b \in Seq(Byte)
    BY <1>1, <1>4
  <2> QED BY <1>3, <2>1
<1>6. Len(p) = n + k
  BY <1>1, <1>4, <1>5
<1>7. Keeps(p, f, n)
  BY <1>1, <1>5 DEF Keeps
<1>8. ASSUME NEW i \in n + 1 .. n + k PROVE p[i] = 0
  <2>1. i - n \in 1 .. k /\ n + (i - n) = i
    BY <1>2
  <2>2. p[n + (i - n)] = b[i - n]
    BY <1>1, <1>4, <1>5, <2>1
  <2> QED BY <1>4, <2>1, <2>2
<1> QED BY <1>5, <1>6, <1>7, <1>8 DEF n, k, p

LEMMA CertifiedShape ==
    ASSUME NEW f, WellFormed(f), NEW sig \in Seq(Byte), Fits(f, sig)
    PROVE  LET n == data_end(parse_pe(f))
               N == n + PadLen(n)
               e == Certified(f, parse_pe(f), sig)
               w == WinCertificate(sig)
           IN  /\ e \in Seq(Byte)
               /\ Len(e) = N + CertLen(sig)
               /\ Keeps(e, f, n)
               /\ \A i \in n + 1 .. N : e[i] = 0
               /\ \A i \in 1 .. CertLen(sig) : e[N + i] = w[i]
<1> DEFINE n == data_end(parse_pe(f))
           N == n + PadLen(n)
           p == Padded(f, parse_pe(f))
           w == WinCertificate(sig)
           e == Certified(f, parse_pe(f), sig)
           L == CertLen(sig)
<1>1. Len(f) < Word /\ L \in Nat /\ N \in Nat /\ L = 8 + Len(PaddedDer(sig))
  <2>1. L \in U32s /\ N \in U32s /\ Len(f) < Word /\ L = 8 + Len(PaddedDer(sig))
    BY Sizes
  <2> HIDE DEF L, N
  <2> QED BY <2>1, WordType DEF U32s
<1>2. n \in Nat /\ PadLen(n) \in Nat
  <2>1. n \in Nat
    BY <1>1, DataEnd
  <2> HIDE DEF n
  <2> QED BY <2>1, PadLenNat
<1>3. /\ p \in Seq(Byte) /\ Len(p) = N /\ Keeps(p, f, n)
      /\ \A i \in n + 1 .. N : p[i] = 0
  BY <1>1, PaddedShape
<1>4. w \in Seq(Byte) /\ Len(w) = L
  BY <1>1, CertShape
<1>5. e = p \o w
  BY DEF Certified
<1>6. n <= N
  <2> HIDE DEF n
  <2> QED BY <1>2
<1> HIDE DEF n, N, p, w, e, L
<1>7. /\ e \in Seq(Byte) /\ Len(e) = Len(p) + Len(w)
      /\ \A i \in 1 .. Len(p) : e[i] = p[i]
      /\ \A i \in 1 .. Len(w) : e[Len(p) + i] = w[i]
  <2>1. p \in Seq(Byte) /\ w \in Seq(Byte)
    BY <1>3, <1>4
  <2> QED BY <1>5, <2>1
<1>8. \A i \in 1 .. N : e[i] = p[i]
  BY <1>3, <1>7
<1>9. Keeps(e, f, n)
  BY <1>1, <1>2, <1>3, <1>6, <1>8 DEF Keeps
<1>10. \A i \in n + 1 .. N : e[i] = 0
  BY <1>1, <1>2, <1>3, <1>8
<1>11. Len(e) = N + L /\ \A i \in 1 .. L : e[N + i] = w[i]
  BY <1>3, <1>4, <1>7
<1> QED BY <1>7, <1>9, <1>10, <1>11 DEF n, N, e, w, L

\* The output of write_signed_pe_to, whatever the checksum bytes.
LEMMA SignedShape ==
    ASSUME NEW f, WellFormed(f), NEW sig \in Seq(Byte), Fits(f, sig),
           NEW b \in Seq(Byte), Len(b) = 4
    PROVE  LET n   == data_end(parse_pe(f))
               N   == n + PadLen(n)
               T   == cert_table_offset(f)
               L   == CertLen(sig)
               out == write_at(Directed(f, parse_pe(f), sig), checksum_offset(f), b)
           IN  /\ out \in Seq(Byte)
               /\ Len(out) = N + L
               /\ Keeps(out, f, n)
               /\ \A i \in n + 1 .. N : out[i] = 0
               /\ \A i \in 1 .. L : out[N + i] = WinCertificate(sig)[i]
               /\ \A i \in 1 .. 4 : out[T + i] = Put32(N)[i]
               /\ \A i \in 1 .. 4 : out[T + 4 + i] = Put32(L)[i]
<1> DEFINE n   == data_end(parse_pe(f))
           N   == n + PadLen(n)
           C   == checksum_offset(f)
           T   == cert_table_offset(f)
           L   == CertLen(sig)
           w   == WinCertificate(sig)
           e   == Certified(f, parse_pe(f), sig)
           d   == Directed(f, parse_pe(f), sig)
           r   == DirEntry(f, parse_pe(f), sig)
           out == write_at(d, C, b)
<1>1. /\ Len(f) < Word /\ Word \in Nat
      /\ N \in U32s /\ L \in U32s /\ L \in Nat /\ N \in Nat
  <2>1. L \in U32s /\ N \in U32s /\ Len(f) < Word
    BY Sizes
  <2> HIDE DEF L, N
  <2> QED BY <2>1, WordType DEF U32s
<1>2. /\ f \in Seq(Byte) /\ HeadersValid(f) /\ n \in Nat
      /\ header_size(f) + HEADERS <= n
  BY <1>1, DataEnd
<1>3. n <= N
  <2>1. PadLen(n) \in Nat
    BY <1>2, PadLenNat
  <2> QED BY <1>2, <2>1
<1>4. C \in Nat /\ T \in Nat /\ C + 4 <= T /\ T + 8 <= n
  <2> HIDE DEF n
  <2> QED BY <1>2, Offsets
<1>5. /\ e \in Seq(Byte) /\ Len(e) = N + L /\ Keeps(e, f, n)
      /\ \A i \in n + 1 .. N : e[i] = 0
      /\ \A i \in 1 .. L : e[N + i] = w[i]
  BY CertifiedShape
<1>6. r = Put32(N) \o Put32(L)
  <2>1. Len(Padded(f, parse_pe(f))) = N
    BY <1>1, PaddedShape
  <2>2. N % Word = N
    <3>1. N < Word
      BY <1>1 DEF U32s
    <3> HIDE DEF N
    <3> QED BY <1>1, <3>1, ModSmall
  <2> QED BY <2>1, <2>2 DEF DirEntry
<1>7. /\ r \in Seq(Byte) /\ Len(r) = 8
      /\ \A i \in 1 .. 4 : r[i] = Put32(N)[i]
      /\ \A i \in 1 .. 4 : r[4 + i] = Put32(L)[i]
  <2> DEFINE s == Put32(N)
             t == Put32(L)
  <2>1. s \in Seq(Byte) /\ Len(s) = 4 /\ t \in Seq(Byte) /\ Len(t) = 4
    <3> HIDE DEF N, L
    <3> QED BY <1>1, Put32Type
  <2>2. s \in Seq(Byte) /\ t \in Seq(Byte)
    BY <2>1
  <2> HIDE DEF r, s, t
  <2>3. r = s \o t
    BY <1>6 DEF s, t
  <2>4. /\ r \in Seq(Byte) /\ Len(r) = Len(s) + Len(t)
        /\ \A i \in 1 .. Len(s) : r[i] = s[i]
        /\ \A i \in 1 .. Len(t) : r[Len(s) + i] = t[i]
    BY <2>2, <2>3
  <2>5. /\ r \in Seq(Byte) /\ Len(r) = 8
        /\ \A i \in 1 .. 4 : r[i] = s[i]
        /\ \A i \in 1 .. 4 : r[4 + i] = t[i]
    BY <2>1, <2>4
  <2> QED BY <2>5 DEF s, t
<1>8. d = write_at(e, cert_table_offset(f), r)
  BY <1>2, ParsedFields DEF Directed
<1> HIDE DEF n, N, L, w, e, d, r
<1>9. n <= Len(e) /\ cert_table_offset(f) + 8 <= Len(e)
  BY <1>1, <1>2, <1>3, <1>4, <1>5
<1>10. /\ d \in Seq(Byte) /\ Len(d) = Len(e) /\ Keeps(d, f, n)
       /\ \A i \in 1 .. 8 : d[T + i] = r[i]
       /\ \A i \in 1 .. Len(e) : i <= T \/ i > T + 8 => d[i] = e[i]
  <2>1. e \in Seq(Byte) /\ Keeps(e, f, n)
    BY <1>5
  <2>2. r \in Seq(Byte) /\ Len(r) = 8
    BY <1>7
  <2> DEFINE g == write_at(e, cert_table_offset(f), r)
  <2> HIDE DEF T, C, out
  <2>3. g \in Seq(Byte) /\ Len(g) = Len(e) /\ Keeps(g, f, n)
    BY <1>2, <1>9, <2>1, <2>2, EntryWrite
  <2>4. \A i \in 1 .. 8 : g[cert_table_offset(f) + i] = r[i]
    <3>1. T + Len(r) <= Len(e) /\ T \in Nat
      BY <1>4, <1>9, <2>2 DEF T
    <3>2. \A i \in 1 .. Len(r) : write_at(e, T, r)[T + i] = r[i]
      BY <2>1, <2>2, <3>1, WriteAtWithin, Zenon
    <3> QED BY <2>2, <3>2 DEF T
  <2>5. \A i \in 1 .. Len(e) :
            i <= cert_table_offset(f) \/ i > cert_table_offset(f) + 8 => g[i] = e[i]
    <3>1. T + Len(r) <= Len(e) /\ T \in Nat
      BY <1>4, <1>9, <2>2 DEF T
    <3>2. \A i \in 1 .. Len(e) : i <= T \/ i > T + Len(r) => write_at(e, T, r)[i] = e[i]
      BY <2>1, <2>2, <3>1, WriteAtWithin, Zenon
    <3> QED BY <2>2, <3>2 DEF T
  <2> QED BY <1>8, <2>3, <2>4, <2>5 DEF T
<1>11. n <= Len(d) /\ checksum_offset(f) + 4 <= Len(d)
  <2>1. Len(d) = Len(e) /\ n <= Len(e)
    BY <1>9, <1>10
  <2>2. C \in Nat /\ T \in Nat /\ n \in Nat /\ C + 4 <= T /\ T + 8 <= n
    BY <1>2, <1>4
  <2>3. Len(e) \in Nat
    BY <1>5
  <2>4. C + 4 <= Len(e)
    <3> HIDE DEF C, T
    <3> QED BY <2>1, <2>2, <2>3
  <2> QED BY <2>1, <2>4
<1>12. /\ out \in Seq(Byte) /\ Len(out) = Len(d) /\ Keeps(out, f, n)
       /\ \A i \in 1 .. Len(d) : i <= C \/ i > C + 4 => out[i] = d[i]
  BY <1>2, <1>10, <1>11, ChecksumWrite
<1> HIDE DEF out, C, T
<1>13. Len(out) = N + L
  BY <1>5, <1>10, <1>12
<1>14. ASSUME NEW i \in n + 1 .. N + L PROVE out[i] = e[i]
  <2>1. Len(e) = N + L /\ Len(d) = N + L
    BY <1>5, <1>10
  <2>2. i \in 1 .. N + L /\ i > T + 8 /\ i > C + 4
    BY <1>1, <1>2, <1>3, <1>4
  <2> QED BY <1>10, <1>12, <2>1, <2>2
<1>15. \A i \in n + 1 .. N : out[i] = 0
  BY <1>1, <1>2, <1>3, <1>5, <1>14
<1>16. \A i \in 1 .. L : out[N + i] = w[i]
  BY <1>1, <1>2, <1>3, <1>5, <1>14
<1>17. ASSUME NEW i \in 1 .. 8 PROVE out[T + i] = r[i]
  <2>1. Len(d) = N + L
    BY <1>5, <1>10
  <2>2. T + i \in 1 .. N + L /\ T + i > C + 4
    BY <1>1, <1>2, <1>3, <1>4
  <2> QED BY <1>10, <1>12, <2>1, <2>2
<1>18. \A i \in 1 .. 4 : out[T + i] = Put32(N)[i]
  BY <1>7, <1>17
<1>19. \A i \in 1 .. 4 : out[T + 4 + i] = Put32(L)[i]
  <2>1. \A i \in 1 .. 4 : 4 + i \in 1 .. 8 /\ T + 4 + i = T + (4 + i)
    BY <1>4
  <2> QED BY <1>7, <1>17, <2>1
<1>20. out \in Seq(Byte) /\ Keeps(out, f, n)
  BY <1>12
<1> QED BY <1>13, <1>15, <1>16, <1>18, <1>19, <1>20 DEF n, N, L, T, C, w, d, out

----------------------------------------------------------------------------
(* The signed file, read back *)

\* The output of write_signed_pe_to before its last write, with any four bytes
\* where the checksum goes.
SignedFile(f, sig, b) ==
    write_at(Directed(f, parse_pe(f), sig), parse_pe(f).checksum_offset, b)

\* parse_pe sees the table where the data ended.
LEMMA SignedParse ==
    ASSUME NEW f, WellFormed(f), NEW sig \in Seq(Byte), Fits(f, sig),
           NEW b \in Seq(Byte), Len(b) = 4
    PROVE  LET n  == data_end(parse_pe(f))
               info == parse_pe(SignedFile(f, sig, b))
           IN  /\ info.ok
               /\ info.checksum_offset = checksum_offset(f)
               /\ info.cert_table_offset = cert_table_offset(f)
               /\ info.sigpos = n + PadLen(n)
               /\ info.siglen = CertLen(sig)
               /\ n + PadLen(n) > 0
<1> DEFINE n   == data_end(parse_pe(f))
           N   == n + PadLen(n)
           T   == cert_table_offset(f)
           L   == CertLen(sig)
           out == SignedFile(f, sig, b)
<1>1. /\ Len(f) < Word /\ N \in U32s /\ L \in U32s
      /\ N + L < Word /\ L >= 8
  BY Sizes
<1>2. Word \in Nat /\ N \in Nat /\ L \in Nat
  <2> HIDE DEF N, L
  <2> QED BY <1>1, WordType DEF U32s
<1>3. /\ f \in Seq(Byte) /\ HeadersValid(f) /\ n \in Nat
      /\ header_size(f) + HEADERS <= n
  BY <1>1, DataEnd
<1>4. n <= N
  <2>1. PadLen(n) \in Nat
    BY <1>3, PadLenNat
  <2> QED BY <1>3, <2>1
<1>5. /\ out \in Seq(Byte) /\ Len(out) = N + L /\ Keeps(out, f, n)
      /\ \A i \in 1 .. 4 : out[T + i] = Put32(N)[i]
      /\ \A i \in 1 .. 4 : out[T + 4 + i] = Put32(L)[i]
  <2>1. parse_pe(f).checksum_offset = checksum_offset(f)
    BY <1>3, ParsedFields
  <2> QED BY <2>1, SignedShape DEF SignedFile
<1>6. T \in Nat /\ header_size(f) + HEADERS \in Nat /\ T + 8 <= n
  <2> HIDE DEF n
  <2> QED BY <1>3, Offsets
<1> HIDE DEF n, N, T, L, out
<1>7. Keeps(out, f, header_size(f) + HEADERS)
  BY <1>3, <1>5, <1>6 DEF Keeps
<1>8. Len(out) < Word /\ header_size(f) + HEADERS <= Len(out)
  <2>1. Len(out) = N + L
    BY <1>5
  <2>2. N + L < Word
    BY <1>1
  <2>3. header_size(f) + HEADERS <= n /\ n \in Nat
    BY <1>3
  <2>4. header_size(f) + HEADERS \in Nat
    BY <1>6
  <2>5. header_size(f) + HEADERS <= N + L
    <3> DEFINE h == header_size(f) + HEADERS
    <3>1. h \in Nat /\ h <= n
      BY <2>3, <2>4
    <3> HIDE DEF h
    <3>2. h <= N + L
      BY <1>2, <1>4, <2>3, <3>1
    <3> QED BY <3>2 DEF h
  <2> QED BY <2>1, <2>2, <2>5
<1>9. /\ HeadersValid(out)
      /\ checksum_offset(out) = checksum_offset(f)
      /\ cert_table_offset(out) = T
      /\ filesize(out) = N + L
  <2>1. out \in Seq(Byte) /\ Len(out) = N + L
    BY <1>5
  <2> QED BY <1>3, <1>7, <1>8, <2>1, HeadersKept DEF T
<1>10. read_u32(out, T) = N
  <2>1. /\ out[T + 1] = Put32(N)[1] /\ out[T + 2] = Put32(N)[2]
        /\ out[T + 3] = Put32(N)[3] /\ out[T + 4] = Put32(N)[4]
    BY <1>5
  <2> QED BY <1>1, <1>6, <2>1, RoundTrip32
<1>11. read_u32(out, T + 4) = L
  <2>1. T + 4 \in Nat
    BY <1>6
  <2>2. /\ out[T + 4 + 1] = Put32(L)[1] /\ out[T + 4 + 2] = Put32(L)[2]
        /\ out[T + 4 + 3] = Put32(L)[3] /\ out[T + 4 + 4] = Put32(L)[4]
    BY <1>5
  <2> QED BY <1>1, <2>1, <2>2, RoundTrip32
<1>12. N > 0
  BY <1>2, <1>3, <1>4, <1>6
<1>13. Trailing(out)
  <2>1. (N + L) % Word = N + L
    <3>1. N + L \in Nat
      BY <1>2
    <3> QED BY <1>1, <1>2, <3>1, ModSmall
  <2>2. N # 0 /\ L # 0 /\ N < N + L
    BY <1>1, <1>2, <1>12
  <2> QED BY <1>9, <1>10, <1>11, <2>1, <2>2 DEF Trailing
<1>14. /\ parse_pe(out).ok
       /\ parse_pe(out).checksum_offset = checksum_offset(out)
       /\ parse_pe(out).cert_table_offset = cert_table_offset(out)
       /\ parse_pe(out).sigpos = read_u32(out, cert_table_offset(out))
       /\ parse_pe(out).siglen = read_u32(out, cert_table_offset(out) + 4)
  BY <1>5, <1>9, <1>13, ParsedFields
<1>15. /\ parse_pe(out).ok
       /\ parse_pe(out).checksum_offset = checksum_offset(f)
       /\ parse_pe(out).cert_table_offset = T
       /\ parse_pe(out).sigpos = N
       /\ parse_pe(out).siglen = L
  BY <1>9, <1>10, <1>11, <1>14
<1> QED BY <1>12, <1>15 DEF n, N, T, L, out

\* Neither the padding nor the table changes what is hashed.
LEMMA SignedDigest ==
    ASSUME NEW f, WellFormed(f), NEW sig \in Seq(Byte), Fits(f, sig),
           NEW b \in Seq(Byte), Len(b) = 4
    PROVE  LET out == SignedFile(f, sig, b)
           IN  authenticode_digest(out, parse_pe(out))
                   = authenticode_digest(f, parse_pe(f))
<1> DEFINE n   == data_end(parse_pe(f))
           k   == PadLen(n)
           N   == n + k
           C   == checksum_offset(f)
           T   == cert_table_offset(f)
           out == SignedFile(f, sig, b)
           z   == Zeros(k)
<1>1. /\ Len(f) < Word /\ CertLen(sig) \in U32s
  BY Sizes
<1>2. /\ f \in Seq(Byte) /\ HeadersValid(f) /\ n \in Nat /\ n <= Len(f)
      /\ header_size(f) + HEADERS <= n
  BY <1>1, DataEnd
<1>3. k \in Nat /\ PadLen(N) = 0
  <2>1. \A m \in Nat : PadLen(m) \in Nat /\ PadLen(m + PadLen(m)) = 0
    BY PadLenType
  <2>2. n \in Nat
    BY <1>2
  <2> HIDE DEF n
  <2> QED BY <2>1, <2>2
<1>4. C \in Nat /\ T \in Nat /\ C + 4 <= T /\ T + 8 <= n
  <2> HIDE DEF n
  <2> QED BY <1>2, Offsets
<1>5. /\ out \in Seq(Byte) /\ N <= Len(out) /\ Keeps(out, f, n)
      /\ \A i \in n + 1 .. N : out[i] = 0
  <2>1. parse_pe(f).checksum_offset = checksum_offset(f)
    BY <1>2, ParsedFields
  <2>2. /\ out \in Seq(Byte) /\ Len(out) = N + CertLen(sig) /\ Keeps(out, f, n)
        /\ \A i \in n + 1 .. N : out[i] = 0
    BY <2>1, SignedShape DEF SignedFile
  <2> HIDE DEF N, out
  <2>3. N \in Nat /\ CertLen(sig) \in Nat
    BY <1>1, <1>2, <1>3, WordType DEF U32s, N
  <2> QED BY <2>2, <2>3
<1>6. /\ parse_pe(out).checksum_offset = C
      /\ parse_pe(out).cert_table_offset = T
      /\ data_end(parse_pe(out)) = N
  BY SignedParse DEF data_end
<1>7. /\ parse_pe(f).checksum_offset = C
      /\ parse_pe(f).cert_table_offset = T
  BY <1>2, ParsedFields
<1> HIDE DEF n, k, C, T, out, z
<1>8. Bytes(out, 0, C) = Bytes(f, 0, C)
  <2>1. C <= Len(out) /\ C <= Len(f) /\ 0 \in Nat /\ 0 <= C
    BY <1>2, <1>3, <1>4, <1>5
  <2>2. \A i \in 1 .. C : out[0 + i] = f[0 + i]
    BY <1>2, <1>3, <1>4, <1>5 DEF Keeps, C, T
  <2> QED BY <1>2, <1>4, <1>5, <2>1, <2>2, SameBytes, SMTT(30)
<1>9. Bytes(out, C + 4, T) = Bytes(f, C + 4, T)
  <2>1. C + 4 \in Nat /\ T <= Len(out) /\ T <= Len(f) /\ C + 4 <= T
    BY <1>2, <1>3, <1>4, <1>5
  <2>2. ASSUME NEW i \in 1 .. T - (C + 4) PROVE out[C + 4 + i] = f[C + 4 + i]
    <3>1. C + 4 + i \in 1 .. n /\ C + 4 + i > C + 4 /\ C + 4 + i <= T
      BY <1>2, <1>4
    <3> QED BY <1>5, <3>1 DEF Keeps, C, T
  <2> QED BY <1>2, <1>4, <1>5, <2>1, <2>2, SameBytes, ZenonT(40)
<1>10. Bytes(out, T + 8, N) = Bytes(f, T + 8, n) \o z
  <2> DEFINE x == Bytes(f, T + 8, n)
             y == Bytes(out, T + 8, N)
  <2>1. T + 8 \in Nat /\ N \in Nat /\ T + 8 <= N
    BY <1>2, <1>3, <1>4
  <2>2. /\ y \in Seq(Byte) /\ Len(y) = N - (T + 8)
        /\ \A i \in 1 .. N - (T + 8) : y[i] = out[T + 8 + i]
    <3> HIDE DEF N
    <3> QED BY <1>5, <2>1, BytesWithin
  <2>3. /\ x \in Seq(Byte) /\ Len(x) = n - (T + 8)
        /\ \A i \in 1 .. n - (T + 8) : x[i] = f[T + 8 + i]
    BY <1>2, <1>4, <2>1, BytesWithin
  <2>4. /\ z \in Seq(Byte) /\ Len(z) = k /\ \A i \in 1 .. k : z[i] = 0
    BY <1>3, ZerosType DEF z
  <2> HIDE DEF x, y
  <2>5. /\ x \o z \in Seq(Byte) /\ Len(x \o z) = Len(x) + Len(z)
        /\ \A i \in 1 .. Len(x) : (x \o z)[i] = x[i]
        /\ \A i \in 1 .. Len(z) : (x \o z)[Len(x) + i] = z[i]
    <3>1. x \in Seq(Byte) /\ z \in Seq(Byte)
      BY <2>3, <2>4
    <3> QED BY <3>1
  <2> DEFINE xz == x \o z
  <2> HIDE DEF xz
  <2>6. /\ xz \in Seq(Byte) /\ Len(xz) = Len(y)
    BY <1>2, <1>3, <1>4, <2>2, <2>3, <2>4, <2>5 DEF xz
  <2>7. ASSUME NEW i \in 1 .. Len(y) PROVE y[i] = xz[i]
    <3>1. i \in 1 .. N - (T + 8) /\ y[i] = out[T + 8 + i]
      BY <2>2
    <3>2. CASE i <= n - (T + 8)
      <4>1. T + 8 + i \in 1 .. n /\ T + 8 + i > T + 8 /\ T + 8 + i > C + 4
        BY <1>2, <1>4, <3>1, <3>2
      <4>2. out[T + 8 + i] = f[T + 8 + i]
        BY <1>5, <4>1 DEF Keeps, C, T
      <4>3. i \in 1 .. n - (T + 8) /\ i \in 1 .. Len(x)
        BY <1>2, <1>4, <2>3, <3>1, <3>2
      <4> QED BY <2>3, <2>5, <3>1, <4>2, <4>3 DEF xz
    <3>3. CASE i > n - (T + 8)
      <4>1. T + 8 + i \in n + 1 .. N /\ i - (n - (T + 8)) \in 1 .. k
            /\ (n - (T + 8)) + (i - (n - (T + 8))) = i
        BY <1>2, <1>3, <1>4, <3>1, <3>3
      <4>2. out[T + 8 + i] = 0
        BY <1>5, <4>1
      <4>3. xz[i] = 0
        BY <2>3, <2>4, <2>5, <4>1, SMTT(30) DEF xz
      <4> QED BY <3>1, <4>2, <4>3
    <3> QED BY <1>2, <1>4, <3>1, <3>2, <3>3
  <2>8. y = xz
    <3>1. y \in Seq(Byte)
      BY <2>2
    <3> QED BY <2>6, <2>7, <3>1, SeqEqual
  <2> QED BY <2>8 DEF x, y, xz
<1>11. Zeros(0) = << >>
  BY DEF Zeros
<1> DEFINE p == Bytes(f, 0, C)
           q == Bytes(f, C + 4, T)
           x == Bytes(f, T + 8, n)
<1>12. p \in Seq(Byte) /\ q \in Seq(Byte) /\ x \in Seq(Byte) /\ z \in Seq(Byte)
  <2>1. 0 \in Nat /\ C + 4 \in Nat /\ T + 8 \in Nat
    BY <1>4
  <2>2. z \in Seq(Byte)
    BY <1>3, ZerosType DEF z
  <2> QED BY <1>2, <1>4, <2>1, <2>2, BytesType
<1>13. authenticode_digest(out, parse_pe(out)) = ((p \o q) \o (x \o z)) \o << >>
  BY <1>3, <1>6, <1>8, <1>9, <1>10, <1>11 DEF authenticode_digest
<1>14. authenticode_digest(f, parse_pe(f)) = ((p \o q) \o x) \o z
  BY <1>7 DEF authenticode_digest, n, k, z
<1> HIDE DEF p, q, x
<1>15. ((p \o q) \o (x \o z)) \o << >> = ((p \o q) \o x) \o z
  BY <1>12, SMTT(30)
<1> QED BY <1>13, <1>14, <1>15 DEF out

\* extract_signature stops at the first entry, with the blob and its padding.
LEMMA SignedExtract ==
    ASSUME NEW f, WellFormed(f), NEW sig \in Seq(Byte), Fits(f, sig),
           NEW b \in Seq(Byte), Len(b) = 4
    PROVE  LET out == SignedFile(f, sig, b)
           IN  extract_signature(out, parse_pe(out)) = Signature(PaddedDer(sig))
<1> DEFINE n   == data_end(parse_pe(f))
           N   == n + PadLen(n)
           L   == CertLen(sig)
           w   == WinCertificate(sig)
           d   == PaddedDer(sig)
           out == SignedFile(f, sig, b)
           info  == parse_pe(out)
           R   == WIN_CERT_REVISION_2_0
           P   == WIN_CERT_TYPE_PKCS_SIGNED_DATA
<1>1. /\ Len(f) < Word /\ N \in U32s /\ L \in U32s
      /\ N + L < Word /\ L >= 8 /\ L = 8 + Len(d)
  BY Sizes
<1>2. Word \in Nat /\ N \in Nat /\ L \in Nat
  <2> HIDE DEF N, L
  <2> QED BY <1>1, WordType DEF U32s
<1>3. out \in Seq(Byte) /\ Len(out) = N + L /\ \A i \in 1 .. L : out[N + i] = w[i]
  <2>1. parse_pe(f).checksum_offset = checksum_offset(f)
    BY <1>1, DataEnd, ParsedFields
  <2> QED BY <2>1, SignedShape DEF SignedFile
<1>4. info.sigpos = N /\ info.siglen = L /\ N > 0
  BY SignedParse
<1>5. /\ w \in Seq(Byte) /\ Len(w) = 8 + Len(d)
      /\ \A i \in 1 .. 4 : w[i] = Put32(L)[i]
      /\ \A i \in 1 .. 2 : w[4 + i] = Put16(R)[i]
      /\ \A i \in 1 .. 2 : w[6 + i] = Put16(P)[i]
      /\ \A i \in 1 .. Len(d) : w[8 + i] = d[i]
  BY CertShape
<1>6. d \in Seq(Byte)
  BY PaddedDerType
<1> HIDE DEF n, N, L, w, d, out, info
<1>7. read_u32(out, N) = L
  <2>1. /\ out[N + 1] = Put32(L)[1] /\ out[N + 2] = Put32(L)[2]
        /\ out[N + 3] = Put32(L)[3] /\ out[N + 4] = Put32(L)[4]
    BY <1>1, <1>2, <1>3, <1>5
  <2> QED BY <1>1, <1>2, <2>1, RoundTrip32
<1>8. read_u16(out, N + 4) = R
  <2>1. out[N + 4 + 1] = Put16(R)[1] /\ out[N + 4 + 2] = Put16(R)[2]
    <3>1. out[N + 5] = w[4 + 1] /\ out[N + 6] = w[4 + 2]
      BY <1>1, <1>2, <1>3
    <3>2. N + 4 + 1 = N + 5 /\ N + 4 + 2 = N + 6
      BY <1>2
    <3> QED BY <1>5, <3>1, <3>2
  <2>2. N + 4 \in Nat /\ R \in U16s
    BY <1>2, MagicAssumption
  <2> QED BY <2>1, <2>2, RoundTrip16
<1>9. read_u16(out, N + 6) = P
  <2>1. out[N + 6 + 1] = Put16(P)[1] /\ out[N + 6 + 2] = Put16(P)[2]
    <3>1. out[N + 7] = w[6 + 1] /\ out[N + 8] = w[6 + 2]
      BY <1>1, <1>2, <1>3
    <3>2. N + 6 + 1 = N + 7 /\ N + 6 + 2 = N + 8
      BY <1>2
    <3> QED BY <1>5, <3>1, <3>2
  <2>2. N + 6 \in Nat /\ P \in U16s
    BY <1>2, MagicAssumption
  <2> QED BY <2>1, <2>2, RoundTrip16
<1>10. (info.sigpos + 0) % Word = N
  <2>1. N < Word
    BY <1>1, <1>2
  <2>2. N % Word = N
    BY <1>2, <2>1, ModSmall
  <2> QED BY <1>2, <1>4, <2>2
<1>11. WalkEnds(out, info, 0)
  BY <1>8, <1>9, <1>10 DEF WalkEnds, IsPkcs
<1>12. Bytes(out, N + 8, N + L) = d
  <2> DEFINE y == Bytes(out, N + 8, N + L)
  <2>1. /\ y \in Seq(Byte) /\ Len(y) = (N + L) - (N + 8)
        /\ \A i \in 1 .. (N + L) - (N + 8) : y[i] = out[N + 8 + i]
    <3>1. N + 8 \in Nat /\ N + L \in Nat /\ N + 8 <= N + L /\ N + L <= Len(out)
      BY <1>1, <1>2, <1>3
    <3> QED BY <1>3, <3>1, BytesWithin
  <2> HIDE DEF y
  <2>2. Len(y) = Len(d)
    BY <1>1, <1>2, <1>6, <2>1
  <2>3. ASSUME NEW i \in 1 .. Len(d) PROVE y[i] = d[i]
    <3>1. i \in 1 .. (N + L) - (N + 8) /\ 8 + i \in 1 .. L /\ N + 8 + i = N + (8 + i)
      BY <1>1, <1>2, <1>6
    <3>2. y[i] = out[N + (8 + i)]
      BY <2>1, <3>1
    <3>3. out[N + (8 + i)] = w[8 + i]
      BY <1>3, <3>1
    <3> QED BY <1>5, <3>2, <3>3
  <2>4. y = d
    <3>1. y \in Seq(Byte)
      BY <2>1
    <3> QED BY <1>6, <2>2, <2>3, <3>1, SeqEqual
  <2> QED BY <2>4 DEF y
<1>13. WalkResult(out, info, 0) = Signature(d)
  <2>1. ~(0 >= info.siglen) /\ ~(N + 8 > Len(out)) /\ ~(L < 8) /\ ~(N + L > Len(out))
    BY <1>1, <1>2, <1>3, <1>4
  <2> QED BY <1>7, <1>10, <1>12, <2>1 DEF WalkResult
<1>14. ~(info.sigpos = 0 \/ info.siglen = 0)
  BY <1>1, <1>2, <1>4
<1>15. extract_signature(out, info) = Signature(d)
  BY <1>11, <1>13, <1>14 DEF extract_signature
<1> QED BY <1>15 DEF out, info, d

\* A file assembled by write_signed_pe_to is read back as signed, over the
\* digest of the image it was made from, with the blob that was embedded:
\* whatever bytes the checksum field holds, for every image and blob that fit.
THEOREM SignedFileGood ==
    ASSUME NEW f, WellFormed(f), NEW sig \in Seq(Byte), Fits(f, sig),
           NEW b \in Seq(Byte), Len(b) = 4
    PROVE  LET out == SignedFile(f, sig, b)
               info  == parse_pe(out)
           IN  /\ info.ok
               /\ info.sigpos > 0
               /\ authenticode_digest(out, info) = authenticode_digest(f, parse_pe(f))
               /\ extract_signature(out, info) = Signature(PaddedDer(sig))
<1>1. parse_pe(SignedFile(f, sig, b)).ok /\ parse_pe(SignedFile(f, sig, b)).sigpos > 0
  BY SignedParse
<1> QED BY <1>1, SignedDigest, SignedExtract

----------------------------------------------------------------------------
(* Tables of other tools *)

\* The entries that extract_signature may come to and pass over.
PassedOver(f, info) == {p \in 0 .. info.siglen - 1 : p % 8 = 0 /\ ~WalkEnds(f, info, p)}

LEMMA AlignedLength ==
    ASSUME NEW n \in Nat
    PROVE  /\ n + PadLen(n) \in Nat /\ n + PadLen(n) >= n /\ n + PadLen(n) <= n + 7
           /\ (n + PadLen(n)) % 8 = 0
<1> DEFINE k == PadLen(n)
<1>1. k \in 0 .. 7
  BY PadLenType
<1>2. (n + k) % 8 = 0
  BY PadLenType
<1> HIDE DEF k
<1>3. n + k \in Nat /\ n + k >= n /\ n + k <= n + 7
  BY <1>1
<1> QED BY <1>2, <1>3, Zenon DEF k

LEMMA SumIsNat == \A p, n \in Nat : p + n \in Nat
  OBVIOUS

LEMMA InIsNat == \A n \in Nat : \A p \in 0 .. n - 1 : p \in Nat
  OBVIOUS

LEMMA EightsAdd == \A p, n \in Nat : p % 8 = 0 /\ n % 8 = 0 => (p + n) % 8 = 0
  OBVIOUS

LEMMA BelowIsIn == \A p, n \in Nat : ~(p >= n) => p \in 0 .. n - 1
  OBVIOUS

\* Past such an entry the walk is at least 8 bytes further, at a quad-word, unless
\* the u32 sum wraps.
LEMMA WalkAdvances ==
    ASSUME NEW f \in Seq(Byte), NEW info, info.sigpos \in U32s, info.siglen \in U32s,
           NEW p \in PassedOver(f, info),
           read_u32(f, (info.sigpos + p) % Word) + 8 + info.siglen <= Word
    PROVE  /\ NextEntry(f, info, p) \in U32s
           /\ NextEntry(f, info, p) >= p + 8
           /\ NextEntry(f, info, p) % 8 = 0
<1> DEFINE at  == (info.sigpos + p) % Word
           len == read_u32(f, at)
           aligned == len + PadLen(len)
<1>1. /\ Word \in Nat \ {0} /\ info.sigpos \in Nat /\ info.siglen \in Nat
      /\ p \in Nat /\ p < info.siglen /\ p % 8 = 0
  BY WordType DEF U32s, PassedOver
<1>2. at \in Nat
  <2>1. info.sigpos + p \in Nat
    BY <1>1, SumIsNat, Zenon
  <2>2. at \in 0 .. Word - 1
    BY <1>1, <2>1, DivMod, Zenon
  <2> QED BY <1>1, <2>2, InIsNat, Zenon
<1>3. ~(at + 8 > Len(f)) /\ ~(len < 8)
  BY DEF PassedOver, WalkEnds
<1>4. len \in Nat
  <2>1. at + 4 <= Len(f)
    BY <1>2, <1>3
  <2>2. len \in U32s
    BY <1>2, <2>1, ReadType
  <2> QED BY <1>1, <2>2 DEF U32s
<1>5. len + 8 + info.siglen <= Word
  OBVIOUS
<1> HIDE DEF at, len
<1>6. /\ aligned \in Nat /\ aligned >= len /\ aligned <= len + 7
      /\ aligned % 8 = 0
  BY <1>4, AlignedLength, Zenon
<1> HIDE DEF aligned
<1>7. aligned < Word /\ p + aligned < Word
  BY <1>1, <1>4, <1>5, <1>6
<1>8. aligned % Word = aligned /\ (p + aligned) % Word = p + aligned
  <2>1. p + aligned \in Nat
    BY <1>1, <1>6
  <2> QED BY <1>1, <1>6, <1>7, <2>1, ModSmall, Zenon
<1>9. NextEntry(f, info, p) = p + aligned
  BY <1>8 DEF NextEntry, at, len, aligned
<1>10. aligned >= 8
  BY <1>3, <1>4, <1>6
<1>11. p + aligned \in 0 .. Word - 1 /\ (p + aligned) % 8 = 0
  <2>1. p + aligned \in Nat /\ ~(p + aligned >= Word)
    BY <1>1, <1>6, <1>7
  <2> QED BY <1>1, <1>6, <2>1, EightsAdd, BelowIsIn, Zenon
<1> QED BY <1>1, <1>6, <1>9, <1>10, <1>11 DEF U32s

\* extract_signature comes to an end in any certificate table, of however many
\* entries and whatever they hold, unless an entry that it passes over claims a
\* length within the table's own and eight bytes of 2^32: nothing less makes the
\* sum `pos += aligned` wrap, and no entry that ends within a file of less than
\* 2 GiB - 8 does.
THEOREM WalkReturns ==
    ASSUME NEW f \in Seq(Byte), NEW info, info.sigpos \in U32s, info.siglen \in U32s,
           \A p \in PassedOver(f, info) :
               read_u32(f, (info.sigpos + p) % Word) + 8 + info.siglen <= Word
    PROVE  extract_signature(f, info) # NeverReturns
<1> DEFINE n == (info.siglen \div 8) + 1
           Ends(p) == WalkEnds(f, info, p)
           advance == [p \in U32s |-> IF Ends(p) THEN p ELSE NextEntry(f, info, p)]
           S    == {p \in U32s : p % 8 = 0}
           step == [x \in S \X (1 .. n) |-> advance[x[1]]]
           Walk(g) == g = [k \in 0 .. n |-> IF k = 0 THEN 0 ELSE advance[g[k-1]]]
           pos  == CHOOSE g : Walk(g)
<1>1. /\ info.siglen \in Nat /\ n \in Nat /\ 8 * n > info.siglen /\ 0 \in S
  BY WordType DEF U32s
<1>2. ASSUME NEW p \in S
      PROVE  /\ advance[p] \in S
             /\ Ends(p) => advance[p] = p
             /\ ~Ends(p) => advance[p] >= p + 8
  <2>1. p \in U32s /\ p \in Nat /\ p % 8 = 0
    BY DEF U32s
  <2>2. CASE Ends(p)
    BY <2>1, <2>2
  <2>3. CASE ~Ends(p)
    <3>1. ~(p >= info.siglen)
      BY <2>3 DEF WalkEnds
    <3>2. p \in PassedOver(f, info)
      <4>1. p \in 0 .. info.siglen - 1
        BY <1>1, <2>1, <3>1, BelowIsIn, Zenon
      <4> QED BY <2>1, <2>3, <4>1, Zenon DEF PassedOver
    <3>3. /\ NextEntry(f, info, p) \in U32s /\ NextEntry(f, info, p) >= p + 8
          /\ NextEntry(f, info, p) % 8 = 0
      BY <3>2, WalkAdvances
    <3>4. advance[p] = NextEntry(f, info, p)
      BY <2>1, <2>3
    <3> HIDE DEF Ends, advance
    <3> QED BY <2>3, <3>3, <3>4
  <2> QED BY <2>2, <2>3
<1>3. step \in [S \X (1 .. n) -> S]
  <2> HIDE DEF S, n, advance
  <2> QED BY <1>2
<1>4. \A x \in S, k \in 1 .. n : step[<< x, k >>] = advance[x]
  <2> HIDE DEF S, n, advance
  <2> QED OBVIOUS
<1> HIDE DEF step, S, n, advance, Ends
<1>5. PICK s \in [0 .. n -> S] : Recursion(s, n, 0, step)
  BY <1>1, <1>3, RecursionExists
<1>6. Walk(s)
  <2>1. s[0] = 0 /\ \A k \in 1 .. n : s[k] = step[<< s[k-1], k >>]
    BY <1>5 DEF Recursion
  <2>2. ASSUME NEW k \in 0 .. n
        PROVE  s[k] = IF k = 0 THEN 0 ELSE advance[s[k-1]]
    <3>1. CASE k = 0
      BY <2>1, <3>1
    <3>2. CASE k # 0
      <4>1. k \in 1 .. n /\ k - 1 \in 0 .. n
        BY <1>1, <3>2
      <4>2. s[k-1] \in S
        BY <4>1
      <4> QED BY <1>4, <2>1, <3>2, <4>1, <4>2
    <3> QED BY <3>1, <3>2
  <2> QED BY <2>2
<1>7. Walk(pos)
  <2> HIDE DEF Walk
  <2> QED BY <1>6
<1> HIDE DEF pos
\* After k rounds the walk is over, or 8k bytes into the table.
<1>8. pos[n] \in S /\ (Ends(pos[n]) \/ pos[n] >= 8 * n)
  <2> DEFINE K == {k \in 0 .. n : pos[k] \in S /\ (Ends(pos[k]) \/ pos[k] >= 8 * k)}
  <2>1. 0 \in K
    <3>1. pos[0] = 0 /\ 0 \in 0 .. n
      BY <1>1, <1>7
    <3> QED BY <1>1, <3>1
  <2>2. ASSUME NEW k \in 1 .. n, k - 1 \in K PROVE k \in K
    <3>1. k \in 0 .. n /\ k # 0 /\ k \in Nat
      BY <1>1
    <3>2. pos[k] = advance[pos[k-1]]
      BY <1>7, <3>1
    <3>3. pos[k-1] \in S /\ (Ends(pos[k-1]) \/ pos[k-1] >= 8 * (k - 1))
      BY <2>2
    <3>4. pos[k] \in S /\ pos[k] \in Nat /\ pos[k-1] \in Nat
      BY <1>2, <3>2, <3>3 DEF S, U32s
    <3>5. CASE Ends(pos[k-1])
      <4>1. Ends(pos[k])
        BY <1>2, <3>2, <3>3, <3>5
      <4> QED BY <3>1, <3>4, <4>1
    <3>6. CASE ~Ends(pos[k-1])
      <4>1. pos[k] >= pos[k-1] + 8
        BY <1>2, <3>2, <3>3, <3>6
      <4>2. pos[k-1] >= 8 * (k - 1)
        BY <3>3, <3>6
      <4>3. pos[k] >= 8 * k
        BY <3>1, <3>4, <4>1, <4>2
      <4> QED BY <3>1, <3>4, <4>3
    <3> QED BY <3>5, <3>6
  <2> HIDE DEF K
  <2>3. 0 .. n \subseteq K
    BY <1>1, <2>1, <2>2, UpTo
  <2>4. n \in K
    BY <1>1, <2>3
  <2> QED BY <2>4 DEF K
<1>9. Ends(pos[n])
  <2>1. CASE pos[n] >= 8 * n
    <3>1. pos[n] \in Nat
      BY <1>8 DEF S, U32s
    <3>2. pos[n] >= info.siglen
      BY <1>1, <2>1, <3>1
    <3> QED BY <3>2 DEF Ends, WalkEnds
  <2> QED BY <1>8, <2>1
<1>10. \A p : WalkResult(f, info, p) # NeverReturns
  BY DEF WalkResult, NoSignature, BadTable, Signature, NeverReturns
<1>11. NoSignature # NeverReturns
  BY DEF NoSignature, NeverReturns
<1>12. \/ extract_signature(f, info) = NoSignature
       \/ extract_signature(f, info) = WalkResult(f, info, 0)
       \/ extract_signature(f, info) = WalkResult(f, info, pos[n])
  BY <1>9 DEF extract_signature, pos, n, advance, Ends
<1> QED BY <1>10, <1>11, <1>12

----------------------------------------------------------------------------
(* Files that are not seen as signed *)

\* Headers at the same two offsets start at the same place.
LEMMA SameHeaderSize ==
    ASSUME NEW f \in Seq(Byte), HeadersValid(f), NEW g \in Seq(Byte), HeadersValid(g),
           checksum_offset(g) = checksum_offset(f)
    PROVE  header_size(g) = header_size(f)
<1>1. header_size(f) \in Nat /\ header_size(g) \in Nat /\ CHECKSUM_AT \in Nat
  BY HeaderLayout, LayoutAssumption
<1>2. checksum_offset(f) = header_size(f) + CHECKSUM_AT
      /\ checksum_offset(g) = header_size(g) + CHECKSUM_AT
  BY DEF checksum_offset
<1> QED BY <1>1, <1>2

\* A file that has the image's data, but for the two fields, has its headers.
LEMMA KeptImage ==
    ASSUME NEW f, WellFormed(f), Len(f) < Word,
           NEW g \in Seq(Byte), Len(g) < Word,
           data_end(parse_pe(f)) <= Len(g), Keeps(g, f, data_end(parse_pe(f)))
    PROVE  /\ HeadersValid(g)
           /\ checksum_offset(g) = checksum_offset(f)
           /\ cert_table_offset(g) = cert_table_offset(f)
           /\ header_size(g) = header_size(f)
           /\ filesize(g) = Len(g)
<1> DEFINE n == data_end(parse_pe(f))
           h == header_size(f) + HEADERS
<1>1. f \in Seq(Byte) /\ HeadersValid(f) /\ n \in Nat /\ h <= n
  BY DataEnd
<1>2. h \in Nat
  BY <1>1, Offsets
<1>3. n <= Len(g) /\ Keeps(g, f, n)
  OBVIOUS
<1> HIDE DEF n, h
<1>4. h <= Len(g) /\ Keeps(g, f, h)
  BY <1>1, <1>2, <1>3 DEF Keeps
<1>5. /\ HeadersValid(g)
      /\ checksum_offset(g) = checksum_offset(f)
      /\ cert_table_offset(g) = cert_table_offset(f)
      /\ filesize(g) = Len(g)
  BY <1>1, <1>4, HeadersKept DEF h
<1> QED BY <1>1, <1>5, SameHeaderSize

\* With no more than that data, and no entry that counts, it has its digest.
LEMMA KeptDigest ==
    ASSUME NEW f, WellFormed(f), Len(f) < Word,
           NEW g \in Seq(Byte), Len(g) = data_end(parse_pe(f)),
           Keeps(g, f, data_end(parse_pe(f))),
           parse_pe(g).sigpos = 0
    PROVE  authenticode_digest(g, parse_pe(g)) = authenticode_digest(f, parse_pe(f))
<1> DEFINE n == data_end(parse_pe(f))
           C == checksum_offset(f)
           T == cert_table_offset(f)
<1>1. /\ f \in Seq(Byte) /\ HeadersValid(f) /\ n \in Nat /\ n <= Len(f)
      /\ header_size(f) + HEADERS <= n
  BY DataEnd
<1>2. C \in Nat /\ T \in Nat /\ C + 4 <= T /\ T + 8 <= n
  <2> HIDE DEF n
  <2> QED BY <1>1, Offsets
<1>3. Len(g) = n /\ Keeps(g, f, n) /\ Len(g) < Word
  BY <1>1, WordType
<1>4. /\ HeadersValid(g) /\ filesize(g) = n
      /\ checksum_offset(g) = C /\ cert_table_offset(g) = T
  BY <1>1, <1>3, KeptImage
<1>5. /\ parse_pe(g).checksum_offset = C
      /\ parse_pe(g).cert_table_offset = T
      /\ parse_pe(g).fileend = n
  BY <1>4, ParsedFields
<1>6. data_end(parse_pe(g)) = n
  BY <1>5 DEF data_end
<1>7. parse_pe(f).checksum_offset = C /\ parse_pe(f).cert_table_offset = T
  BY <1>1, ParsedFields
<1>8. \A i \in 1 .. n : (i <= C \/ i > C + 4) /\ (i <= T \/ i > T + 8) => g[i] = f[i]
  BY <1>3 DEF Keeps
<1> HIDE DEF n, C, T
<1>9. Bytes(g, 0, C) = Bytes(f, 0, C)
  <2>1. C <= Len(g) /\ C <= Len(f) /\ 0 \in Nat /\ 0 <= C
    BY <1>1, <1>2, <1>3
  <2>2. \A i \in 1 .. C - 0 : g[0 + i] = f[0 + i]
    BY <1>1, <1>2, <1>8
  <2> QED BY <1>1, <1>2, <2>1, <2>2, SameBytes, ZenonT(40)
<1>10. Bytes(g, C + 4, T) = Bytes(f, C + 4, T)
  <2>1. C + 4 \in Nat /\ T <= Len(g) /\ T <= Len(f) /\ C + 4 <= T
    BY <1>1, <1>2, <1>3
  <2>2. ASSUME NEW i \in 1 .. T - (C + 4) PROVE g[C + 4 + i] = f[C + 4 + i]
    <3>1. C + 4 + i \in 1 .. n /\ C + 4 + i > C + 4 /\ C + 4 + i <= T
      BY <1>1, <1>2
    <3> QED BY <1>8, <3>1
  <2> QED BY <1>1, <1>2, <2>1, <2>2, SameBytes, ZenonT(40)
<1>11. Bytes(g, T + 8, n) = Bytes(f, T + 8, n)
  <2>1. T + 8 \in Nat /\ n <= Len(g) /\ T + 8 <= n
    BY <1>1, <1>2, <1>3
  <2>2. ASSUME NEW i \in 1 .. n - (T + 8) PROVE g[T + 8 + i] = f[T + 8 + i]
    <3>1. T + 8 + i \in 1 .. n /\ T + 8 + i > T + 8 /\ T + 8 + i > C + 4
      BY <1>1, <1>2
    <3> QED BY <1>8, <3>1
  <2> QED BY <1>1, <1>2, <2>1, <2>2, SameBytes, ZenonT(40)
<1> QED BY <1>5, <1>6, <1>7, <1>9, <1>10, <1>11 DEF authenticode_digest, n

\* A file that has the image's data and half an entry is not seen as signed.
LEMMA NoEntry ==
    ASSUME NEW f, WellFormed(f), Len(f) < Word,
           NEW g \in Seq(Byte), Len(g) < Word,
           data_end(parse_pe(f)) <= Len(g), Keeps(g, f, data_end(parse_pe(f))),
           \/ \A i \in 1 .. 4 : g[cert_table_offset(f) + i] = 0
           \/ \A i \in 1 .. 4 : g[cert_table_offset(f) + 4 + i] = 0
    PROVE  parse_pe(g).ok /\ parse_pe(g).sigpos = 0
<1> DEFINE T == cert_table_offset(f)
<1>1. HeadersValid(g) /\ cert_table_offset(g) = T
  BY KeptImage
<1>2. /\ parse_pe(g).ok
      /\ parse_pe(g).sigpos = IF Trailing(g) THEN read_u32(g, T) ELSE 0
  BY <1>1, ParsedFields
<1>3. Trailing(g) => read_u32(g, T) # 0 /\ read_u32(g, T + 4) # 0
  BY <1>1 DEF Trailing
<1>4. T \in Nat
  <2>1. f \in Seq(Byte) /\ HeadersValid(f)
    BY DEF WellFormed
  <2> QED BY <2>1, Offsets
<1> HIDE DEF T
<1>5. \A a \in Nat : (\A i \in 1 .. 4 : g[a + i] = 0) => read_u32(g, a) = 0
  <2>1. TAKE a \in Nat
  <2>2. HAVE \A i \in 1 .. 4 : g[a + i] = 0
  <2>3. g[a+1] = 0 /\ g[a+2] = 0 /\ g[a+3] = 0 /\ g[a+4] = 0
    BY <2>2
  <2> QED BY <2>3, BaseAssumption DEF read_u32
<1>6. read_u32(g, T) = 0 \/ read_u32(g, T + 4) = 0
  <2>1. T + 4 \in Nat
    BY <1>4
  <2>2. (\A i \in 1 .. 4 : g[T + i] = 0) \/ (\A i \in 1 .. 4 : g[T + 4 + i] = 0)
    BY DEF T
  <2>3. (\A i \in 1 .. 4 : g[T + i] = 0) => read_u32(g, T) = 0
    BY <1>4, <1>5, Zenon
  <2>4. (\A i \in 1 .. 4 : g[T + 4 + i] = 0) => read_u32(g, T + 4) = 0
    BY <1>5, <2>1, Zenon
  <2> QED BY <2>2, <2>3, <2>4, Zenon
<1> QED BY <1>2, <1>3, <1>6

\* A file that has the image's data and the image's entry is not seen as signed
\* either: the table the entry speaks of is gone.
LEMMA OldEntry ==
    ASSUME NEW f, WellFormed(f), Len(f) < Word,
           NEW g \in Seq(Byte), Len(g) = data_end(parse_pe(f)),
           Keeps(g, f, data_end(parse_pe(f))),
           \A i \in 1 .. 8 : g[cert_table_offset(f) + i] = f[cert_table_offset(f) + i]
    PROVE  parse_pe(g).ok /\ parse_pe(g).sigpos = 0
<1> DEFINE n == data_end(parse_pe(f))
           T == cert_table_offset(f)
           p == read_u32(f, cert_table_offset(f))
           l == read_u32(f, cert_table_offset(f) + 4)
<1>1. /\ f \in Seq(Byte) /\ HeadersValid(f) /\ n \in Nat /\ n <= Len(f)
  BY DataEnd
<1>2. Len(g) = n /\ Len(g) < Word
  BY <1>1, WordType
<1>3. HeadersValid(g) /\ cert_table_offset(g) = T /\ filesize(g) = n
  BY <1>1, <1>2, KeptImage, SMTT(30)
<1>4. T \in Nat /\ T + 8 <= Len(f)
  <2>1. T \in Nat /\ T + 8 <= header_size(f) + HEADERS
        /\ header_size(f) + HEADERS <= Len(f)
        /\ header_size(f) + HEADERS \in Nat
    BY <1>1, Offsets
  <2> QED BY <2>1, SMTT(30)
<1>5. read_u32(g, T) = p /\ read_u32(g, T + 4) = l
  <2>1. \A i \in 1 .. 8 : g[T + i] = f[T + i]
    OBVIOUS
  <2> HIDE DEF T
  <2>2. /\ g[T+1] = f[T+1] /\ g[T+2] = f[T+2] /\ g[T+3] = f[T+3] /\ g[T+4] = f[T+4]
        /\ g[T+4+1] = f[T+4+1] /\ g[T+4+2] = f[T+4+2]
        /\ g[T+4+3] = f[T+4+3] /\ g[T+4+4] = f[T+4+4]
    BY <1>4, <2>1
  <2> QED BY <2>2 DEF read_u32, T
<1>6. p \in Nat /\ l \in Nat
  <2>1. T + 4 \in Nat /\ T + 4 <= Len(f) /\ T + 4 + 4 <= Len(f)
    <3>1. Len(f) \in Nat
      BY <1>1
    <3> HIDE DEF T
    <3> QED BY <1>4, <3>1
  <2>2. read_u32(f, T) \in U32s /\ read_u32(f, T + 4) \in U32s
    <3> HIDE DEF T
    <3> QED BY <1>1, <1>4, <2>1, ReadType
  <2> QED BY <2>2, WordType DEF U32s
<1>7. filesize(f) = Len(f)
  <2>1. Len(f) \in Nat /\ Word \in Nat
    BY <1>1, WordType
  <2> QED BY <2>1, ModSmall DEF filesize
<1>8. Trailing(g) <=> p # 0 /\ l # 0 /\ p + l = n
  BY <1>3, <1>5, TrailingIsExact
<1>9. Trailing(f) <=> p # 0 /\ l # 0 /\ p + l = Len(f)
  BY <1>7, <1>1, TrailingIsExact
<1>10. n = IF Trailing(f) THEN p ELSE Len(f)
  <2>1. /\ parse_pe(f).sigpos = IF Trailing(f) THEN p ELSE 0
        /\ parse_pe(f).fileend = Len(f)
    BY <1>7, <1>1, ParsedFields
  <2> QED BY <1>6, <1>9, <2>1 DEF data_end
<1> HIDE DEF n, T, p, l
<1>11. ~Trailing(g)
  BY <1>1, <1>6, <1>8, <1>9, <1>10
<1> QED BY <1>3, <1>11, ParsedFields

----------------------------------------------------------------------------
(* The stripped file, read back *)

UnsignedFile(f, b) ==
    write_at(Zeroed(f, parse_pe(f)), parse_pe(f).checksum_offset, b)

LEMMA UnsignedShape ==
    ASSUME NEW f, WellFormed(f), Len(f) < Word, NEW b \in Seq(Byte), Len(b) = 4
    PROVE  LET n   == data_end(parse_pe(f))
               out == UnsignedFile(f, b)
           IN  /\ out \in Seq(Byte) /\ Len(out) = n /\ Keeps(out, f, n)
               /\ \A i \in 1 .. 4 : out[cert_table_offset(f) + i] = 0
<1> DEFINE n   == data_end(parse_pe(f))
           C   == checksum_offset(f)
           T   == cert_table_offset(f)
           z   == Zeroed(f, parse_pe(f))
           out == UnsignedFile(f, b)
<1>1. /\ f \in Seq(Byte) /\ HeadersValid(f) /\ n \in Nat
      /\ header_size(f) + HEADERS <= n
  BY DataEnd
<1>2. C \in Nat /\ T \in Nat /\ C + 4 <= T /\ T + 8 <= n
  <2> HIDE DEF n
  <2> QED BY <1>1, Offsets
<1>3. z \in Seq(Byte) /\ Len(z) = n /\ Keeps(z, f, n)
      /\ \A i \in 1 .. 8 : z[T + i] = 0
  BY ZeroedShape
<1>4. out = write_at(z, checksum_offset(f), b)
  BY <1>1, ParsedFields DEF UnsignedFile
<1> HIDE DEF n, z, out
<1>5. /\ out \in Seq(Byte) /\ Len(out) = Len(z) /\ Keeps(out, f, n)
      /\ \A i \in 1 .. Len(z) : i <= C \/ i > C + 4 => out[i] = z[i]
  <2>1. z \in Seq(Byte) /\ Keeps(z, f, n) /\ n <= Len(z)
        /\ checksum_offset(f) + 4 <= Len(z)
    BY <1>1, <1>2, <1>3
  <2> QED BY <1>1, <1>4, <2>1, ChecksumWrite
<1> HIDE DEF C, T
<1>6. ASSUME NEW i \in 1 .. 4 PROVE out[T + i] = 0
  <2>1. T + i \in 1 .. Len(z) /\ T + i > C + 4 /\ i \in 1 .. 8
    BY <1>2, <1>3
  <2> QED BY <1>3, <1>5, <2>1
<1>7. Len(out) = n
  BY <1>3, <1>5
<1> QED BY <1>5, <1>6, <1>7 DEF n, T, out

\* A file left by write_unsigned_pe_to parses, carries no signature, and hashes
\* to the digest of the signed image it was made from.
THEOREM StrippedFileGood ==
    ASSUME NEW f, WellFormed(f), Len(f) < Word, NEW b \in Seq(Byte), Len(b) = 4
    PROVE  LET out == UnsignedFile(f, b)
               info  == parse_pe(out)
           IN  /\ info.ok
               /\ info.sigpos = 0
               /\ authenticode_digest(out, info) = authenticode_digest(f, parse_pe(f))
<1> DEFINE n   == data_end(parse_pe(f))
           out == UnsignedFile(f, b)
<1>1. /\ out \in Seq(Byte) /\ Len(out) = n /\ Keeps(out, f, n)
      /\ \A i \in 1 .. 4 : out[cert_table_offset(f) + i] = 0
  BY UnsignedShape
<1>2. n <= Len(out) /\ Len(out) < Word
  <2>1. n \in Nat /\ n <= Len(f) /\ Len(f) \in Nat /\ Word \in Nat
    BY DataEnd, WordType
  <2> HIDE DEF n, out
  <2> QED BY <1>1, <2>1
<1>3. parse_pe(out).ok /\ parse_pe(out).sigpos = 0
  <2> HIDE DEF out
  <2> QED BY <1>1, <1>2, NoEntry
<1>4. authenticode_digest(out, parse_pe(out)) = authenticode_digest(f, parse_pe(f))
  <2> HIDE DEF out
  <2> QED BY <1>1, <1>3, KeptDigest
<1> QED BY <1>3, <1>4 DEF out

----------------------------------------------------------------------------
(* The outputs, signed again *)

\* Both fields are zero in what a table is appended to.
LEMMA PaddedFields ==
    ASSUME NEW f, WellFormed(f), Len(f) < Word
    PROVE  LET p == Padded(f, parse_pe(f))
           IN  /\ \A i \in 1 .. 4 : p[checksum_offset(f) + i] = 0
               /\ \A i \in 1 .. 8 : p[cert_table_offset(f) + i] = 0
<1> DEFINE n == data_end(parse_pe(f))
           C == checksum_offset(f)
           T == cert_table_offset(f)
           c == Copied(f, parse_pe(f))
           y == ZeroedChecksum(f, parse_pe(f))
           z == Zeroed(f, parse_pe(f))
           b == Zeros(PadLen(n))
           s == Zeros(4)
           t == Zeros(8)
           p == Padded(f, parse_pe(f))
<1>1. /\ f \in Seq(Byte) /\ HeadersValid(f) /\ n \in Nat
      /\ header_size(f) + HEADERS <= n
  BY DataEnd
<1>2. C \in Nat /\ T \in Nat /\ C + 4 <= T /\ T + 8 <= n
  <2> HIDE DEF n
  <2> QED BY <1>1, Offsets
<1>3. c \in Seq(Byte) /\ Len(c) = n /\ Keeps(c, f, n)
  BY CopiedShape
<1>4. y \in Seq(Byte) /\ Len(y) = n /\ Keeps(y, f, n)
  BY ZeroedChecksumShape
<1>5. z \in Seq(Byte) /\ Len(z) = n /\ \A i \in 1 .. 8 : z[T + i] = 0
  BY ZeroedShape
<1>6. y = write_at(c, C, s) /\ z = write_at(y, T, t)
  BY <1>1, ParsedFields DEF ZeroedChecksum, Zeroed
<1>7. /\ s \in Seq(Byte) /\ Len(s) = 4 /\ \A i \in 1 .. 4 : s[i] = 0
      /\ t \in Seq(Byte) /\ Len(t) = 8
  BY ZerosType
<1>8. p = z \o b
  BY <1>5 DEF Padded
<1>9. b \in Seq(Byte)
  <2>1. PadLen(n) \in Nat
    BY <1>1, PadLenNat
  <2> QED BY <2>1, ZerosType
<1> HIDE DEF n, C, T, c, y, z, b, s, t, p
<1>10. \A i \in 1 .. 4 : y[C + i] = 0
  <2>1. C + Len(s) <= Len(c)
    BY <1>1, <1>2, <1>3, <1>7
  <2>2. \A i \in 1 .. Len(s) : y[C + i] = s[i]
    BY <1>2, <1>3, <1>6, <1>7, <2>1, WriteAtWithin, ZenonT(40)
  <2> QED BY <1>7, <2>2
<1>11. \A i \in 1 .. 4 : z[C + i] = 0
  <2>1. T + Len(t) <= Len(y)
    BY <1>1, <1>2, <1>4, <1>7
  <2>2. \A i \in 1 .. Len(y) : i <= T \/ i > T + Len(t) => z[i] = y[i]
    <3>1. T \in Nat /\ y \in Seq(Byte) /\ t \in Seq(Byte) /\ z = write_at(y, T, t)
      BY <1>2, <1>4, <1>6, <1>7
    <3> QED BY <2>1, <3>1, WriteAtWithin, Zenon
  <2>3. \A i \in 1 .. 4 : C + i \in 1 .. Len(y) /\ C + i <= T
    BY <1>1, <1>2, <1>4
  <2> QED BY <1>10, <2>2, <2>3
<1>12. \A i \in 1 .. n : p[i] = z[i]
  <2>1. \A i \in 1 .. Len(z) : (z \o b)[i] = z[i]
    BY <1>5, <1>9
  <2> QED BY <1>5, <1>8, <2>1
<1>13. /\ \A i \in 1 .. 4 : C + i \in 1 .. n
       /\ \A i \in 1 .. 8 : T + i \in 1 .. n
  BY <1>1, <1>2
<1>14. \A i \in 1 .. 4 : p[C + i] = 0
  BY <1>11, <1>12, <1>13
<1>15. \A i \in 1 .. 8 : p[T + i] = 0
  BY <1>5, <1>12, <1>13
<1> QED BY <1>14, <1>15 DEF p, C, T

\* Two images that differ in the two fields and in zeros at the end alone are
\* brought to the same bytes.
LEMMA SamePadded ==
    ASSUME NEW f, WellFormed(f), Len(f) < Word,
           NEW g, WellFormed(g), Len(g) < Word,
           checksum_offset(g) = checksum_offset(f),
           cert_table_offset(g) = cert_table_offset(f),
           NEW n, n = data_end(parse_pe(f)),
           NEW m, m = data_end(parse_pe(g)),
           n <= m, Keeps(g, f, n), \A i \in n + 1 .. m : g[i] = 0,
           m + PadLen(m) = n + PadLen(n)
    PROVE  Padded(g, parse_pe(g)) = Padded(f, parse_pe(f))
<1> DEFINE N == n + PadLen(n)
           C == checksum_offset(f)
           T == cert_table_offset(f)
           p == Padded(f, parse_pe(f))
           q == Padded(g, parse_pe(g))
<1>1. n \in Nat /\ m \in Nat /\ PadLen(n) \in Nat /\ PadLen(m) \in Nat
  <2>1. n \in Nat /\ m \in Nat
    BY DataEnd
  <2> QED BY <2>1, PadLenNat
<1>2. /\ p \in Seq(Byte) /\ Len(p) = N /\ Keeps(p, f, n)
      /\ \A i \in n + 1 .. N : p[i] = 0
  BY PaddedShape
<1>3. /\ q \in Seq(Byte) /\ Len(q) = N /\ Keeps(q, g, m)
      /\ \A i \in m + 1 .. N : q[i] = 0
  <2>1. /\ q \in Seq(Byte) /\ Len(q) = m + PadLen(m) /\ Keeps(q, g, m)
        /\ \A i \in m + 1 .. m + PadLen(m) : q[i] = 0
    BY PaddedShape
  <2> QED BY <2>1
<1>4. /\ \A i \in 1 .. 4 : p[C + i] = 0 /\ q[C + i] = 0
      /\ \A i \in 1 .. 8 : p[T + i] = 0 /\ q[T + i] = 0
  BY PaddedFields
<1>5. C \in Nat /\ T \in Nat
  <2>1. f \in Seq(Byte) /\ HeadersValid(f)
    BY DEF WellFormed
  <2> QED BY <2>1, Offsets
<1>6. \A i \in 1 .. m : (i <= C \/ i > C + 4) /\ (i <= T \/ i > T + 8) => q[i] = g[i]
  BY <1>3 DEF Keeps
<1>7. \A i \in 1 .. n : (i <= C \/ i > C + 4) /\ (i <= T \/ i > T + 8)
          => g[i] = f[i] /\ p[i] = f[i]
  BY <1>2 DEF Keeps
<1>8. N \in Nat /\ n <= N /\ m <= N
  BY <1>1
<1> HIDE DEF N, C, T, p, q
<1>9. ASSUME NEW i \in 1 .. N PROVE p[i] = q[i]
  <2>1. CASE i > C /\ i <= C + 4
    <3>1. i - C \in 1 .. 4 /\ C + (i - C) = i
      BY <1>5, <1>8, <2>1
    <3> QED BY <1>4, <3>1
  <2>2. CASE i > T /\ i <= T + 8
    <3>1. i - T \in 1 .. 8 /\ T + (i - T) = i
      BY <1>5, <1>8, <2>2
    <3> QED BY <1>4, <3>1
  <2>3. CASE (i <= C \/ i > C + 4) /\ (i <= T \/ i > T + 8)
    <3>1. CASE i <= n
      <4>1. i \in 1 .. n /\ i \in 1 .. m
        BY <1>1, <1>8, <3>1
      <4> QED BY <1>6, <1>7, <2>3, <4>1
    <3>2. CASE i > n /\ i <= m
      <4>1. i \in 1 .. m /\ i \in n + 1 .. m /\ i \in n + 1 .. N
        BY <1>1, <1>8, <3>2
      <4> QED BY <1>2, <1>6, <2>3, <4>1
    <3>3. CASE i > m
      <4>1. i \in m + 1 .. N /\ i \in n + 1 .. N
        BY <1>1, <1>8, <3>3
      <4> QED BY <1>2, <1>3, <4>1
    <3> QED BY <1>1, <1>8, <3>1, <3>2, <3>3
  <2> QED BY <1>5, <1>8, <2>1, <2>2, <2>3
<1>10. p = q
  BY <1>2, <1>3, <1>8, <1>9, SeqEqual
<1> QED BY <1>10 DEF p, q

\* ... and signed to the same file.
LEMMA SignedAlike ==
    ASSUME NEW f \in Seq(Byte), HeadersValid(f), NEW g \in Seq(Byte), HeadersValid(g),
           checksum_offset(g) = checksum_offset(f),
           cert_table_offset(g) = cert_table_offset(f),
           Padded(g, parse_pe(g)) = Padded(f, parse_pe(f)),
           NEW d
    PROVE  write_signed_pe_to(g, parse_pe(g), d) = write_signed_pe_to(f, parse_pe(f), d)
<1>1. /\ parse_pe(g).checksum_offset = parse_pe(f).checksum_offset
      /\ parse_pe(g).cert_table_offset = parse_pe(f).cert_table_offset
  BY ParsedFields
<1>2. Directed(g, parse_pe(g), d) = Directed(f, parse_pe(f), d)
  BY <1>1 DEF Directed, Certified, DirEntry
<1> QED BY <1>1, <1>2 DEF write_signed_pe_to, WithChecksum

\* What write_signed_pe_to leaves is an image again, whose data is that of the
\* image it was made from, padded.
LEMMA SignedImage ==
    ASSUME NEW f, WellFormed(f), NEW sig \in Seq(Byte), Fits(f, sig),
           NEW b \in Seq(Byte), Len(b) = 4
    PROVE  LET n   == data_end(parse_pe(f))
               out == SignedFile(f, sig, b)
           IN  /\ WellFormed(out) /\ Len(out) < Word
               /\ checksum_offset(out) = checksum_offset(f)
               /\ cert_table_offset(out) = cert_table_offset(f)
               /\ data_end(parse_pe(out)) = n + PadLen(n)
               /\ Keeps(out, f, n)
               /\ \A i \in n + 1 .. n + PadLen(n) : out[i] = 0
<1> DEFINE n   == data_end(parse_pe(f))
           N   == n + PadLen(n)
           L   == CertLen(sig)
           out == SignedFile(f, sig, b)
<1>1. Len(f) < Word /\ N + L < Word
  BY Sizes
<1>2. /\ f \in Seq(Byte) /\ HeadersValid(f) /\ n \in Nat
      /\ header_size(f) + HEADERS <= n
  BY <1>1, DataEnd
<1>3. PadLen(n) \in Nat /\ L \in Nat
  BY <1>2, PadLenNat, CertLenType
<1>4. /\ out \in Seq(Byte) /\ Len(out) = N + L /\ Keeps(out, f, n)
      /\ \A i \in n + 1 .. N : out[i] = 0
  <2>1. parse_pe(f).checksum_offset = checksum_offset(f)
    BY <1>2, ParsedFields
  <2> QED BY <2>1, SignedShape DEF SignedFile
<1>5. n <= Len(out) /\ Len(out) < Word
  <2> HIDE DEF n, L, out
  <2> QED BY <1>1, <1>2, <1>3, <1>4
<1>6. /\ HeadersValid(out)
      /\ checksum_offset(out) = checksum_offset(f)
      /\ cert_table_offset(out) = cert_table_offset(f)
      /\ header_size(out) = header_size(f)
  <2> HIDE DEF out
  <2> QED BY <1>1, <1>4, <1>5, KeptImage
<1>7. parse_pe(out).sigpos = N /\ N > 0 /\ data_end(parse_pe(out)) = N
  BY SignedParse DEF data_end
<1>8. N >= header_size(out) + HEADERS
  <2>1. header_size(f) + HEADERS \in Nat
    BY <1>2, Offsets
  <2> HIDE DEF n, out
  <2> QED BY <1>2, <1>3, <1>6, <2>1
<1>9. WellFormed(out)
  <2> HIDE DEF N, out
  <2> QED BY <1>4, <1>6, <1>7, <1>8 DEF WellFormed
<1> QED BY <1>4, <1>5, <1>6, <1>7, <1>9 DEF n, N, out

\* Signing a signed image again gives the file that signing the image it was
\* made from gives, byte for byte: the old signature leaves nothing behind.
THEOREM ResignedFileSame ==
    ASSUME NEW f, WellFormed(f), NEW sig \in Seq(Byte), Fits(f, sig),
           NEW b \in Seq(Byte), Len(b) = 4, NEW d
    PROVE  LET out == SignedFile(f, sig, b)
           IN  write_signed_pe_to(out, parse_pe(out), d)
                   = write_signed_pe_to(f, parse_pe(f), d)
<1> DEFINE n   == data_end(parse_pe(f))
           N   == n + PadLen(n)
           out == SignedFile(f, sig, b)
<1>1. /\ WellFormed(out) /\ Len(out) < Word
      /\ checksum_offset(out) = checksum_offset(f)
      /\ cert_table_offset(out) = cert_table_offset(f)
      /\ data_end(parse_pe(out)) = N
      /\ Keeps(out, f, n)
      /\ \A i \in n + 1 .. N : out[i] = 0
  BY SignedImage
<1>2. Len(f) < Word
  BY Sizes
<1>3. n <= N /\ N + PadLen(N) = N
  <2>1. n \in Nat
    BY <1>2, DataEnd
  <2>2. \A m \in Nat : PadLen(m) \in Nat /\ PadLen(m + PadLen(m)) = 0
    BY PadLenType
  <2> HIDE DEF n
  <2>3. PadLen(n) \in Nat /\ PadLen(N) = 0
    BY <2>1, <2>2
  <2>4. N \in Nat /\ n <= N
    BY <2>1, <2>3
  <2> HIDE DEF N
  <2> QED BY <2>3, <2>4
<1>4. Padded(out, parse_pe(out)) = Padded(f, parse_pe(f))
  <2> HIDE DEF out
  <2> QED BY <1>1, <1>2, <1>3, SamePadded
<1>5. f \in Seq(Byte) /\ HeadersValid(f) /\ out \in Seq(Byte) /\ HeadersValid(out)
  BY <1>1 DEF WellFormed
<1> HIDE DEF out
<1>6. write_signed_pe_to(out, parse_pe(out), d) = write_signed_pe_to(f, parse_pe(f), d)
  BY <1>1, <1>4, <1>5, SignedAlike
<1> QED BY <1>6 DEF out

\* ... and so does signing what is left of it when its signature is removed.
THEOREM StrippedFileSame ==
    ASSUME NEW f, WellFormed(f), Len(f) < Word, NEW b \in Seq(Byte), Len(b) = 4, NEW d
    PROVE  LET out == UnsignedFile(f, b)
           IN  write_signed_pe_to(out, parse_pe(out), d)
                   = write_signed_pe_to(f, parse_pe(f), d)
<1> DEFINE n   == data_end(parse_pe(f))
           out == UnsignedFile(f, b)
<1>1. out \in Seq(Byte) /\ Len(out) = n /\ Keeps(out, f, n)
  BY UnsignedShape
<1>2. n \in Nat /\ n <= Len(out) /\ Len(out) < Word
  <2>1. n \in Nat /\ n <= Len(f) /\ Len(f) \in Nat /\ Word \in Nat
    BY DataEnd, WordType
  <2> HIDE DEF n, out
  <2> QED BY <1>1, <2>1
<1>3. parse_pe(out).sigpos = 0
  BY StrippedFileGood
<1> HIDE DEF out
<1>4. /\ HeadersValid(out)
      /\ checksum_offset(out) = checksum_offset(f)
      /\ cert_table_offset(out) = cert_table_offset(f)
      /\ filesize(out) = Len(out)
  BY <1>1, <1>2, KeptImage
<1>5. WellFormed(out) /\ data_end(parse_pe(out)) = n
  BY <1>1, <1>3, <1>4, ParsedFields DEF WellFormed, data_end
<1>6. Padded(out, parse_pe(out)) = Padded(f, parse_pe(f))
  <2>1. \A i \in n + 1 .. n : out[i] = 0
    <3> HIDE DEF n
    <3> QED BY <1>2
  <2> QED BY <1>1, <1>2, <1>4, <1>5, <2>1, SamePadded
<1>7. f \in Seq(Byte) /\ HeadersValid(f)
  BY DEF WellFormed
<1>8. write_signed_pe_to(out, parse_pe(out), d) = write_signed_pe_to(f, parse_pe(f), d)
  BY <1>1, <1>4, <1>6, <1>7, SignedAlike
<1> QED BY <1>8 DEF out

----------------------------------------------------------------------------
(* Writes that are cut short *)

\* What was copied, with part of the checksum overwritten, is not seen as signed.
LEMMA ChecksumCutShort ==
    ASSUME NEW f, WellFormed(f), Len(f) < Word, NEW s \in Seq(Byte), Len(s) <= 4
    PROVE  LET g == write_at(Copied(f, parse_pe(f)), checksum_offset(f), s)
           IN  /\ parse_pe(g).ok
               /\ parse_pe(g).sigpos = 0
               /\ g \in Seq(Byte) /\ Len(g) = data_end(parse_pe(f))
               /\ Keeps(g, f, data_end(parse_pe(f)))
<1> DEFINE n == data_end(parse_pe(f))
           C == checksum_offset(f)
           T == cert_table_offset(f)
           c == Copied(f, parse_pe(f))
           g == write_at(c, C, s)
<1>1. /\ f \in Seq(Byte) /\ HeadersValid(f) /\ n \in Nat /\ n <= Len(f)
      /\ header_size(f) + HEADERS <= n
  BY DataEnd
<1>2. C \in Nat /\ T \in Nat /\ C + 4 <= T /\ T + 8 <= n
  <2> HIDE DEF n
  <2> QED BY <1>1, Offsets
<1>3. c \in Seq(Byte) /\ Len(c) = n /\ c = Bytes(f, 0, n)
  BY CopiedShape DEF Copied
<1> HIDE DEF n, c
<1>4. \A i \in 1 .. n : c[i] = f[i]
  <2>1. 0 \in Nat /\ 0 <= n /\ n - 0 = n
    BY <1>1
  <2>2. \A i \in 1 .. n - 0 : Bytes(f, 0, n)[i] = f[0 + i]
    BY <1>1, <2>1, BytesWithin, Zenon
  <2> QED BY <1>1, <1>3, <2>1, <2>2
<1> HIDE DEF C, T
<1>5. C + Len(s) <= Len(c)
  BY <1>1, <1>2, <1>3
<1>6. /\ g \in Seq(Byte) /\ Len(g) = Len(c)
      /\ \A i \in 1 .. Len(c) : i <= C \/ i > C + Len(s) => g[i] = c[i]
  BY <1>2, <1>3, <1>5, WriteAtWithin, Zenon
<1> HIDE DEF g
<1>7. \A i \in 1 .. n : i <= C \/ i > C + 4 => g[i] = f[i]
  BY <1>2, <1>3, <1>4, <1>6
<1>8. Keeps(g, f, n)
  BY <1>7 DEF Keeps, C
<1>9. \A i \in 1 .. 8 : g[T + i] = f[T + i]
  <2>1. \A i \in 1 .. 8 : T + i \in 1 .. n /\ T + i > C + 4
    BY <1>1, <1>2
  <2> QED BY <1>7, <2>1
<1>10. parse_pe(g).ok /\ parse_pe(g).sigpos = 0
  BY <1>3, <1>6, <1>8, <1>9, OldEntry DEF n, T
<1> QED BY <1>3, <1>6, <1>8, <1>10 DEF n, C, g, c

\* Nor is it once the first four bytes of the entry are cleared.
LEMMA EntryCleared ==
    ASSUME NEW f, WellFormed(f), Len(f) < Word, NEW s \in Seq(Byte),
           4 <= Len(s), Len(s) <= 8, \A i \in 1 .. Len(s) : s[i] = 0
    PROVE  LET g == write_at(ZeroedChecksum(f, parse_pe(f)), cert_table_offset(f), s)
           IN  parse_pe(g).ok /\ parse_pe(g).sigpos = 0
<1> DEFINE n == data_end(parse_pe(f))
           T == cert_table_offset(f)
           y == ZeroedChecksum(f, parse_pe(f))
           g == write_at(y, T, s)
<1>1. /\ f \in Seq(Byte) /\ HeadersValid(f) /\ n \in Nat /\ n <= Len(f)
      /\ header_size(f) + HEADERS <= n
  BY DataEnd
<1>2. T \in Nat /\ T + 8 <= n
  <2>1. header_size(f) + HEADERS \in Nat
    BY <1>1, Offsets
  <2> HIDE DEF n
  <2> QED BY <1>1, <2>1, Offsets
<1>3. y \in Seq(Byte) /\ Len(y) = n /\ Keeps(y, f, n)
  BY ZeroedChecksumShape
<1> HIDE DEF n, T, y
<1>4. T + Len(s) <= Len(y)
  BY <1>1, <1>2, <1>3
<1>5. /\ g \in Seq(Byte) /\ Len(g) = Len(y)
      /\ \A i \in 1 .. Len(s) : g[T + i] = s[i]
      /\ \A i \in 1 .. Len(y) : i <= T \/ i > T + Len(s) => g[i] = y[i]
  BY <1>2, <1>3, <1>4, WriteAtWithin, Zenon
<1> HIDE DEF g
<1>6. Keeps(g, f, n)
  <2>1. \A i \in 1 .. n : i <= T \/ i > T + 8 => g[i] = y[i]
    BY <1>2, <1>3, <1>5
  <2> QED BY <1>3, <2>1 DEF Keeps, T
<1>7. \A i \in 1 .. 4 : g[T + i] = 0
  <2>1. \A i \in 1 .. 4 : i \in 1 .. Len(s)
    OBVIOUS
  <2> QED BY <1>5, <2>1
<1>8. n <= Len(g) /\ Len(g) < Word
  BY <1>1, <1>3, <1>5, WordType
<1>9. parse_pe(g).ok /\ parse_pe(g).sigpos = 0
  BY <1>5, <1>6, <1>7, <1>8, NoEntry DEF n, T
<1> QED BY <1>9 DEF g, y, T

\* Nor while the padding and the new table are appended.
LEMMA Unfinished ==
    ASSUME NEW f, WellFormed(f), Len(f) < Word, NEW t \in Seq(Byte),
           data_end(parse_pe(f)) + Len(t) < Word
    PROVE  LET g == Zeroed(f, parse_pe(f)) \o t
           IN  parse_pe(g).ok /\ parse_pe(g).sigpos = 0
<1> DEFINE n == data_end(parse_pe(f))
           T == cert_table_offset(f)
           z == Zeroed(f, parse_pe(f))
           g == z \o t
<1>1. /\ f \in Seq(Byte) /\ HeadersValid(f) /\ n \in Nat
      /\ header_size(f) + HEADERS <= n
  BY DataEnd
<1>2. T \in Nat /\ T + 8 <= n
  <2>1. header_size(f) + HEADERS \in Nat
    BY <1>1, Offsets
  <2> HIDE DEF n
  <2> QED BY <1>1, <2>1, Offsets
<1>3. z \in Seq(Byte) /\ Len(z) = n /\ Keeps(z, f, n)
      /\ \A i \in 1 .. 8 : z[T + i] = 0
  BY ZeroedShape
<1>4. n + Len(t) < Word
  OBVIOUS
<1> HIDE DEF n, T, z
<1>5. /\ g \in Seq(Byte) /\ Len(g) = Len(z) + Len(t)
      /\ \A i \in 1 .. Len(z) : g[i] = z[i]
  BY <1>3, SMTT(30)
<1> HIDE DEF g
<1>6. Keeps(g, f, n)
  BY <1>3, <1>5 DEF Keeps
<1>7. \A i \in 1 .. 4 : g[T + i] = 0
  <2>1. \A i \in 1 .. 4 : i \in 1 .. 8 /\ T + i \in 1 .. Len(z)
    BY <1>1, <1>2, <1>3
  <2> QED BY <1>3, <1>5, <2>1
<1>8. n <= Len(g) /\ Len(g) < Word
  BY <1>1, <1>3, <1>4, <1>5
<1>9. parse_pe(g).ok /\ parse_pe(g).sigpos = 0
  BY <1>5, <1>6, <1>7, <1>8, NoEntry DEF n, T
<1> QED BY <1>9 DEF g, z

\* The new entry counts only when all of it is there that is not zero: a file
\* whose last bytes of the entry are missing and that is seen as signed is the
\* signed file.
LEMMA EntryWritten ==
    ASSUME NEW f, WellFormed(f), NEW sig \in Seq(Byte), Fits(f, sig),
           NEW s \in Seq(Byte), Len(s) <= 8,
           \A i \in 1 .. Len(s) : s[i] = DirEntry(f, parse_pe(f), sig)[i]
    PROVE  LET g == write_at(Certified(f, parse_pe(f), sig), cert_table_offset(f), s)
           IN  /\ parse_pe(g).ok
               /\ parse_pe(g).sigpos > 0 => g = Directed(f, parse_pe(f), sig)
<1> DEFINE n == data_end(parse_pe(f))
           N == n + PadLen(n)
           L == CertLen(sig)
           T == cert_table_offset(f)
           p == Padded(f, parse_pe(f))
           w == WinCertificate(sig)
           e == Certified(f, parse_pe(f), sig)
           r == DirEntry(f, parse_pe(f), sig)
           a == Put32(N)
           b == Put32(L)
           d == Directed(f, parse_pe(f), sig)
           g == write_at(e, T, s)
<1>1. /\ Len(f) < Word /\ Word \in Nat
      /\ N \in U32s /\ L \in U32s /\ L \in Nat /\ N \in Nat /\ N + L < Word
  <2>1. L \in U32s /\ N \in U32s /\ Len(f) < Word /\ N + L < Word
    BY Sizes
  <2> HIDE DEF L, N
  <2> QED BY <2>1, WordType DEF U32s
<1>2. /\ f \in Seq(Byte) /\ HeadersValid(f) /\ n \in Nat
      /\ header_size(f) + HEADERS <= n
  BY <1>1, DataEnd
<1>3. n <= N
  <2>1. PadLen(n) \in Nat
    BY <1>2, PadLenNat
  <2> QED BY <1>2, <2>1
<1>4. T \in Nat /\ T + 8 <= n
  <2>1. header_size(f) + HEADERS \in Nat
    BY <1>2, Offsets
  <2> HIDE DEF n
  <2> QED BY <1>2, <2>1, Offsets
<1>5. e \in Seq(Byte) /\ Len(e) = N + L /\ Keeps(e, f, n)
  BY CertifiedShape
<1>6. p \in Seq(Byte) /\ Len(p) = N /\ \A i \in 1 .. 8 : p[T + i] = 0
  BY <1>1, PaddedShape, PaddedFields
<1>7. w \in Seq(Byte) /\ e = p \o w
  BY CertShape DEF Certified
<1>8. a \in Seq(Byte) /\ Len(a) = 4 /\ b \in Seq(Byte) /\ Len(b) = 4
  <2> HIDE DEF N, L
  <2> QED BY <1>1, Put32Type
<1>9. r = a \o b
  <2>1. N % Word = N
    <3>1. N < Word
      BY <1>1 DEF U32s
    <3> HIDE DEF N
    <3> QED BY <1>1, <3>1, ModSmall
  <2> QED BY <1>6, <2>1 DEF DirEntry
<1>10. d = write_at(e, T, r)
  BY <1>2, ParsedFields DEF Directed
<1> DEFINE long == Len(s) > 4
<1> HIDE DEF n, N, L, p, w, e, r, a, b, d
<1>11. /\ r \in Seq(Byte) /\ Len(r) = 8
       /\ \A i \in 1 .. 4 : r[i] = a[i]
       /\ \A i \in 1 .. 4 : r[4 + i] = b[i]
  <2>1. a \in Seq(Byte) /\ b \in Seq(Byte)
    BY <1>8
  <2>2. /\ r \in Seq(Byte) /\ Len(r) = Len(a) + Len(b)
        /\ \A i \in 1 .. Len(a) : r[i] = a[i]
        /\ \A i \in 1 .. Len(b) : r[Len(a) + i] = b[i]
    BY <1>9, <2>1
  <2> QED BY <1>8, <2>2
<1> HIDE DEF T
<1>12. T + Len(s) <= Len(e) /\ T + Len(r) <= Len(e)
  BY <1>1, <1>2, <1>3, <1>4, <1>5, <1>11
<1>13. /\ g \in Seq(Byte) /\ Len(g) = Len(e)
       /\ \A i \in 1 .. Len(s) : g[T + i] = s[i]
       /\ \A i \in 1 .. Len(e) : i <= T \/ i > T + Len(s) => g[i] = e[i]
  BY <1>4, <1>5, <1>12, WriteAtWithin, Zenon
<1>14. /\ d \in Seq(Byte) /\ Len(d) = Len(e)
       /\ \A i \in 1 .. Len(r) : d[T + i] = r[i]
       /\ \A i \in 1 .. Len(e) : i <= T \/ i > T + Len(r) => d[i] = e[i]
  <2> DEFINE x == write_at(e, T, r)
  <2>1. e \in Seq(Byte) /\ T \in Nat /\ r \in Seq(Byte) /\ T + Len(r) <= Len(e)
    BY <1>4, <1>5, <1>11, <1>12
  <2>2. /\ x \in Seq(Byte) /\ Len(x) = Len(e)
        /\ \A i \in 1 .. Len(r) : x[T + i] = r[i]
        /\ \A i \in 1 .. Len(e) : i <= T \/ i > T + Len(r) => x[i] = e[i]
    BY <2>1, WriteAtWithin, Zenon
  <2> HIDE DEF x
  <2> QED BY <1>10, <2>2 DEF x
<1> HIDE DEF g
<1>15. \A i \in 1 .. 8 : e[T + i] = 0
  <2>1. \A i \in 1 .. Len(p) : e[i] = p[i]
    BY <1>6, <1>7
  <2>2. \A i \in 1 .. 8 : T + i \in 1 .. Len(p)
    BY <1>1, <1>2, <1>3, <1>4, <1>6
  <2> QED BY <1>6, <2>1, <2>2
<1>16. ASSUME NEW i \in 1 .. 8 PROVE g[T + i] = IF i <= Len(s) THEN r[i] ELSE 0
  <2>1. CASE i <= Len(s)
    <3>1. i \in 1 .. Len(s)
      BY <2>1
    <3> QED BY <1>13, <2>1, <3>1 DEF r
  <2>2. CASE i > Len(s)
    <3>1. T + i \in 1 .. Len(e) /\ T + i > T + Len(s)
      BY <1>1, <1>2, <1>3, <1>4, <1>5, <2>2
    <3> QED BY <1>13, <1>15, <2>2, <3>1, SMTT(30)
  <2> QED BY <2>1, <2>2
<1>17. Keeps(g, f, n)
  <2>1. \A i \in 1 .. n : i <= T \/ i > T + 8 => g[i] = e[i]
    BY <1>1, <1>2, <1>3, <1>4, <1>5, <1>13
  <2> QED BY <1>5, <2>1 DEF Keeps, T
<1>18. n <= Len(g) /\ Len(g) < Word
  BY <1>1, <1>2, <1>3, <1>5, <1>13
<1>19. HeadersValid(g) /\ cert_table_offset(g) = T /\ filesize(g) = N + L
  BY <1>1, <1>5, <1>13, <1>17, <1>18, KeptImage DEF n, T
<1>20. CASE Len(s) <= 4
  <2>1. \A i \in 1 .. 4 : g[T + 4 + i] = 0
    <3>1. \A i \in 1 .. 4 : 4 + i \in 1 .. 8 /\ ~(4 + i <= Len(s))
                             /\ T + 4 + i = T + (4 + i)
      BY <1>4, <1>20
    <3> QED BY <1>16, <3>1
  <2>2. parse_pe(g).ok /\ parse_pe(g).sigpos = 0
    BY <1>1, <1>13, <1>17, <1>18, <2>1, NoEntry DEF n, T
  <2> QED BY <2>2 DEF g, e, T
<1>21. CASE Len(s) > 4
  <2>1. parse_pe(g).ok /\ parse_pe(g).sigpos = IF Trailing(g) THEN read_u32(g, T) ELSE 0
    BY <1>13, <1>19, ParsedFields
  <2>2. SUFFICES ASSUME Trailing(g) PROVE g = d
    BY <2>1 DEF g, d, e, T
  <2>3. read_u32(g, T) = N
    <3>1. \A i \in 1 .. 4 : i \in 1 .. 8 /\ i <= Len(s)
      BY <1>21
    <3>2. \A i \in 1 .. 4 : g[T + i] = a[i]
      BY <1>11, <1>16, <3>1
    <3>3. g[T+1] = a[1] /\ g[T+2] = a[2] /\ g[T+3] = a[3] /\ g[T+4] = a[4]
      BY <3>2
    <3> QED BY <1>1, <1>4, <3>3, RoundTrip32 DEF a
  <2>4. read_u32(g, T) + read_u32(g, T + 4) = N + L
    BY <1>13, <1>19, <2>2, TrailingIsExact
  <2>5. T + 4 \in Nat /\ T + 4 + 4 <= Len(g)
    BY <1>2, <1>4, <1>18
  <2>6. read_u32(g, T + 4) = L
    <3>1. read_u32(g, T + 4) \in Nat
      BY <1>13, <2>5, ReadType, WordType DEF U32s
    <3> QED BY <1>1, <2>3, <2>4, <3>1
  <2>7. \A i \in 1 .. 4 : g[T + 4 + i] = b[i]
    BY <1>13, <2>5, <2>6, Digits32 DEF b
  <2>8. ASSUME NEW i \in 1 .. 8 PROVE g[T + i] = r[i]
    <3>1. CASE i <= 4
      BY <1>16, <1>21, <3>1
    <3>2. CASE i > 4
      <4>1. i - 4 \in 1 .. 4 /\ T + 4 + (i - 4) = T + i /\ 4 + (i - 4) = i
        BY <1>4, <3>2
      <4> QED BY <1>11, <2>7, <4>1
    <3> QED BY <3>1, <3>2
  <2>9. ASSUME NEW i \in 1 .. Len(g) PROVE g[i] = d[i]
    <3>1. CASE i <= T \/ i > T + 8
      <4>1. Len(s) <= 8 /\ Len(r) = 8 /\ i \in Nat /\ T \in Nat
        BY <1>4, <1>11
      <4>2. (i <= T \/ i > T + Len(s)) /\ (i <= T \/ i > T + Len(r))
        BY <3>1, <4>1
      <4>3. i \in 1 .. Len(e)
        BY <1>13
      <4>4. g[i] = e[i] /\ d[i] = e[i]
        BY <1>13, <1>14, <4>2, <4>3, Zenon
      <4> QED BY <4>4
    <3>2. CASE i > T /\ i <= T + 8
      <4>1. i - T \in 1 .. 8 /\ T + (i - T) = i
        BY <1>4, <1>13, <3>2
      <4>2. i - T \in 1 .. Len(r)
        BY <1>11, <4>1
      <4>3. g[T + (i - T)] = r[i - T] /\ d[T + (i - T)] = r[i - T]
        BY <1>14, <2>8, <4>1, <4>2
      <4> QED BY <4>1, <4>3
    <3> QED BY <1>4, <1>13, <3>1, <3>2
  <2> QED BY <1>13, <1>14, <2>9, SeqEqual
<1> QED BY <1>20, <1>21

\* The last write: whatever it leaves in the checksum field, the file is one
\* that SignedFileGood or StrippedFileGood speaks of.
LEMMA SumCutShort ==
    ASSUME NEW f, WellFormed(f), Len(f) < Word, NEW sig \in Seq(Byte),
           NEW s \in Seq(Byte), Len(s) <= 4
    PROVE  /\ \E b \in Seq(Byte) :
                  /\ Len(b) = 4
                  /\ write_at(Directed(f, parse_pe(f), sig), checksum_offset(f), s)
                         = SignedFile(f, sig, b)
           /\ \E b \in Seq(Byte) :
                  /\ Len(b) = 4
                  /\ write_at(Zeroed(f, parse_pe(f)), checksum_offset(f), s)
                         = UnsignedFile(f, b)
<1> DEFINE n == data_end(parse_pe(f))
           C == checksum_offset(f)
           T == cert_table_offset(f)
           z == Zeroed(f, parse_pe(f))
           e == Certified(f, parse_pe(f), sig)
           r == DirEntry(f, parse_pe(f), sig)
           d == Directed(f, parse_pe(f), sig)
<1>1. /\ f \in Seq(Byte) /\ HeadersValid(f) /\ n \in Nat
      /\ header_size(f) + HEADERS <= n
  BY DataEnd
<1>2. C \in Nat /\ T \in Nat /\ C + 4 <= T /\ T + 8 <= n
  <2> HIDE DEF n
  <2> QED BY <1>1, Offsets
<1>3. parse_pe(f).checksum_offset = C /\ parse_pe(f).cert_table_offset = T
  BY <1>1, ParsedFields
<1>4. z \in Seq(Byte) /\ Len(z) = n
  BY ZeroedShape
<1>5. e \in Seq(Byte)
  <2>1. Padded(f, parse_pe(f)) \in Seq(Byte) /\ WinCertificate(sig) \in Seq(Byte)
    BY PaddedShape, CertShape
  <2> QED BY <2>1 DEF Certified
<1>6. r \in Seq(Byte) /\ Len(r) = 8
  <2>1. Len(Padded(f, parse_pe(f))) % Word \in Nat
    <3>1. Len(Padded(f, parse_pe(f))) \in Nat /\ Word \in Nat \ {0}
      BY PaddedShape, WordType
    <3> QED BY <3>1, DivMod
  <2>2. CertLen(sig) \in Nat
    BY CertLenType
  <2>3. \A p, q \in Nat : Put32(p) \o Put32(q) \in Seq(Byte)
                           /\ Len(Put32(p) \o Put32(q)) = 8
    <3>1. TAKE p, q \in Nat
    <3> DEFINE x == Put32(p)
               y == Put32(q)
    <3>2. x \in Seq(Byte) /\ Len(x) = 4 /\ y \in Seq(Byte) /\ Len(y) = 4
      BY Put32Type
    <3> HIDE DEF x, y
    <3>3. x \o y \in Seq(Byte) /\ Len(x \o y) = Len(x) + Len(y)
      BY <3>2, ConcatType
    <3>4. x \o y \in Seq(Byte) /\ Len(x \o y) = 8
      BY <3>2, <3>3
    <3> QED BY <3>4 DEF x, y
  <2> QED BY <2>1, <2>2, <2>3 DEF DirEntry
<1>7. d = write_at(e, T, r)
  BY <1>3 DEF Directed
<1> HIDE DEF n, C, T, z, e, r, d
<1>8. d \in Seq(Byte) /\ Len(d) >= T + 8
  <2>1. r # << >>
    <3>1. r \in Seq(Byte) /\ Len(r) > 0
      BY <1>6
    <3> QED BY <3>1, NotEmpty, Zenon
  <2> QED BY <1>2, <1>5, <1>6, <1>7, <2>1, WriteAtType, WriteAtGrows
<1>9. C + 4 <= Len(d) /\ C + 4 <= Len(z)
  BY <1>1, <1>2, <1>4, <1>8
<1>10. \E b \in Seq(Byte) : Len(b) = 4 /\ write_at(d, C, s) = write_at(d, C, b)
  BY <1>2, <1>8, <1>9, ShortWrite
<1>11. \E b \in Seq(Byte) : Len(b) = 4 /\ write_at(z, C, s) = write_at(z, C, b)
  BY <1>2, <1>4, <1>9, ShortWrite
<1>12. \A b : SignedFile(f, sig, b) = write_at(d, C, b)
  BY <1>3 DEF SignedFile, d
<1>13. \A b : UnsignedFile(f, b) = write_at(z, C, b)
  BY <1>3 DEF UnsignedFile, z
<1> QED BY <1>10, <1>11, <1>12, <1>13 DEF d, z, C

----------------------------------------------------------------------------
(* Parts of the copy *)

\* The digest's two parts: the headers without the two fields, and the rest of
\* the data with its padding.
Front(f) == Bytes(f, 0, checksum_offset(f))
                \o Bytes(f, checksum_offset(f) + 4, cert_table_offset(f))

Rest(f, end) == Bytes(f, cert_table_offset(f) + 8, end) \o Zeros(PadLen(end))

LEMMA DigestParts ==
    ASSUME NEW f \in Seq(Byte), HeadersValid(f),
           NEW end \in Nat, end = data_end(parse_pe(f)),
           cert_table_offset(f) + 8 <= end, end <= Len(f)
    PROVE  LET T == cert_table_offset(f)
               t == Rest(f, end)
           IN  /\ authenticode_digest(f, parse_pe(f)) = Front(f) \o t
               /\ Front(f) \in Seq(Byte)
               /\ t \in Seq(Byte)
               /\ Len(t) = (end - (T + 8)) + PadLen(end)
               /\ \A i \in 1 .. end - (T + 8) : t[i] = f[T + 8 + i]
               /\ \A i \in (end - (T + 8)) + 1 .. Len(t) : t[i] = 0
<1> DEFINE C == checksum_offset(f)
           T == cert_table_offset(f)
           x == Bytes(f, T + 8, end)
           z == Zeros(PadLen(end))
           a == Bytes(f, 0, C)
           b == Bytes(f, C + 4, T)
           t == x \o z
<1>1. C \in Nat /\ T \in Nat /\ C + 4 <= T
  BY Offsets
<1>2. T + 8 \in Nat /\ T + 8 <= end /\ C + 4 \in Nat /\ 0 \in Nat
  BY <1>1
<1>3. PadLen(end) \in Nat
  BY PadLenNat
<1>4. /\ x \in Seq(Byte) /\ Len(x) = end - (T + 8)
      /\ \A i \in 1 .. end - (T + 8) : x[i] = f[T + 8 + i]
  BY <1>2, BytesWithin, Zenon
<1>5. z \in Seq(Byte) /\ Len(z) = PadLen(end) /\ \A i \in 1 .. PadLen(end) : z[i] = 0
  BY <1>3, ZerosType
<1>6. a \in Seq(Byte) /\ b \in Seq(Byte)
  BY <1>1, <1>2, BytesType
<1>7. authenticode_digest(f, parse_pe(f)) = ((a \o b) \o x) \o z
  BY ParsedFields DEF authenticode_digest
<1>8. Front(f) = a \o b /\ Rest(f, end) = t
  BY DEF Front, Rest
<1> HIDE DEF C, T, x, z, a, b
<1>9. a \o b \in Seq(Byte) /\ ((a \o b) \o x) \o z = (a \o b) \o (x \o z)
  BY <1>4, <1>5, <1>6, SMTT(30)
<1>10. /\ t \in Seq(Byte) /\ Len(t) = Len(x) + Len(z)
       /\ \A i \in 1 .. Len(x) : t[i] = x[i]
       /\ \A i \in 1 .. Len(z) : t[Len(x) + i] = z[i]
  <2>1. x \in Seq(Byte) /\ z \in Seq(Byte)
    BY <1>4, <1>5
  <2> QED BY <2>1
<1>11. ASSUME NEW i \in (end - (T + 8)) + 1 .. Len(t) PROVE t[i] = 0
  <2> HIDE DEF t
  <2>1. Len(t) = Len(x) + Len(z) /\ Len(x) = end - (T + 8) /\ Len(z) = PadLen(end)
        /\ Len(x) \in Nat
    BY <1>4, <1>5, <1>10
  <2>2. i - Len(x) \in 1 .. Len(z) /\ Len(x) + (i - Len(x)) = i
    BY <1>3, <2>1
  <2>3. t[Len(x) + (i - Len(x))] = z[i - Len(x)]
    BY <1>10, <2>2
  <2> QED BY <1>5, <2>1, <2>2, <2>3
<1> HIDE DEF t
<1>12. \A i \in 1 .. end - (T + 8) : t[i] = f[T + 8 + i]
  BY <1>4, <1>10
<1>13. Len(t) = (end - (T + 8)) + PadLen(end)
  BY <1>4, <1>5, <1>10
<1>14. authenticode_digest(f, parse_pe(f)) = Front(f) \o Rest(f, end)
  BY <1>7, <1>8, <1>9 DEF t
<1> QED BY <1>8, <1>9, <1>10, <1>11, <1>12, <1>13, <1>14 DEF T

\* Up to the next quad-word all lengths are padded to the same one.
LEMMA PadBetween ==
    ASSUME NEW m \in Nat, NEW n \in Nat, m <= n, n <= m + PadLen(m)
    PROVE  n + PadLen(n) = m + PadLen(m)
  BY DEF PadLen

\* What a part of the copy is once it has all the headers.
LEMMA PrefixImage ==
    ASSUME NEW f, WellFormed(f), Len(f) < Word,
           NEW c \in Nat, c <= data_end(parse_pe(f)),
           NEW g, g = Bytes(f, 0, c)
    PROVE  /\ g \in Seq(Byte) /\ Len(g) = c
           /\ \A i \in 1 .. c : g[i] = f[i]
           /\ HeadersValid(g) <=> header_size(f) + HEADERS <= c
           /\ HeadersValid(g) => /\ checksum_offset(g) = checksum_offset(f)
                                 /\ cert_table_offset(g) = cert_table_offset(f)
                                 /\ header_size(g) = header_size(f)
                                 /\ filesize(g) = c
                                 /\ Front(g) = Front(f)
<1> DEFINE n == data_end(parse_pe(f))
           h == header_size(f) + HEADERS
<1>1. f \in Seq(Byte) /\ HeadersValid(f) /\ n \in Nat /\ n <= Len(f)
  BY DataEnd
<1>2. h \in Nat
  BY <1>1, Offsets
<1>3. c <= Len(f) /\ 0 <= c /\ 0 \in Nat /\ c - 0 = c
  <2> HIDE DEF n
  <2>1. c <= n
    BY DEF n
  <2> QED BY <1>1, <2>1
<1>4. g \in Seq(Byte) /\ Len(g) = c /\ \A i \in 1 .. c : g[i] = f[i]
  <2>1. /\ Bytes(f, 0, c) \in Seq(Byte) /\ Len(Bytes(f, 0, c)) = c - 0
        /\ \A i \in 1 .. c - 0 : Bytes(f, 0, c)[i] = f[0 + i]
    BY <1>1, <1>3, BytesWithin, Zenon
  <2>2. g \in Seq(Byte) /\ Len(g) = c /\ \A i \in 1 .. c : g[i] = f[0 + i]
    BY <1>3, <2>1
  <2> QED BY <2>2
<1>5. ASSUME HeadersValid(g) PROVE h <= c
  <2>1. MIN_FILE <= header_size(g) + HEADERS /\ header_size(g) + HEADERS <= c
    BY <1>4, <1>5, HeaderLayout
  <2>2. header_size(g) \in Nat /\ HEADERS \in Nat
    BY <1>4, <1>5, HeaderLayout, LayoutAssumption
  <2>3. LFANEW_AT \in Nat /\ LFANEW_AT + 4 <= c
    BY <2>1, <2>2, LayoutAssumption
  <2>4. /\ LFANEW_AT + 1 \in 1 .. c /\ LFANEW_AT + 2 \in 1 .. c
        /\ LFANEW_AT + 3 \in 1 .. c /\ LFANEW_AT + 4 \in 1 .. c
    BY <2>3
  <2>5. header_size(g) = header_size(f)
    BY <1>4, <2>4 DEF header_size, read_u32
  <2> QED BY <2>1, <2>5
<1>6. ASSUME h <= c
      PROVE  /\ HeadersValid(g)
             /\ checksum_offset(g) = checksum_offset(f)
             /\ cert_table_offset(g) = cert_table_offset(f)
             /\ header_size(g) = header_size(f)
             /\ filesize(g) = c
             /\ Front(g) = Front(f)
  <2>1. Len(g) < Word
    BY <1>1, <1>3, <1>4, WordType
  <2>2. Keeps(g, f, h)
    <3>1. \A i \in 1 .. h : i \in 1 .. c
      BY <1>2, <1>6
    <3> QED BY <1>4, <3>1 DEF Keeps
  <2>3. h <= Len(g)
    BY <1>4, <1>6
  <2>4. /\ HeadersValid(g)
        /\ checksum_offset(g) = checksum_offset(f)
        /\ cert_table_offset(g) = cert_table_offset(f)
        /\ filesize(g) = Len(g)
    BY <1>1, <1>4, <2>1, <2>2, <2>3, HeadersKept
  <2> DEFINE C == checksum_offset(f)
             T == cert_table_offset(f)
  <2>5. C \in Nat /\ T \in Nat /\ C + 4 <= T /\ T + 8 <= h
    BY <1>1, Offsets
  <2>6. Bytes(g, 0, C) = Bytes(f, 0, C) /\ Bytes(g, C + 4, T) = Bytes(f, C + 4, T)
    <3> HIDE DEF C, T, h
    <3>1. /\ 0 \in Nat /\ 0 <= C /\ C <= Len(f) /\ C <= Len(g)
          /\ C + 4 \in Nat /\ T <= Len(f) /\ T <= Len(g)
      BY <1>1, <1>2, <1>3, <1>4, <1>6, <2>5
    <3>2. \A i \in 1 .. C - 0 : g[0 + i] = f[0 + i]
      <4>1. \A i \in 1 .. C - 0 : 0 + i \in 1 .. c
        BY <1>2, <1>6, <2>5
      <4> QED BY <1>4, <4>1
    <3>3. \A i \in 1 .. T - (C + 4) : g[C + 4 + i] = f[C + 4 + i]
      <4>1. \A i \in 1 .. T - (C + 4) : C + 4 + i \in 1 .. c
        BY <1>2, <1>6, <2>5
      <4> QED BY <1>4, <4>1
    <3>4. f \in Seq(Byte) /\ g \in Seq(Byte)
      BY <1>1, <1>4
    <3>5. Bytes(g, 0, C) = Bytes(f, 0, C)
      BY <2>5, <3>1, <3>2, <3>4, SameBytes
    <3>6. Bytes(g, C + 4, T) = Bytes(f, C + 4, T)
      <4> DEFINE a == C + 4
      <4>1. a \in Nat /\ a <= T /\ T \in Nat
        BY <2>5
      <4>2. \A i \in 1 .. T - a : g[a + i] = f[a + i]
        BY <3>3
      <4> HIDE DEF a
      <4>3. T <= Len(f) /\ T <= Len(g)
        BY <3>1
      <4>4. Bytes(g, a, T) = Bytes(f, a, T)
        BY <3>4, <4>1, <4>2, <4>3, SameBytes, ZenonT(40)
      <4> QED BY <4>4 DEF a
    <3> QED BY <3>5, <3>6
  <2>7. Front(g) = Front(f)
    BY <2>4, <2>6 DEF Front
  <2> QED BY <1>1, <1>4, <2>4, <2>7, SameHeaderSize
<1> QED BY <1>4, <1>5, <1>6 DEF h

\* A part of the copy that hashes like the image and carries no signature, as
\* the copy of a signed image may when its data ends in zeros: so does every
\* longer part.
LEMMA PrefixStaysStripped ==
    ASSUME NEW f, WellFormed(f), Len(f) < Word, parse_pe(f).sigpos > 0,
           NEW c \in Nat, NEW d \in Nat, c <= d, d <= data_end(parse_pe(f)),
           NEW g, g = Bytes(f, 0, c), WellFormed(g), parse_pe(g).sigpos = 0,
           authenticode_digest(g, parse_pe(g)) = authenticode_digest(f, parse_pe(f)),
           NEW x, x = Bytes(f, 0, d)
    PROVE  /\ WellFormed(x)
           /\ parse_pe(x).sigpos = 0
           /\ authenticode_digest(x, parse_pe(x)) = authenticode_digest(f, parse_pe(f))
<1> DEFINE n == data_end(parse_pe(f))
           h == header_size(f) + HEADERS
           T == cert_table_offset(f)
           a == Rest(g, c)
           b == Rest(f, n)
           e == Rest(x, d)
<1>1. /\ f \in Seq(Byte) /\ HeadersValid(f) /\ n \in Nat /\ n <= Len(f) /\ h <= n
  BY DataEnd
<1>2. T \in Nat /\ h \in Nat /\ T + 8 <= h
  BY <1>1, Offsets
<1>3. c <= n /\ d <= n /\ c <= d
  <2> HIDE DEF n
  <2> QED BY <1>1 DEF n
<1>4. HeadersValid(g)
  BY DEF WellFormed
<1>5. /\ g \in Seq(Byte) /\ Len(g) = c /\ h <= c
      /\ \A i \in 1 .. c : g[i] = f[i]
      /\ cert_table_offset(g) = T /\ filesize(g) = c /\ Front(g) = Front(f)
  BY <1>3, <1>4, PrefixImage
<1>6. /\ x \in Seq(Byte) /\ Len(x) = d
      /\ \A i \in 1 .. d : x[i] = f[i]
      /\ HeadersValid(x)
      /\ cert_table_offset(x) = T /\ filesize(x) = d /\ Front(x) = Front(f)
  <2>1. h <= d
    <3> HIDE DEF h, n
    <3> QED BY <1>1, <1>2, <1>3, <1>5
  <2> QED BY <1>3, <2>1, PrefixImage
<1>7. parse_pe(x).sigpos = 0
  <2> DEFINE p == read_u32(f, T)
             l == read_u32(f, T + 4)
  <2>1. Trailing(f) /\ n = p
    BY <1>1, ParsedFields DEF data_end
  <2>2. l # 0
    BY <2>1 DEF Trailing
  <2>3. read_u32(x, T) = p /\ read_u32(x, T + 4) = l
    <3>1. T + 8 <= d
      <4> HIDE DEF h, T, n
      <4> QED BY <1>1, <1>2, <1>3, <1>5
    <3> HIDE DEF T, p, l
    <3>2. \A i \in 1 .. 8 : T + i \in 1 .. d
      BY <1>2, <3>1
    <3>3. \A i \in 1 .. 8 : x[T + i] = f[T + i]
      BY <1>6, <3>2
    <3>4. /\ x[T+1] = f[T+1] /\ x[T+2] = f[T+2] /\ x[T+3] = f[T+3] /\ x[T+4] = f[T+4]
          /\ x[T+4+1] = f[T+4+1] /\ x[T+4+2] = f[T+4+2]
          /\ x[T+4+3] = f[T+4+3] /\ x[T+4+4] = f[T+4+4]
      BY <1>2, <3>3
    <3> QED BY <3>4 DEF read_u32, p, l
  <2>4. Trailing(x) => p + l = d
    BY <1>6, <2>3, TrailingIsExact
  <2>5. p \in Nat /\ l \in Nat
    <3>1. T + 4 \in Nat /\ T + 4 + 4 <= Len(x) /\ T + 4 <= Len(x)
      <4>1. T + 8 <= d
        <5> HIDE DEF h, T, n
        <5> QED BY <1>1, <1>2, <1>3, <1>5
      <4> HIDE DEF T
      <4> QED BY <1>2, <1>6, <4>1
    <3>2. read_u32(x, T) \in U32s /\ read_u32(x, T + 4) \in U32s
      <4> HIDE DEF T
      <4> QED BY <1>2, <1>6, <3>1, ReadType
    <3> QED BY <2>3, <3>2, WordType DEF U32s
  <2>6. ~Trailing(x)
    <3> HIDE DEF p, l, n
    <3> QED BY <1>3, <2>1, <2>2, <2>4, <2>5
  <2> QED BY <1>6, <2>6, ParsedFields
<1>8. data_end(parse_pe(g)) = c /\ data_end(parse_pe(x)) = d
  BY <1>5, <1>4, <1>6, <1>7, ParsedFields DEF data_end
<1>9. T + 8 <= c /\ T + 8 <= d /\ T + 8 <= n
  <2> HIDE DEF h, T, n
  <2> QED BY <1>1, <1>2, <1>3, <1>5
<1>10. /\ authenticode_digest(g, parse_pe(g)) = Front(f) \o a
       /\ a \in Seq(Byte) /\ Len(a) = (c - (T + 8)) + PadLen(c)
       /\ \A i \in (c - (T + 8)) + 1 .. Len(a) : a[i] = 0
  <2>1. cert_table_offset(g) + 8 <= c /\ c <= Len(g) /\ g \in Seq(Byte)
        /\ c = data_end(parse_pe(g))
    BY <1>5, <1>8, <1>9
  <2>2. /\ authenticode_digest(g, parse_pe(g)) = Front(g) \o a
        /\ a \in Seq(Byte) /\ Len(a) = (c - (cert_table_offset(g) + 8)) + PadLen(c)
        /\ \A i \in (c - (cert_table_offset(g) + 8)) + 1 .. Len(a) : a[i] = 0
    BY <1>4, <2>1, DigestParts, Zenon
  <2> HIDE DEF a, T
  <2> QED BY <1>5, <2>2
<1>11. /\ authenticode_digest(f, parse_pe(f)) = Front(f) \o b
       /\ Front(f) \in Seq(Byte)
       /\ b \in Seq(Byte) /\ Len(b) = (n - (T + 8)) + PadLen(n)
       /\ \A i \in 1 .. n - (T + 8) : b[i] = f[T + 8 + i]
       /\ \A i \in (n - (T + 8)) + 1 .. Len(b) : b[i] = 0
  BY <1>1, <1>9, DigestParts
<1>12. /\ authenticode_digest(x, parse_pe(x)) = Front(f) \o e
       /\ e \in Seq(Byte) /\ Len(e) = (d - (T + 8)) + PadLen(d)
       /\ \A i \in 1 .. d - (T + 8) : e[i] = x[T + 8 + i]
       /\ \A i \in (d - (T + 8)) + 1 .. Len(e) : e[i] = 0
  <2>1. cert_table_offset(x) + 8 <= d /\ d <= Len(x) /\ x \in Seq(Byte)
        /\ d = data_end(parse_pe(x)) /\ HeadersValid(x)
    BY <1>6, <1>8, <1>9
  <2>2. /\ authenticode_digest(x, parse_pe(x)) = Front(x) \o e
        /\ e \in Seq(Byte) /\ Len(e) = (d - (cert_table_offset(x) + 8)) + PadLen(d)
        /\ \A i \in 1 .. d - (cert_table_offset(x) + 8) :
               e[i] = x[cert_table_offset(x) + 8 + i]
        /\ \A i \in (d - (cert_table_offset(x) + 8)) + 1 .. Len(e) : e[i] = 0
    BY <2>1, DigestParts, Zenon
  <2> HIDE DEF e, T
  <2> QED BY <1>6, <2>2
<1> HIDE DEF n, h, T, a, b, e
<1>13. a = b
  BY <1>10, <1>11, Cancel
<1>14. PadLen(c) \in Nat /\ PadLen(n) \in Nat /\ PadLen(d) \in Nat
  BY <1>1, PadLenNat
<1>15. c + PadLen(c) = n + PadLen(n)
  <2>1. (c - (T + 8)) + PadLen(c) = (n - (T + 8)) + PadLen(n)
    BY <1>10, <1>11, <1>13
  <2> QED BY <1>1, <1>2, <1>14, <2>1, SMTT(30)
<1>16. d + PadLen(d) = n + PadLen(n)
  <2>1. d <= c + PadLen(c)
    BY <1>1, <1>3, <1>14, <1>15
  <2> QED BY <1>3, <1>15, <2>1, PadBetween
<1>17. Len(e) = Len(b)
  <2>1. (d - (T + 8)) + PadLen(d) = (n - (T + 8)) + PadLen(n)
    BY <1>1, <1>2, <1>14, <1>16
  <2> QED BY <1>11, <1>12, <2>1
<1>18. ASSUME NEW i \in 1 .. Len(e) PROVE e[i] = b[i]
  <2>1. CASE i <= d - (T + 8)
    <3>1. i \in 1 .. d - (T + 8) /\ i \in 1 .. n - (T + 8) /\ T + 8 + i \in 1 .. d
      BY <1>1, <1>2, <1>3, <2>1
    <3> QED BY <1>6, <1>11, <1>12, <3>1
  <2>2. CASE i > d - (T + 8)
    <3>1. i \in (d - (T + 8)) + 1 .. Len(e) /\ i \in (c - (T + 8)) + 1 .. Len(a)
      BY <1>1, <1>2, <1>3, <1>12, <1>13, <1>17, <2>2
    <3> QED BY <1>10, <1>12, <1>13, <3>1
  <2> QED BY <1>2, <2>1, <2>2
<1>19. e = b
  BY <1>11, <1>12, <1>17, <1>18, SeqEqual
<1>20. WellFormed(x)
  BY <1>6, <1>7 DEF WellFormed
<1> QED BY <1>7, <1>11, <1>12, <1>19, <1>20

\* A part of the copy of any image never passes for the image with a new
\* signature: where its digest is that of the image, it has no room for one.
LEMMA PrefixNotSigned ==
    ASSUME NEW f, WellFormed(f), Len(f) < Word,
           NEW c \in Nat, c <= data_end(parse_pe(f)),
           NEW g, g = Bytes(f, 0, c), WellFormed(g),
           authenticode_digest(g, parse_pe(g)) = authenticode_digest(f, parse_pe(f)),
           NEW s
    PROVE  extract_signature(g, parse_pe(g)) # Signature(s)
<1> DEFINE n == data_end(parse_pe(f))
           h == header_size(f) + HEADERS
           T == cert_table_offset(f)
           p == parse_pe(g).sigpos
           l == parse_pe(g).siglen
           a == Rest(g, p)
           b == Rest(f, n)
<1>1. /\ f \in Seq(Byte) /\ HeadersValid(f) /\ n \in Nat /\ n <= Len(f) /\ h <= n
  BY DataEnd
<1>2. T \in Nat /\ h \in Nat /\ T + 8 <= h
  BY <1>1, Offsets
<1>3. HeadersValid(g)
  BY DEF WellFormed
<1>4. /\ g \in Seq(Byte) /\ Len(g) = c /\ h <= c
      /\ cert_table_offset(g) = T /\ filesize(g) = c /\ Front(g) = Front(f)
      /\ header_size(g) = header_size(f)
  BY <1>3, PrefixImage
<1>5. CASE p = 0
  <2>1. extract_signature(g, parse_pe(g)) = NoSignature
    BY <1>5 DEF extract_signature
  <2> QED BY <2>1 DEF NoSignature, Signature
<1>6. CASE p # 0
  <2>1. p \in Nat /\ l \in Nat /\ l # 0 /\ p < Word
    <3>1. p \in U32s /\ l \in U32s /\ (p = 0 <=> l = 0)
      BY <1>3, <1>4, ParsedType
    <3> HIDE DEF p, l
    <3> QED BY <1>6, <3>1, WordType DEF U32s
  <2>2. p + l = c
    <3>1. Trailing(g) /\ p = read_u32(g, T) /\ l = read_u32(g, T + 4)
      BY <1>3, <1>4, <1>6, ParsedFields
    <3> QED BY <1>3, <1>4, <3>1, TrailingIsExact
  <2>3. h <= p
    BY <1>4, <1>6 DEF WellFormed
  <2>4. data_end(parse_pe(g)) = p
    BY <2>1, <1>6 DEF data_end
  <2> HIDE DEF p, l
  <2>5. T + 8 <= p /\ p <= Len(g) /\ T + 8 <= n
    <3> HIDE DEF n, h, T
    <3> QED BY <1>1, <1>2, <1>4, <2>1, <2>2, <2>3
  <2>6. /\ authenticode_digest(g, parse_pe(g)) = Front(f) \o a
        /\ a \in Seq(Byte) /\ Len(a) = (p - (T + 8)) + PadLen(p)
    <3>1. cert_table_offset(g) + 8 <= p /\ p <= Len(g) /\ g \in Seq(Byte) /\ p \in Nat
          /\ p = data_end(parse_pe(g))
      BY <1>4, <2>1, <2>4, <2>5
    <3>2. /\ authenticode_digest(g, parse_pe(g)) = Front(g) \o a
          /\ a \in Seq(Byte) /\ Len(a) = (p - (cert_table_offset(g) + 8)) + PadLen(p)
      BY <1>3, <3>1, DigestParts, Zenon
    <3> HIDE DEF a, T
    <3> QED BY <1>4, <3>2
  <2>7. /\ authenticode_digest(f, parse_pe(f)) = Front(f) \o b
        /\ Front(f) \in Seq(Byte)
        /\ b \in Seq(Byte) /\ Len(b) = (n - (T + 8)) + PadLen(n)
    BY <1>1, <2>5, DigestParts
  <2>8. a = b
    <3> HIDE DEF a, b
    <3> QED BY <2>6, <2>7, Cancel
  <2>9. PadLen(p) \in 0 .. 7 /\ PadLen(n) \in Nat
    BY <1>1, <2>1, PadLenType, PadLenNat
  <2>10. p + 8 > c
    <3>1. c <= n
      OBVIOUS
    <3> HIDE DEF n, h, T, a, b
    <3>2. p + PadLen(p) = n + PadLen(n)
      <4>1. (p - (T + 8)) + PadLen(p) = (n - (T + 8)) + PadLen(n)
        BY <2>6, <2>7, <2>8
      <4>2. p \in Nat /\ n \in Nat /\ T \in Nat /\ PadLen(p) \in Nat /\ PadLen(n) \in Nat
        BY <1>1, <1>2, <2>1, <2>9
      <4> QED BY <4>1, <4>2
    <3> QED BY <1>1, <2>1, <2>9, <3>1, <3>2
  <2> DEFINE info == parse_pe(g)
  <2>11. (info.sigpos + 0) % Word = p
    <3>1. p % Word = p
      BY <2>1, ModSmall, WordType
    <3> QED BY <2>1, <3>1 DEF p
  <2>12. WalkEnds(g, info, 0)
    <3>1. p + 8 > Len(g)
      BY <1>4, <2>10
    <3> QED BY <2>11, <3>1 DEF WalkEnds
  <2>13. WalkResult(g, info, 0) = BadTable
    <3>1. p + 8 > Len(g) /\ ~(0 >= info.siglen)
      BY <1>4, <2>1, <2>10 DEF l
    <3> QED BY <2>11, <3>1 DEF WalkResult
  <2>14. ~(info.sigpos = 0 \/ info.siglen = 0)
    BY <1>6, <2>1 DEF p, l
  <2>15. extract_signature(g, info) = BadTable
    BY <2>12, <2>13, <2>14 DEF extract_signature
  <2> QED BY <2>15 DEF BadTable, Signature
<1> QED BY <1>5, <1>6


----------------------------------------------------------------------------
(* The types of the writer *)

\* TypeOK is inductive once it is known that a command beyond its first step
\* works with the PeInfo of an image whose headers are valid.
TypeInv ==
    /\ TypeOK
    /\ pc \notin {"parse", "failed"} => HeadersValid(image) /\ pe = parse_pe(image)

LEMMA ParsedRecord ==
    ASSUME NEW f \in Seq(Byte), HeadersValid(f)
    PROVE  /\ parse_pe(f) \in PeInfo
           /\ parse_pe(f).sigpos = 0 <=> parse_pe(f).siglen = 0
<1> DEFINE sp == parse_pe(f).sigpos
           sl == parse_pe(f).siglen
<1>1. /\ checksum_offset(f) \in Nat /\ cert_table_offset(f) \in Nat
      /\ filesize(f) \in U32s
  BY Offsets, FilesizeType
<1>2. sp \in U32s /\ sl \in U32s /\ (sp = 0 <=> sl = 0)
  BY ParsedType
<1>3. parse_pe(f) = [ok                |-> TRUE,
                     checksum_offset   |-> checksum_offset(f),
                     cert_table_offset |-> cert_table_offset(f),
                     sigpos            |-> sp,
                     siglen            |-> sl,
                     fileend           |-> filesize(f)]
  BY DEF parse_pe
<1> HIDE DEF sp, sl
<1>4. parse_pe(f) \in PeInfo
  BY <1>1, <1>2, <1>3 DEF PeInfo
<1> QED BY <1>2, <1>4 DEF sp, sl

LEMMA OutputType ==
    ASSUME TypeInv
    PROVE  /\ output \in Seq(Byte)
           /\ disk[Source] \in Seq(Byte)
           /\ Len(output) \in Nat
  BY DEF TypeInv, TypeOK, output, Paths

LEMMA ChunkType ==
    ASSUME TypeInv, pc = "copy"
    PROVE  /\ chunk \in Seq(Byte)
           /\ Len(chunk) \in Nat
<1>1. disk[Source] \in Seq(Byte) /\ copied \in Nat /\ Buf \in Nat
  BY OutputType, InputsAssumption DEF TypeInv, TypeOK
<1>2. data_end(pe) \in Nat
  BY ParsedType DEF TypeInv, TypeOK
<1>3. copied + Buf \in Nat
  BY <1>1
<1>4. Bytes(disk[Source], copied, copied + Buf) \in Seq(Byte)
      /\ Bytes(disk[Source], copied, data_end(pe)) \in Seq(Byte)
  BY <1>1, <1>2, <1>3, BytesType
<1>5. chunk \in Seq(Byte)
  BY <1>4 DEF chunk
<1> QED BY <1>5

LEMMA PutsType ==
    ASSUME NEW m \in Nat, NEW n \in Nat
    PROVE  Put32(m) \o Put32(n) \in Seq(Byte)
<1>1. Put32(m) \in Seq(Byte) /\ Put32(n) \in Seq(Byte)
  BY Put32Type
<1> QED BY <1>1

LEMMA PendingType ==
    ASSUME TypeInv
    PROVE  Pending.at \in Nat /\ Pending.bytes \in Seq(Byte)
<1>1. pc \notin {"parse", "failed"} =>
          pe.checksum_offset \in Nat /\ pe.cert_table_offset \in Nat
  <2>1. pc \notin {"parse", "failed"} => pe \in PeInfo
    BY ParsedRecord DEF TypeInv, TypeOK
  <2> QED BY <2>1 DEF PeInfo
<1>2. CASE pc = "copy"
  BY <1>2, ChunkType DEF Pending, TypeInv, TypeOK
<1>3. CASE pc = "zero_checksum"
  <2>1. Pending = [at |-> pe.checksum_offset, bytes |-> Zeros(4)]
    BY <1>3 DEF Pending
  <2> QED BY <1>1, <1>3, <2>1, ZerosType
<1>4. CASE pc = "zero_cert_table"
  <2>1. Pending = [at |-> pe.cert_table_offset, bytes |-> Zeros(8)]
    BY <1>4 DEF Pending
  <2> QED BY <1>1, <1>4, <2>1, ZerosType
<1>5. CASE pc = "pad"
  <2>1. Pending = [at |-> Len(output), bytes |-> Zeros(PadLen(Len(output)))]
    BY <1>5 DEF Pending
  <2>2. Len(output) \in Nat /\ PadLen(Len(output)) \in Nat
    BY OutputType, PadLenNat
  <2> QED BY <2>1, <2>2, ZerosType
<1>6. CASE pc = "append"
  <2>1. Pending = [at |-> Len(output), bytes |-> WinCertificate(der)]
    BY <1>6 DEF Pending
  <2>2. der \in Seq(Byte) /\ Len(output) \in Nat
    BY OutputType DEF TypeInv, TypeOK
  <2> QED BY <2>1, <2>2, CertShape
<1>7. CASE pc = "update_dir"
  <2>1. Pending = [at |-> pe.cert_table_offset,
                   bytes |-> Put32(new_sigpos) \o Put32(CertLen(der))]
    BY <1>7 DEF Pending
  <2>2. new_sigpos \in Nat
    BY WordType DEF TypeInv, TypeOK, U32s
  <2>3. CertLen(der) \in Nat
    BY CertLenType DEF TypeInv, TypeOK
  <2> QED BY <1>1, <1>7, <2>1, <2>2, <2>3, PutsType
<1>8. CASE pc = "write_checksum"
  <2>1. Pending = [at |-> pe.checksum_offset, bytes |-> Put32(checksum)]
    BY <1>8 DEF Pending
  <2>2. checksum \in Nat
    BY WordType DEF TypeInv, TypeOK, U32s
  <2> QED BY <1>1, <1>8, <2>1, <2>2, Put32Type
<1>9. CASE pc \notin {"copy", "zero_checksum", "zero_cert_table", "pad", "append",
                      "update_dir", "write_checksum"}
  <2>1. Pending = [at |-> 0, bytes |-> << >>]
    BY <1>9 DEF Pending
  <2> QED BY <2>1
<1> QED BY <1>2, <1>3, <1>4, <1>5, <1>6, <1>7, <1>8, <1>9

LEMMA WrittenType ==
    ASSUME TypeInv
    PROVE  Written \in Seq(Byte)
  BY OutputType, PendingType, WriteAtType DEF Written

LEMMA DiskType ==
    ASSUME TypeInv, NEW p, NEW s \in Seq(Byte)
    PROVE  [disk EXCEPT ![p] = s] \in [Paths -> Seq(Byte)]
  BY DEF TypeInv, TypeOK

LEMMA TypeInit == Init => TypeInv
<1>1. ASSUME Init PROVE TypeInv
  <2>1. image \in Seq(Byte) /\ Stale \in Seq(Byte) /\ der \in Seq(Byte)
    BY <1>1, InputsAssumption DEF Init
  <2>2. disk \in [Paths -> Seq(Byte)]
    BY <1>1, <2>1 DEF Init
  <2>3. 0 \in U32s
    BY WordType DEF U32s
  <2> QED BY <1>1, <2>1, <2>2, <2>3 DEF Init, TypeInv, TypeOK
<1> QED BY <1>1

\* The write an action performs keeps the types of everything it touches.
LEMMA WriteKeepsTypes ==
    ASSUME TypeInv, NEW from, NEW to, PerformWrite(from, to)
    PROVE  disk' \in [Paths -> Seq(Byte)] /\ pc = from /\ pc' = to
  BY WrittenType, DiskType DEF PerformWrite

LEMMA TypeStep == TypeInv /\ [Next]_vars => TypeInv'
<1> SUFFICES ASSUME TypeInv, [Next]_vars PROVE TypeInv'
  OBVIOUS
<1>1. CASE Parse
  <2> DEFINE f == disk[Source]
  <2>1. f \in Seq(Byte)
    BY OutputType
  <2>2. pc' = "open" /\ pe' = parse_pe(f) /\ image' = f
        /\ UNCHANGED << disk, op, der, copied, new_sigpos, checksum, opened >>
    BY <1>1 DEF Parse
  <2>3. HeadersValid(f)
    BY <1>1 DEF Parse, parse_pe, InvalidPe
  <2> HIDE DEF f
  <2>4. pe' \in PeInfo /\ (pe'.sigpos = 0 <=> pe'.siglen = 0)
    BY <2>1, <2>2, <2>3, ParsedRecord
  <2> QED BY <2>1, <2>2, <2>3, <2>4 DEF TypeInv, TypeOK
<1>2. CASE ParseRejects
  BY <1>2 DEF ParseRejects, TypeInv, TypeOK
<1>3. CASE OpenOutput
  <2>1. disk' \in [Paths -> Seq(Byte)]
    <3>1. << >> \in Seq(Byte)
      OBVIOUS
    <3>2. disk' = [disk EXCEPT ![Target] = << >>]
      BY <1>3 DEF OpenOutput
    <3>3. [disk EXCEPT ![Target] = << >>] \in [Paths -> Seq(Byte)]
      BY <3>1, DiskType, Zenon
    <3> QED BY <3>2, <3>3
  <2>2. pc = "open" /\ pc' \in {"failed", "copy"}
    BY <1>3 DEF OpenOutput
  <2> QED BY <1>3, <2>1, <2>2 DEF OpenOutput, TypeInv, TypeOK
<1>4. CASE CopyChunk
  <2>1. disk' \in [Paths -> Seq(Byte)] /\ pc = "copy" /\ pc' = "copy"
    BY <1>4, WriteKeepsTypes DEF CopyChunk
  <2>2. copied' \in Nat
    BY <1>4, <2>1, ChunkType DEF CopyChunk, TypeInv, TypeOK
  <2> QED BY <1>4, <2>1, <2>2 DEF CopyChunk, TypeInv, TypeOK
<1>5. CASE CopyEnds
  BY <1>5 DEF CopyEnds, TypeInv, TypeOK
<1>6. CASE ZeroChecksum
  <2>1. disk' \in [Paths -> Seq(Byte)]
        /\ pc = "zero_checksum" /\ pc' = "zero_cert_table"
    BY <1>6, WriteKeepsTypes DEF ZeroChecksum
  <2> QED BY <1>6, <2>1 DEF ZeroChecksum, TypeInv, TypeOK
<1>7. CASE ZeroCertTable
  <2>1. disk' \in [Paths -> Seq(Byte)]
        /\ pc = "zero_cert_table" /\ pc' \in {"pad", "calc_checksum"}
    BY <1>7, WriteKeepsTypes DEF ZeroCertTable
  <2> QED BY <1>7, <2>1 DEF ZeroCertTable, TypeInv, TypeOK
<1>8. CASE Pad
  <2>1. disk' \in [Paths -> Seq(Byte)] /\ pc = "pad" /\ pc' = "append"
    BY <1>8, WriteKeepsTypes DEF Pad
  <2>2. new_sigpos' \in U32s
    <3>1. Len(Written) \in Nat /\ Word \in Nat \ {0}
      BY WrittenType, WordType
    <3>2. Len(Written) % Word \in 0 .. Word - 1
      BY <3>1, DivMod
    <3> QED BY <1>8, <3>2 DEF Pad, U32s
  <2> QED BY <1>8, <2>1, <2>2 DEF Pad, TypeInv, TypeOK
<1>9. CASE AppendCert
  <2>1. disk' \in [Paths -> Seq(Byte)] /\ pc = "append" /\ pc' = "update_dir"
    BY <1>9, WriteKeepsTypes DEF AppendCert
  <2> QED BY <1>9, <2>1 DEF AppendCert, TypeInv, TypeOK
<1>10. CASE UpdateDir
  <2>1. disk' \in [Paths -> Seq(Byte)] /\ pc = "update_dir" /\ pc' = "calc_checksum"
    BY <1>10, WriteKeepsTypes DEF UpdateDir
  <2> QED BY <1>10, <2>1 DEF UpdateDir, TypeInv, TypeOK
<1>11. CASE CalcChecksum
  <2>1. checksum' \in U32s
    BY <1>11, OutputType, ChecksumType DEF CalcChecksum
  <2> QED BY <1>11, <2>1 DEF CalcChecksum, TypeInv, TypeOK
<1>12. CASE WriteChecksum
  <2>1. disk' \in [Paths -> Seq(Byte)] /\ pc = "write_checksum" /\ pc' = "done"
    BY <1>12, WriteKeepsTypes DEF WriteChecksum
  <2> QED BY <1>12, <2>1 DEF WriteChecksum, TypeInv, TypeOK
<1>13. CASE Fails
  BY <1>13 DEF Fails, TypeInv, TypeOK
<1>14. CASE TornWrite
  <2>1. PICK k \in 1 .. Len(Pending.bytes) - 1 :
            disk' = [disk EXCEPT ![Target] =
                        write_at(output, Pending.at, SubSeq(Pending.bytes, 1, k))]
    BY <1>14 DEF TornWrite
  <2>2. SubSeq(Pending.bytes, 1, k) \in Seq(Byte)
    <3> DEFINE s == Pending.bytes
    <3>1. s \in Seq(Byte)
      BY PendingType
    <3> HIDE DEF s
    <3>2. k \in 1 .. Len(s) - 1
      BY <2>1 DEF s
    <3>3. SubSeq(s, 1, k) \in Seq(Byte)
      BY <3>1, <3>2
    <3> QED BY <3>3 DEF s
  <2>3. disk' \in [Paths -> Seq(Byte)]
    BY <2>1, <2>2, OutputType, PendingType, WriteAtType, DiskType
  <2> QED BY <1>14, <2>3 DEF TornWrite, TypeInv, TypeOK
<1>15. CASE Meddle
  <2>1. disk' \in [Paths -> Seq(Byte)]
    <3>1. << >> \in Seq(Byte)
      OBVIOUS
    <3>2. disk' = [disk EXCEPT ![Source] = << >>]
      BY <1>15 DEF Meddle
    <3>3. [disk EXCEPT ![Source] = << >>] \in [Paths -> Seq(Byte)]
      BY <3>1, DiskType, Zenon
    <3> QED BY <3>2, <3>3
  <2> QED BY <1>15, <2>1 DEF Meddle, TypeInv, TypeOK
<1>16. CASE UNCHANGED vars
  BY <1>16 DEF vars, TypeInv, TypeOK
<1> QED BY <1>1, <1>2, <1>3, <1>4, <1>5, <1>6, <1>7, <1>8, <1>9, <1>10, <1>11,
           <1>12, <1>13, <1>14, <1>15, <1>16 DEF Next, Step

\* The variables keep their types in every behaviour, whatever the paths, with
\* or without another process, through torn writes and failures; in particular
\* sigpos and siglen of a PeInfo are zero together.
THEOREM TypeCorrect == Spec => []TypeOK
<1>1. TypeInv => TypeOK
  BY DEF TypeInv
<1> QED BY <1>1, TypeInit, TypeStep, PTL DEF Spec

----------------------------------------------------------------------------
(* What the output holds before each system call *)

\* The file to which the last write adds the checksum.
Unsummed(f, d) == IF op = "sign" THEN Directed(f, parse_pe(f), d)
                  ELSE Zeroed(f, parse_pe(f))

\* The stages of the output that the operators of PeImage name; the copy is
\* complete when the loop ends because the input is still whole.
Stages ==
    /\ pc = "copy"            => /\ copied <= data_end(pe)
                                 /\ output = Bytes(image, 0, copied)
    /\ pc = "zero_checksum"   => output = Copied(image, pe)
    /\ pc = "zero_cert_table" => output = ZeroedChecksum(image, pe)
    /\ pc = "pad"             => output = Zeroed(image, pe) /\ op = "sign"
    /\ pc = "append"          => output = Padded(image, pe) /\ op = "sign"
    /\ pc = "update_dir"      => output = Certified(image, pe, der) /\ op = "sign"
    /\ pc \in {"append", "update_dir"} => new_sigpos = Len(Padded(image, pe)) % Word
    /\ pc \in {"calc_checksum", "write_checksum"} => output = Unsummed(image, der)
    /\ pc = "done" => output = write_at(Unsummed(image, der), pe.checksum_offset,
                                        Put32(checksum))

SafeInv ==
    /\ TypeInv
    /\ disk[Source] = image
    /\ pc \in {"parse", "open"} => copied = 0
    /\ Stages

LEMMA SafeInit == Init => SafeInv
<1>1. Init => disk[Source] = image
  BY DEF Init, Paths
<1> QED BY <1>1, TypeInit DEF Init, SafeInv, Stages

LEMMA SafeStep ==
    ASSUME Source # Target, ~Meddling
    PROVE  SafeInv /\ [Next]_vars => SafeInv'
<1> SUFFICES ASSUME SafeInv, [Next]_vars PROVE SafeInv'
  OBVIOUS
<1>1. TypeInv /\ TypeInv' /\ disk[Source] = image
  BY TypeStep DEF SafeInv
<1>2. Target \in Paths /\ Source \in Paths /\ disk \in [Paths -> Seq(Byte)]
  BY <1>1 DEF Paths, TypeInv, TypeOK
<1>3. output \in Seq(Byte)
  BY <1>1, OutputType
\* A write to the output leaves the input alone.
<1>4. ASSUME NEW s, disk' = [disk EXCEPT ![Target] = s], image' = image
      PROVE  output' = s /\ disk'[Source] = image'
  BY <1>1, <1>2, <1>4 DEF output
<1>5. pc \notin {"parse", "failed"} =>
          /\ HeadersValid(image)
          /\ image \in Seq(Byte)
          /\ pe = parse_pe(image)
          /\ data_end(pe) \in Nat
          /\ data_end(pe) <= Len(image)
          /\ pe.checksum_offset = checksum_offset(image)
          /\ pe.cert_table_offset = cert_table_offset(image)
  BY <1>1, ParsedType, ParsedFields DEF TypeInv, TypeOK
<1>6. CASE Parse
  BY <1>1, <1>6 DEF Parse, SafeInv, Stages
<1>7. CASE ParseRejects
  BY <1>1, <1>7 DEF ParseRejects, SafeInv, Stages
<1>8. CASE OpenOutput
  <2>1. output' = << >> /\ disk'[Source] = image' /\ copied' = 0
        /\ pc' \in {"failed", "copy"} /\ pe' = pe /\ image' = image
    BY <1>4, <1>8 DEF OpenOutput, SafeInv
  <2>2. Bytes(image, 0, 0) = << >>
    BY <1>5, <1>8 DEF OpenOutput, Bytes
  <2>3. 0 <= data_end(pe)
    BY <1>5, <1>8 DEF OpenOutput
  <2> QED BY <1>1, <2>1, <2>2, <2>3 DEF SafeInv, Stages
<1>9. CASE CopyChunk
  <2> DEFINE upto == IF copied + Buf < data_end(pe) THEN copied + Buf ELSE data_end(pe)
  <2>1. /\ pc = "copy" /\ pc' = "copy" /\ pe' = pe /\ image' = image
        /\ disk' = [disk EXCEPT ![Target] = Written]
        /\ copied' = copied + Len(chunk)
    BY <1>9 DEF CopyChunk, PerformWrite
  <2>2. /\ copied \in Nat /\ Buf \in Nat /\ copied <= data_end(pe)
        /\ output = Bytes(image, 0, copied)
    BY <1>1, <2>1, InputsAssumption DEF SafeInv, Stages, TypeInv, TypeOK
  <2>3. upto \in Nat /\ copied <= upto /\ upto <= data_end(pe) /\ upto <= Len(image)
    BY <1>5, <2>1, <2>2
  <2>4. chunk = Bytes(image, copied, upto)
    BY <1>1 DEF chunk
  <2> HIDE DEF upto
  <2>5. chunk \in Seq(Byte) /\ Len(chunk) = upto - copied
    BY <1>5, <2>1, <2>2, <2>3, <2>4, BytesWithin
  <2>6. Len(output) = copied
    <3>1. Len(Bytes(image, 0, copied)) = copied - 0
      BY <1>5, <2>1, <2>2, BytesWithin
    <3> QED BY <2>2, <3>1
  <2>7. Written = output \o chunk
    <3>1. Pending.at = Len(output) /\ Pending.bytes = chunk
      BY <2>1, <2>6 DEF Pending
    <3> QED BY <1>3, <2>5, <3>1, WriteAtEnd DEF Written
  <2>8. Written = Bytes(image, 0, upto)
    <3>1. 0 \in Nat /\ 0 <= copied
      BY <2>2
    <3> QED BY <1>5, <2>1, <2>2, <2>3, <2>4, <2>7, <3>1, BytesJoin
  <2>9. copied' = upto
    BY <2>1, <2>2, <2>3, <2>5
  <2>10. output' = Written /\ disk'[Source] = image'
    BY <1>4, <2>1
  <2>11. copied' <= data_end(pe') /\ output' = Bytes(image', 0, copied')
    BY <2>1, <2>3, <2>8, <2>9, <2>10
  <2> QED BY <1>1, <2>1, <2>10, <2>11 DEF SafeInv, Stages
<1>10. CASE CopyEnds
  <2> DEFINE upto == IF copied + Buf < data_end(pe) THEN copied + Buf ELSE data_end(pe)
  <2>1. /\ pc = "copy" /\ chunk = << >> /\ pc' = "zero_checksum"
        /\ UNCHANGED << disk, op, der, pe, copied, new_sigpos, checksum, image >>
    BY <1>10 DEF CopyEnds
  <2>2. /\ copied \in Nat /\ Buf \in Nat \ {0} /\ copied <= data_end(pe)
        /\ output = Bytes(image, 0, copied)
    BY <1>1, <2>1, InputsAssumption DEF SafeInv, Stages, TypeInv, TypeOK
  <2>3. upto \in Nat /\ copied <= upto /\ upto <= Len(image)
    BY <1>5, <2>1, <2>2
  <2>4. chunk = Bytes(image, copied, upto)
    BY <1>1 DEF chunk
  <2>5. upto = copied
    <3> HIDE DEF upto
    <3>1. Len(Bytes(image, copied, upto)) = upto - copied
      BY <1>5, <2>1, <2>2, <2>3, BytesWithin
    <3> QED BY <2>1, <2>2, <2>3, <2>4, <3>1
  <2>6. copied = data_end(pe)
    BY <1>5, <2>1, <2>2, <2>5
  <2>7. output' = Copied(image', pe')
    BY <2>1, <2>2, <2>6 DEF Copied, output
  <2> QED BY <1>1, <2>1, <2>7 DEF SafeInv, Stages
<1>11. CASE ZeroChecksum
  <2>1. pc = "zero_checksum" /\ pc' = "zero_cert_table" /\ pe' = pe /\ image' = image
        /\ disk' = [disk EXCEPT ![Target] = Written]
    BY <1>11 DEF ZeroChecksum, PerformWrite
  <2>2. Written = write_at(output, pe.checksum_offset, Zeros(4))
    BY <2>1 DEF Written, Pending
  <2>3. output' = ZeroedChecksum(image', pe') /\ disk'[Source] = image'
    BY <1>4, <2>1, <2>2 DEF SafeInv, Stages, ZeroedChecksum
  <2> QED BY <1>1, <2>1, <2>3 DEF SafeInv, Stages
<1>12. CASE ZeroCertTable
  <2>1. /\ pc = "zero_cert_table" /\ pe' = pe /\ image' = image /\ op' = op
        /\ der' = der
        /\ pc' = IF op = "sign" THEN "pad" ELSE "calc_checksum"
        /\ disk' = [disk EXCEPT ![Target] = Written]
    BY <1>12 DEF ZeroCertTable, PerformWrite
  <2>2. Written = write_at(output, pe.cert_table_offset, Zeros(8))
    BY <2>1 DEF Written, Pending
  <2>3. output' = Zeroed(image', pe') /\ disk'[Source] = image'
    BY <1>4, <2>1, <2>2 DEF SafeInv, Stages, Zeroed
  <2>4. pc' = "calc_checksum" => output' = Unsummed(image, der)'
    BY <1>5, <2>1, <2>3 DEF Unsummed
  <2> QED BY <1>1, <2>1, <2>3, <2>4 DEF SafeInv, Stages
<1>13. CASE Pad
  <2>1. /\ pc = "pad" /\ pc' = "append" /\ pe' = pe /\ image' = image /\ op' = op
        /\ disk' = [disk EXCEPT ![Target] = Written]
        /\ new_sigpos' = Len(Written) % Word
    BY <1>13 DEF Pad, PerformWrite
  <2>2. Written = write_at(output, Len(output), Zeros(PadLen(Len(output))))
    BY <2>1 DEF Written, Pending
  <2>3. Written = output \o Zeros(PadLen(Len(output)))
    <3>1. Len(output) \in Nat /\ PadLen(Len(output)) \in Nat
      BY <1>1, OutputType, PadLenNat
    <3>2. Zeros(PadLen(Len(output))) \in Seq(Byte)
      BY <3>1, ZerosType
    <3> QED BY <1>3, <2>2, <3>2, WriteAtEnd
  <2>4. Written = Padded(image, pe) /\ op = "sign"
    BY <2>1, <2>3 DEF SafeInv, Stages, Padded
  <2>5. output' = Padded(image', pe') /\ disk'[Source] = image'
    BY <1>4, <2>1, <2>4
  <2> QED BY <1>1, <2>1, <2>4, <2>5 DEF SafeInv, Stages
<1>14. CASE AppendCert
  <2>1. /\ pc = "append" /\ pc' = "update_dir" /\ pe' = pe /\ image' = image
        /\ op' = op /\ der' = der /\ new_sigpos' = new_sigpos
        /\ disk' = [disk EXCEPT ![Target] = Written]
    BY <1>14 DEF AppendCert, PerformWrite
  <2>2. Written = write_at(output, Len(output), WinCertificate(der))
    BY <2>1 DEF Written, Pending
  <2>3. Written = output \o WinCertificate(der)
    <3>1. WinCertificate(der) \in Seq(Byte)
      BY <1>1, CertShape DEF TypeInv, TypeOK
    <3> QED BY <1>3, <2>2, <3>1, WriteAtEnd
  <2>4. output' = Certified(image', pe', der') /\ disk'[Source] = image'
    BY <1>4, <2>1, <2>3 DEF SafeInv, Stages, Certified
  <2> QED BY <1>1, <2>1, <2>4 DEF SafeInv, Stages
<1>15. CASE UpdateDir
  <2>1. /\ pc = "update_dir" /\ pc' = "calc_checksum" /\ pe' = pe /\ image' = image
        /\ op' = op /\ der' = der
        /\ disk' = [disk EXCEPT ![Target] = Written]
    BY <1>15 DEF UpdateDir, PerformWrite
  <2>2. Written = write_at(output, pe.cert_table_offset,
                           Put32(new_sigpos) \o Put32(CertLen(der)))
    BY <2>1 DEF Written, Pending
  <2>3. Written = Directed(image, pe, der) /\ op = "sign"
    BY <2>1, <2>2 DEF SafeInv, Stages, Directed, DirEntry
  <2>4. output' = Unsummed(image, der)' /\ disk'[Source] = image'
    BY <1>4, <1>5, <2>1, <2>3 DEF Unsummed
  <2> QED BY <1>1, <2>1, <2>4 DEF SafeInv, Stages
<1>16. CASE CalcChecksum
  <2>1. /\ pc = "calc_checksum" /\ pc' = "write_checksum"
        /\ UNCHANGED << disk, op, der, pe, copied, new_sigpos, image >>
    BY <1>16 DEF CalcChecksum
  <2>2. output' = Unsummed(image, der)'
    BY <2>1 DEF SafeInv, Stages, Unsummed, output
  <2> QED BY <1>1, <2>1, <2>2 DEF SafeInv, Stages
<1>17. CASE WriteChecksum
  <2>1. /\ pc = "write_checksum" /\ pc' = "done" /\ pe' = pe /\ image' = image
        /\ op' = op /\ der' = der /\ checksum' = checksum
        /\ disk' = [disk EXCEPT ![Target] = Written]
    BY <1>17 DEF WriteChecksum, PerformWrite
  <2>2. Written = write_at(output, pe.checksum_offset, Put32(checksum))
    BY <2>1 DEF Written, Pending
  <2>3. output = Unsummed(image, der) /\ Unsummed(image, der)' = Unsummed(image, der)
    BY <2>1 DEF SafeInv, Stages, Unsummed
  <2>4. output' = write_at(Unsummed(image, der)', pe'.checksum_offset, Put32(checksum'))
        /\ disk'[Source] = image'
    BY <1>4, <2>1, <2>2, <2>3
  <2> QED BY <1>1, <2>1, <2>4 DEF SafeInv, Stages
<1>18. CASE Fails
  BY <1>1, <1>18 DEF Fails, SafeInv, Stages
<1>19. CASE TornWrite
  <2>1. PICK k \in 1 .. Len(Pending.bytes) - 1 :
            disk' = [disk EXCEPT ![Target] =
                        write_at(output, Pending.at, SubSeq(Pending.bytes, 1, k))]
    BY <1>19 DEF TornWrite
  <2>2. pc' = "failed" /\ image' = image
    BY <1>19 DEF TornWrite
  <2>3. disk'[Source] = image'
    BY <1>4, <2>1, <2>2
  <2> QED BY <1>1, <2>2, <2>3 DEF SafeInv, Stages
<1>20. CASE Meddle
  BY <1>20 DEF Meddle
<1>21. CASE UNCHANGED vars
  <2>1. output' = output /\ Unsummed(image, der)' = Unsummed(image, der)
    BY <1>21 DEF vars, output, Unsummed
  <2> QED BY <1>1, <1>21, <2>1 DEF vars, SafeInv, Stages
<1> QED BY <1>6, <1>7, <1>8, <1>9, <1>10, <1>11, <1>12, <1>13, <1>14, <1>15,
           <1>16, <1>17, <1>18, <1>19, <1>20, <1>21 DEF Next, Step

\* An output reported as signed parses, is seen as signed, hashes to the digest
\* the signature was made over and gives the embedded blob back: for every
\* input, blob, buffer size and layout of the headers, through any failures
\* before it is reported, as long as the output is not the input itself and no
\* other process empties the input.
THEOREM SignedOutputIsGood ==
    ASSUME Source # Target, ~Meddling
    PROVE  Spec => []SignedOutputGood
<1>1. SafeInv => SignedOutputGood
  <2>1. SUFFICES ASSUME SafeInv, pc = "done", op = "sign", WellFormed(image),
                        Fits(image, der)
                 PROVE  LET out == parse_pe(output)
                        IN  /\ out.ok
                            /\ out.sigpos > 0
                            /\ authenticode_digest(output, out)
                                   = authenticode_digest(image, pe)
                            /\ extract_signature(output, out) = Signature(PaddedDer(der))
    BY DEF SignedOutputGood
  <2>2. pe = parse_pe(image) /\ der \in Seq(Byte) /\ checksum \in Nat
    BY <2>1, WordType DEF SafeInv, TypeInv, TypeOK, U32s
  <2>3. output = SignedFile(image, der, Put32(checksum))
    BY <2>1, <2>2 DEF SafeInv, Stages, Unsummed, SignedFile
  <2>4. Put32(checksum) \in Seq(Byte) /\ Len(Put32(checksum)) = 4
    BY <2>2, Put32Type
  <2> QED BY <2>1, <2>2, <2>3, <2>4, SignedFileGood
<1> QED BY <1>1, SafeInit, SafeStep, PTL DEF Spec

\* An output reported as stripped parses, carries no signature and hashes to
\* the digest of the signed image, under the same assumptions.
THEOREM StrippedOutputIsGood ==
    ASSUME Source # Target, ~Meddling
    PROVE  Spec => []StrippedOutputGood
<1>1. SafeInv => StrippedOutputGood
  <2>1. SUFFICES ASSUME SafeInv, pc = "done", op = "remove", WellFormed(image),
                        Fits(image, << >>)
                 PROVE  LET out == parse_pe(output)
                        IN  /\ out.ok
                            /\ out.sigpos = 0
                            /\ authenticode_digest(output, out)
                                   = authenticode_digest(image, pe)
    BY DEF StrippedOutputGood
  <2>2. pe = parse_pe(image) /\ checksum \in Nat
    BY <2>1, WordType DEF SafeInv, TypeInv, TypeOK, U32s
  <2>3. output = UnsignedFile(image, Put32(checksum))
    BY <2>1, <2>2 DEF SafeInv, Stages, Unsummed, UnsignedFile
  <2>4. Put32(checksum) \in Seq(Byte) /\ Len(Put32(checksum)) = 4
    BY <2>2, Put32Type
  <2>5. Len(image) < Word
    <3>1. Len(image) \in Nat /\ Word \in Nat
      BY <2>1, WordType DEF WellFormed
    <3> QED BY <2>1, <3>1 DEF Fits
  <2> QED BY <2>1, <2>2, <2>3, <2>4, <2>5, StrippedFileGood
<1> QED BY <1>1, SafeInit, SafeStep, PTL DEF Spec
----------------------------------------------------------------------------
(* What the variables remember *)

Memory ==
    /\ image \in Inputs
    /\ der \in Ders
    /\ pc = "parse" => pe = InvalidPe
    /\ pc \in {"parse", "open"} => ~opened
    /\ pc \notin {"parse", "open", "failed"} => opened
    /\ opened => pe # InvalidPe
    /\ pe # InvalidPe => HeadersValid(image) /\ pe = parse_pe(image)
    /\ ~opened => output = Stale
    /\ pc \notin {"parse", "open", "failed"} /\ op = "remove" => pe.sigpos > 0
    /\ pc \in {"write_checksum", "done"} =>
           checksum = pe_calc_checksum(Unsummed(image, der), pe.checksum_offset)

LEMMA MemoryInit == ASSUME Source # Target PROVE Init => Memory
<1> SUFFICES ASSUME Init PROVE Memory
  OBVIOUS
<1>1. output = Stale
  BY DEF Init, output, Paths
<1> QED BY <1>1 DEF Init, Memory

\* A step after the parser's leaves alone what the memory is about.
LEMMA MemoryKept ==
    ASSUME Memory, UNCHANGED << op, der, pe, image, opened >>,
           opened \/ output' = output,
           pc \notin {"parse", "open"}, pc # "failed",
           pc' \notin {"parse", "open"},
           pc' \in {"write_checksum", "done"} =>
               pc \in {"write_checksum", "done"} /\ checksum' = checksum
    PROVE  Memory'
<1>1. Unsummed(image, der)' = Unsummed(image, der)
  BY DEF Unsummed
<1> QED BY <1>1 DEF Memory

LEMMA MemoryStep ==
    ASSUME Source # Target, ~Meddling
    PROVE  SafeInv /\ Memory /\ [Next]_vars => Memory'
<1> SUFFICES ASSUME SafeInv, Memory, [Next]_vars PROVE Memory'
  OBVIOUS
<1>1. image \in Seq(Byte) /\ disk[Source] = image
  BY DEF SafeInv, TypeInv, TypeOK
<1>2. CASE Parse
  <2>1. HeadersValid(image)
    BY <1>1, <1>2 DEF Parse, parse_pe, InvalidPe
  <2>2. parse_pe(image) # InvalidPe
    BY <1>1, <2>1, ParsedFields
  <2>3. pc = "parse" /\ pc' = "open" /\ image' = image /\ pe' = parse_pe(image)
        /\ der' = der /\ opened' = opened /\ output' = output
    BY <1>1, <1>2 DEF Parse, output
  <2> QED BY <2>1, <2>2, <2>3 DEF Memory
<1>3. CASE ParseRejects
  BY <1>3 DEF ParseRejects, Memory, output
<1>4. CASE OpenOutput
  <2>1. pc = "open" /\ UNCHANGED << op, der, pe, image >> /\ opened'
        /\ pc' = IF op = "remove" /\ pe.sigpos = 0 THEN "failed" ELSE "copy"
    BY <1>4 DEF OpenOutput
  <2>2. HeadersValid(image) /\ pe = parse_pe(image)
    BY <2>1 DEF SafeInv, TypeInv
  <2>3. pe # InvalidPe /\ pe.sigpos \in U32s
    BY <1>1, <2>2, ParsedFields, ParsedType
  <2>4. pe.sigpos # 0 => pe.sigpos > 0
    BY <2>3, WordType DEF U32s
  <2> QED BY <2>1, <2>2, <2>3, <2>4 DEF Memory
<1>5. CASE CopyChunk
  BY <1>5, MemoryKept DEF CopyChunk, PerformWrite, Memory
<1>6. CASE CopyEnds
  BY <1>6, MemoryKept DEF CopyEnds, Memory
<1>7. CASE ZeroChecksum
  BY <1>7, MemoryKept DEF ZeroChecksum, PerformWrite, Memory
<1>8. CASE ZeroCertTable
  BY <1>8, MemoryKept DEF ZeroCertTable, PerformWrite, Memory
<1>9. CASE Pad
  BY <1>9, MemoryKept DEF Pad, PerformWrite, Memory
<1>10. CASE AppendCert
  BY <1>10, MemoryKept DEF AppendCert, PerformWrite, Memory
<1>11. CASE UpdateDir
  BY <1>11, MemoryKept DEF UpdateDir, PerformWrite, Memory
<1>12. CASE CalcChecksum
  <2>1. /\ pc = "calc_checksum" /\ pc' = "write_checksum"
        /\ UNCHANGED << op, der, pe, image, opened >>
        /\ checksum' = pe_calc_checksum(output, pe.checksum_offset)
    BY <1>12 DEF CalcChecksum
  <2>2. output = Unsummed(image, der) /\ Unsummed(image, der)' = Unsummed(image, der)
    BY <2>1 DEF SafeInv, Stages, Unsummed
  <2> QED BY <2>1, <2>2 DEF Memory
<1>13. CASE WriteChecksum
  BY <1>13, MemoryKept DEF WriteChecksum, PerformWrite, Memory
<1>14. CASE Fails
  BY <1>14 DEF Fails, Finished, Memory, output
<1>15. CASE TornWrite
  <2>1. pc' = "failed" /\ UNCHANGED << op, der, pe, image, opened >>
    BY <1>15 DEF TornWrite
  <2>2. opened
    <3>1. PICK k \in 1 .. Len(Pending.bytes) - 1 : TRUE
      BY <1>15 DEF TornWrite
    <3>2. Pending.bytes # << >>
      BY <3>1
    <3>3. pc \notin {"parse", "open", "failed"}
      BY <3>2 DEF Pending
    <3> QED BY <3>3 DEF Memory
  <2> QED BY <2>1, <2>2 DEF Memory
<1>16. CASE Meddle
  BY <1>16 DEF Meddle
<1>17. CASE UNCHANGED vars
  <2>1. output' = output /\ Unsummed(image, der)' = Unsummed(image, der)
    BY <1>17 DEF vars, output, Unsummed
  <2> QED BY <1>17, <2>1 DEF vars, Memory
<1> QED BY <1>2, <1>3, <1>4, <1>5, <1>6, <1>7, <1>8, <1>9, <1>10, <1>11, <1>12,
           <1>13, <1>14, <1>15, <1>16, <1>17 DEF Next, Step

Inv == SafeInv /\ Memory

LEMMA InvStep ==
    ASSUME Source # Target, ~Meddling
    PROVE  (Init => Inv) /\ (Inv /\ [Next]_vars => Inv')
  BY SafeInit, SafeStep, MemoryInit, MemoryStep DEF Inv
----------------------------------------------------------------------------
(* The checksum, and a later signing *)

LEMMA FourBytes == \A s \in Seq(Byte) : Len(s) = 4 => s # << >>
  OBVIOUS

\* What is stored is long enough to hold the field.
LEMMA UnsummedType ==
    ASSUME NEW f \in Seq(Byte), HeadersValid(f), NEW d \in Seq(Byte)
    PROVE  /\ Unsummed(f, d) \in Seq(Byte)
           /\ checksum_offset(f) + 4 <= Len(Unsummed(f, d))
<1> DEFINE C == checksum_offset(f)
           T == cert_table_offset(f)
           q == parse_pe(f)
           y == ZeroedChecksum(f, q)
           z == Zeroed(f, q)
           e == Certified(f, q, d)
<1>1. /\ q.checksum_offset = C /\ q.cert_table_offset = T
      /\ data_end(q) \in Nat /\ C \in Nat /\ T \in Nat
  BY ParsedFields, ParsedType, Offsets
<1>2. /\ Zeros(4) \in Seq(Byte) /\ Len(Zeros(4)) = 4 /\ Zeros(4) # << >>
      /\ Zeros(8) \in Seq(Byte)
  <2>1. 4 \in Nat /\ 8 \in Nat
    OBVIOUS
  <2>2. Zeros(4) \in Seq(Byte) /\ Len(Zeros(4)) = 4 /\ Zeros(8) \in Seq(Byte)
    BY <2>1, ZerosType, Zenon
  <2>3. Zeros(4) # << >>
    BY <2>2, FourBytes, Zenon
  <2> QED BY <2>2, <2>3
<1>3. Copied(f, q) \in Seq(Byte)
  <2>1. 0 \in Nat
    OBVIOUS
  <2> QED BY <1>1, <2>1, BytesType, Zenon DEF Copied
<1>4. y \in Seq(Byte) /\ C + 4 <= Len(y)
  <2>1. y = write_at(Copied(f, q), C, Zeros(4))
    BY <1>1 DEF ZeroedChecksum
  <2>2. write_at(Copied(f, q), C, Zeros(4)) \in Seq(Byte)
    BY <1>1, <1>2, <1>3, WriteAtType, Zenon
  <2>3. Len(write_at(Copied(f, q), C, Zeros(4))) >= C + Len(Zeros(4))
    BY <1>1, <1>2, <1>3, WriteAtGrows, Zenon
  <2> HIDE DEF y, C, q
  <2> QED BY <1>1, <1>2, <2>1, <2>2, <2>3
<1>5. z \in Seq(Byte) /\ Len(y) <= Len(z)
  <2>1. z = write_at(y, T, Zeros(8))
    BY <1>1 DEF Zeroed
  <2> HIDE DEF y, z, T
  <2>2. write_at(y, T, Zeros(8)) \in Seq(Byte)
        /\ Len(write_at(y, T, Zeros(8))) >= Len(y)
    BY <1>1, <1>2, <1>4, WriteAtType, WriteAtGrows, Zenon
  <2> QED BY <1>4, <2>1, <2>2
<1>6. e \in Seq(Byte) /\ Len(z) <= Len(e)
  <2> DEFINE p == Zeros(PadLen(Len(z)))
             w == WinCertificate(d)
  <2>1. e = (z \o p) \o w
    BY DEF Certified, Padded
  <2>2. p \in Seq(Byte)
    BY <1>5, PadLenNat, ZerosType
  <2>3. w \in Seq(Byte)
    BY CertShape
  <2> HIDE DEF p, w, z, e
  <2> QED BY <1>5, <2>1, <2>2, <2>3
<1>7. Directed(f, q, d) \in Seq(Byte) /\ Len(e) <= Len(Directed(f, q, d))
  <2> DEFINE b == DirEntry(f, q, d)
  <2>1. b \in Seq(Byte)
    <3>1. Len(Padded(f, q)) % Word \in Nat
      <4>1. Padded(f, q) = z \o Zeros(PadLen(Len(z)))
        BY DEF Padded
      <4>2. Zeros(PadLen(Len(z))) \in Seq(Byte)
        BY <1>5, PadLenNat, ZerosType
      <4> HIDE DEF z
      <4>3. Len(Padded(f, q)) \in Nat
        BY <1>5, <4>1, <4>2
      <4>4. Word \in Nat \ {0}
        BY WordType
      <4> QED BY <4>3, <4>4, DivMod
    <3>2. CertLen(d) \in Nat
      BY CertLenType
    <3> QED BY <3>1, <3>2, PutsType DEF DirEntry
  <2>2. Directed(f, q, d) = write_at(e, T, b)
    BY <1>1 DEF Directed
  <2> HIDE DEF b, e, T
  <2>3. write_at(e, T, b) \in Seq(Byte) /\ Len(write_at(e, T, b)) >= Len(e)
    BY <1>1, <1>6, <2>1, WriteAtType, WriteAtGrows, Zenon
  <2> QED BY <1>6, <2>2, <2>3
<1>8. Unsummed(f, d) \in {z, Directed(f, q, d)}
  BY DEF Unsummed
<1> HIDE DEF C, T, q, y, z, e
<1>9. /\ Len(y) \in Nat /\ Len(z) \in Nat /\ Len(e) \in Nat
      /\ Len(Directed(f, q, d)) \in Nat
  BY <1>4, <1>5, <1>6, <1>7
<1>10. Unsummed(f, d) \in Seq(Byte) /\ C + 4 <= Len(Unsummed(f, d))
  BY <1>1, <1>4, <1>5, <1>6, <1>7, <1>8, <1>9
<1> QED BY <1>10 DEF C

\* The checksum stored in an output reported as done is the checksum of that
\* output, for every input whose headers are valid and whose checksum field is
\* word-aligned, however long it is.
THEOREM StoredChecksumIsFinal ==
    ASSUME Source # Target, ~Meddling
    PROVE  Spec => []ChecksumFinal
<1>1. Inv => ChecksumFinal
  <2>1. SUFFICES ASSUME Inv, pc = "done", pe.checksum_offset % 2 = 0
                 PROVE  read_u32(output, pe.checksum_offset)
                            = pe_calc_checksum(output, pe.checksum_offset)
    BY DEF ChecksumFinal
  <2> DEFINE g == Unsummed(image, der)
             C == pe.checksum_offset
  <2>2. /\ image \in Seq(Byte) /\ der \in Seq(Byte)
        /\ HeadersValid(image) /\ pe = parse_pe(image)
    BY <2>1 DEF Inv, SafeInv, TypeInv, TypeOK
  <2>3. C = checksum_offset(image) /\ C \in Nat
    BY <2>2, ParsedFields, Offsets
  <2>4. g \in Seq(Byte) /\ C + 4 <= Len(g)
    BY <2>2, <2>3, UnsummedType
  <2>5. output = write_at(g, C, Put32(pe_calc_checksum(g, C)))
    BY <2>1 DEF Inv, SafeInv, Stages, Memory
  <2>6. C % 2 = 0
    BY <2>1
  <2> HIDE DEF g, C
  <2>7. LET s == write_at(g, C, Put32(pe_calc_checksum(g, C)))
        IN  read_u32(s, C) = pe_calc_checksum(s, C)
    BY <2>3, <2>4, <2>6, ChecksumStored
  <2>8. read_u32(output, C) = pe_calc_checksum(output, C)
    BY <2>5, <2>7
  <2> QED BY <2>8 DEF C
<1> QED BY <1>1, InvStep, PTL DEF Spec

\* An output reported as done is the input rewritten, with some checksum.
DoneIs ==
    pc = "done" =>
        \E b \in Seq(Byte) :
            /\ Len(b) = 4
            /\ output = IF op = "sign" THEN SignedFile(image, der, b)
                        ELSE UnsignedFile(image, b)

LEMMA DoneOutput == Inv => DoneIs
<1> SUFFICES ASSUME Inv, pc = "done"
             PROVE  \E b \in Seq(Byte) :
                        /\ Len(b) = 4
                        /\ output = IF op = "sign" THEN SignedFile(image, der, b)
                                    ELSE UnsignedFile(image, b)
  BY DEF DoneIs
<1>1. pe = parse_pe(image) /\ checksum \in Nat
  BY WordType DEF Inv, SafeInv, TypeInv, TypeOK, U32s
<1>2. Put32(checksum) \in Seq(Byte) /\ Len(Put32(checksum)) = 4
  BY <1>1, Put32Type
<1>3. output = IF op = "sign" THEN SignedFile(image, der, Put32(checksum))
               ELSE UnsignedFile(image, Put32(checksum))
  BY <1>1 DEF Inv, SafeInv, Stages, Unsummed, SignedFile, UnsignedFile
<1> QED BY <1>2, <1>3

LEMMA DoneNext == Inv' => DoneIs'
  BY DoneOutput, PTL

\* Signing an output again with any blob gives, byte for byte, what signing the
\* original input with that blob gives: neither the signature nor the padding
\* nor the checksum of the first run is left behind.
THEOREM ResigningIsForgetful ==
    ASSUME Source # Target, ~Meddling
    PROVE  Spec => []ResigningForgets
<1>1. Inv => ResigningForgets
  <2>1. SUFFICES ASSUME Inv, pc = "done", WellFormed(image), Fits(image, der), NEW d
                 PROVE  write_signed_pe_to(output, parse_pe(output), d)
                            = write_signed_pe_to(image, pe, d)
    BY DEF ResigningForgets
  <2>2. pe = parse_pe(image) /\ der \in Seq(Byte)
    BY <2>1 DEF Inv, SafeInv, TypeInv, TypeOK
  <2>3. Len(image) < Word
    BY <2>1, <2>2, Sizes
  <2>4. PICK b \in Seq(Byte) :
                 /\ Len(b) = 4
                 /\ output = IF op = "sign" THEN SignedFile(image, der, b)
                             ELSE UnsignedFile(image, b)
    BY <2>1, DoneOutput DEF DoneIs
  <2>5. CASE op = "sign"
    BY <2>1, <2>2, <2>4, <2>5, ResignedFileSame
  <2>6. CASE op # "sign"
    BY <2>1, <2>2, <2>3, <2>4, <2>6, StrippedFileSame
  <2> QED BY <2>5, <2>6
<1> QED BY <1>1, InvStep, PTL DEF Spec
----------------------------------------------------------------------------
(* Writes that are cut short *)

\* The beginning of what a step is about to write, or all of it.
BeginsWith(t, s) ==
    /\ s \in Seq(Byte)
    /\ Len(s) <= Len(t)
    /\ \A i \in 1 .. Len(s) : s[i] = t[i]

\* NoTornSignature, said of the image f, the operation o, the blob d and what
\* is at the output path, g.
Whole(f, o, d, g) ==
    LET out == parse_pe(g)
    IN  \/ /\ o = "sign"
           /\ extract_signature(g, out) = Signature(PaddedDer(d))
           /\ authenticode_digest(g, out) = authenticode_digest(f, parse_pe(f))
        \/ g = Bytes(f, 0, Len(g))
        \/ \E k \in 1 .. 3 : g = write_at(ZeroedChecksum(f, parse_pe(f)),
                                          parse_pe(f).cert_table_offset, Zeros(k))

NeverTorn(f, o, d, g) ==
    WellFormed(f) /\ Fits(f, d) /\ parse_pe(g).ok /\ parse_pe(g).sigpos > 0
        => Whole(f, o, d, g)

LEMMA SelfBegins ==
    ASSUME NEW t \in Seq(Byte), NEW k \in 0 .. Len(t)
    PROVE  BeginsWith(t, SubSeq(t, 1, k)) /\ BeginsWith(t, t)
  BY DEF BeginsWith

\* A chunk, or its beginning, continues a copy.
LEMMA CopyTorn ==
    ASSUME NEW f \in Seq(Byte), NEW c \in Nat, NEW e \in Nat, c <= e, e <= Len(f),
           NEW s, BeginsWith(Bytes(f, c, e), s)
    PROVE  LET g == write_at(Bytes(f, 0, c), c, s)
           IN  g = Bytes(f, 0, Len(g))
<1> DEFINE a == Bytes(f, 0, c)
           t == Bytes(f, c, e)
           n == Len(s)
           g == a \o s
<1>1. a \in Seq(Byte) /\ Len(a) = c
  <2>1. 0 \in Nat /\ 0 <= c /\ c <= Len(f)
    OBVIOUS
  <2>2. Bytes(f, 0, c) \in Seq(Byte) /\ Len(Bytes(f, 0, c)) = c - 0
    BY <2>1, BytesWithin, Zenon
  <2> QED BY <2>2
<1>2. t \in Seq(Byte) /\ Len(t) = e - c /\ \A i \in 1 .. e - c : t[i] = f[c + i]
  BY BytesWithin, Zenon
<1>3. s \in Seq(Byte) /\ n \in Nat /\ n <= e - c /\ \A i \in 1 .. n : s[i] = f[c + i]
  <2> HIDE DEF t
  <2>1. BeginsWith(t, s)
    BY DEF t
  <2> QED BY <1>2, <2>1 DEF BeginsWith
<1>4. s = Bytes(f, c, c + n)
  <2>1. c + n \in Nat /\ c <= c + n /\ c + n <= Len(f)
    BY <1>3
  <2>2. /\ Bytes(f, c, c + n) \in Seq(Byte)
        /\ Len(Bytes(f, c, c + n)) = (c + n) - c
        /\ \A i \in 1 .. (c + n) - c : Bytes(f, c, c + n)[i] = f[c + i]
    BY <2>1, BytesWithin, Zenon
  <2> DEFINE x == Bytes(f, c, c + n)
  <2> HIDE DEF x, n
  <2>3. x \in Seq(Byte) /\ Len(x) = n /\ \A i \in 1 .. n : x[i] = f[c + i]
    BY <1>3, <2>2 DEF x
  <2>4. Len(s) = n
    BY DEF n
  <2>5. s = x
    BY <1>3, <2>3, <2>4, SeqEqual
  <2> QED BY <2>5 DEF x
<1>5. g = Bytes(f, 0, c + n)
  <2>1. 0 \in Nat /\ 0 <= c /\ c \in Nat /\ c + n \in Nat /\ c <= c + n
        /\ c + n <= Len(f)
    BY <1>3
  <2>2. Bytes(f, 0, c) \o Bytes(f, c, c + n) = Bytes(f, 0, c + n)
    BY <2>1, BytesJoin, Zenon
  <2> QED BY <1>4, <2>2, Zenon
<1>6. write_at(a, c, s) = g
  <2>1. write_at(a, Len(a), s) = a \o s
    BY <1>1, <1>3, WriteAtEnd, Zenon
  <2> QED BY <1>1, <2>1, Zenon
<1>7. Len(g) = c + n
  <2>1. Len(a \o s) = Len(a) + Len(s)
    BY <1>1, <1>3, ConcatType, Zenon
  <2> QED BY <1>1, <2>1, Zenon
<1> QED BY <1>5, <1>6, <1>7, Zenon

LEMMA BeginsZeros ==
    ASSUME NEW s, BeginsWith(Zeros(8), s)
    PROVE  s \in Seq(Byte) /\ Len(s) \in 0 .. 8 /\ \A i \in 1 .. Len(s) : s[i] = 0
<1> DEFINE z == Zeros(8)
<1>1. z \in Seq(Byte) /\ Len(z) = 8 /\ \A i \in 1 .. 8 : z[i] = 0
  <2>1. 8 \in Nat
    OBVIOUS
  <2> QED BY <2>1, ZerosType, Zenon
<1> HIDE DEF z
<1>2. BeginsWith(z, s)
  BY DEF z
<1>3. s \in Seq(Byte) /\ Len(s) <= Len(z) /\ \A i \in 1 .. Len(s) : s[i] = z[i]
  BY <1>2, Zenon DEF BeginsWith
<1> DEFINE n == Len(s)
<1>4. n \in Nat
  BY <1>3
<1> HIDE DEF n
<1>5. n <= 8 /\ \A i \in 1 .. n : s[i] = z[i]
  BY <1>1, <1>3, Zenon DEF n
<1>6. n \in 0 .. 8 /\ \A i \in 1 .. n : i \in 1 .. 8
  BY <1>4, <1>5
<1>7. \A i \in 1 .. n : s[i] = 0
  BY <1>1, <1>5, <1>6, Zenon
<1> QED BY <1>3, <1>6, <1>7, Zenon DEF n

LEMMA BeginsHow == \A n \in 0 .. 8 : n = 0 \/ n \in 1 .. 3 \/ n >= 4
  OBVIOUS

LEMMA EntryTorn ==
    ASSUME NEW f, WellFormed(f), NEW d \in Seq(Byte), Fits(f, d), NEW o,
           NEW s, BeginsWith(Zeros(8), s)
    PROVE  NeverTorn(f, o, d, write_at(ZeroedChecksum(f, parse_pe(f)),
                                       cert_table_offset(f), s))
<1> DEFINE q == parse_pe(f)
           y == ZeroedChecksum(f, q)
           T == cert_table_offset(f)
           g == write_at(y, T, s)
<1>1. Len(f) < Word /\ f \in Seq(Byte) /\ HeadersValid(f)
  BY Sizes, DataEnd
<1>2. s \in Seq(Byte) /\ Len(s) \in 0 .. 8 /\ \A i \in 1 .. Len(s) : s[i] = 0
  BY BeginsZeros
<1>3. CASE Len(s) = 0
  <2>1. s = << >>
    BY <1>2, <1>3
  <2>2. g = y
    BY <2>1 DEF write_at
  <2>3. Zeros(4) \in Seq(Byte) /\ Len(Zeros(4)) <= 4
    BY ZerosType
  <2>4. parse_pe(write_at(Copied(f, q), checksum_offset(f), Zeros(4))).sigpos = 0
    BY <1>1, <2>3, ChecksumCutShort
  <2>5. y = write_at(Copied(f, q), checksum_offset(f), Zeros(4))
    BY <1>1, ParsedFields DEF ZeroedChecksum
  <2> HIDE DEF q, y, T, g
  <2>6. parse_pe(g).sigpos = 0
    BY <2>2, <2>4, <2>5, Zenon
  <2>7. NeverTorn(f, o, d, g)
    BY <2>6 DEF NeverTorn
  <2> QED BY <2>7 DEF q, y, T, g
<1>4. CASE Len(s) \in 1 .. 3
  <2>1. s = Zeros(Len(s))
    <3>1. /\ Zeros(Len(s)) \in Seq(Byte) /\ Len(Zeros(Len(s))) = Len(s)
          /\ \A i \in 1 .. Len(s) : Zeros(Len(s))[i] = 0
      BY <1>2, ZerosType
    <3> DEFINE z == Zeros(Len(s))
    <3> HIDE DEF z
    <3>2. s = z
      BY <1>2, <3>1, SeqEqual DEF z
    <3> QED BY <3>2 DEF z
  <2>2. q.cert_table_offset = T
    BY <1>1, ParsedFields
  <2>3. \E k \in 1 .. 3 : g = write_at(y, q.cert_table_offset, Zeros(k))
    BY <1>4, <2>1, <2>2, Zenon
  <2>4. Whole(f, o, d, g)
    BY <2>3, Zenon DEF Whole
  <2> QED BY <2>4, Zenon DEF NeverTorn
<1>5. CASE Len(s) >= 4
  <2>1. 4 <= Len(s) /\ Len(s) <= 8
    <3> DEFINE n == Len(s)
    <3> HIDE DEF n
    <3>1. n \in 0 .. 8 /\ n >= 4
      BY <1>2, <1>5, Zenon DEF n
    <3>2. 4 <= n /\ n <= 8
      BY <3>1
    <3> QED BY <3>2 DEF n
  <2>2. parse_pe(g).sigpos = 0
    BY <1>1, <1>2, <2>1, EntryCleared
  <2> HIDE DEF g
  <2>3. NeverTorn(f, o, d, g)
    BY <2>2 DEF NeverTorn
  <2> QED BY <2>3 DEF g
<1>6. Len(s) = 0 \/ Len(s) \in 1 .. 3 \/ Len(s) >= 4
  BY <1>2, BeginsHow, Zenon
<1> QED BY <1>3, <1>4, <1>5, <1>6, Zenon

\* A signed file with any checksum is whole.
LEMMA SignedWhole ==
    ASSUME NEW f, WellFormed(f), NEW d \in Seq(Byte), Fits(f, d),
           NEW b \in Seq(Byte), Len(b) = 4
    PROVE  NeverTorn(f, "sign", d, SignedFile(f, d, b))
<1> DEFINE g == SignedFile(f, d, b)
<1>1. /\ authenticode_digest(g, parse_pe(g)) = authenticode_digest(f, parse_pe(f))
      /\ extract_signature(g, parse_pe(g)) = Signature(PaddedDer(d))
  BY SignedFileGood
<1> HIDE DEF g
<1>2. Whole(f, "sign", d, g)
  BY <1>1, Zenon DEF Whole
<1>3. NeverTorn(f, "sign", d, g)
  BY <1>2, Zenon DEF NeverTorn
<1> QED BY <1>3 DEF g

LEMMA DirEntryLen ==
    ASSUME NEW f, NEW q, Padded(f, q) \in Seq(Byte), NEW d \in Seq(Byte)
    PROVE  DirEntry(f, q, d) \in Seq(Byte) /\ Len(DirEntry(f, q, d)) = 8
<1>1. Len(Padded(f, q)) % Word \in Nat
  <2>1. Len(Padded(f, q)) \in Nat /\ Word \in Nat \ {0}
    BY WordType
  <2> QED BY <2>1, DivMod
<1>2. CertLen(d) \in Nat
  BY CertLenType
<1> DEFINE a == Put32(Len(Padded(f, q)) % Word)
           b == Put32(CertLen(d))
<1>3. a \in Seq(Byte) /\ Len(a) = 4 /\ b \in Seq(Byte) /\ Len(b) = 4
  BY <1>1, <1>2, Put32Type
<1> HIDE DEF a, b
<1>4. a \o b \in Seq(Byte) /\ Len(a \o b) = Len(a) + Len(b)
  BY <1>3, ConcatType, Zenon
<1>5. Len(a \o b) = 8
  BY <1>3, <1>4
<1> QED BY <1>4, <1>5 DEF DirEntry, a, b

LEMMA DirectedIsSigned ==
    ASSUME NEW f, WellFormed(f), Len(f) < Word, NEW d \in Seq(Byte)
    PROVE  \E b \in Seq(Byte) :
               Len(b) = 4 /\ Directed(f, parse_pe(f), d) = SignedFile(f, d, b)
<1> DEFINE s == << >>
           g == Directed(f, parse_pe(f), d)
<1>1. s \in Seq(Byte) /\ Len(s) <= 4
  OBVIOUS
<1>2. \E b \in Seq(Byte) :
          Len(b) = 4 /\ write_at(g, checksum_offset(f), s) = SignedFile(f, d, b)
  BY <1>1, SumCutShort
<1>3. write_at(g, checksum_offset(f), s) = g
  BY Zenon DEF write_at
<1> QED BY <1>2, <1>3, Zenon

\* Zero bytes and more after the cleared image: nothing looks signed.
LEMMA NotYetSigned ==
    ASSUME NEW f, WellFormed(f), NEW d \in Seq(Byte), Fits(f, d), NEW o,
           NEW t \in Seq(Byte), Len(t) < PadLen(data_end(parse_pe(f))) + CertLen(d) + 1
    PROVE  LET g == Zeroed(f, parse_pe(f)) \o t
           IN  parse_pe(g).sigpos = 0 /\ NeverTorn(f, o, d, g)
<1> DEFINE n == data_end(parse_pe(f))
           g == Zeroed(f, parse_pe(f)) \o t
<1>1. Len(f) < Word /\ n + PadLen(n) + CertLen(d) < Word
  BY Sizes
<1>2. n \in Nat /\ PadLen(n) \in Nat /\ CertLen(d) \in Nat /\ Word \in Nat
  BY <1>1, DataEnd, PadLenNat, CertLenType, WordType
<1>3. n + Len(t) < Word
  <2> DEFINE l == Len(t)
             p == PadLen(n)
  <2>1. l \in Nat /\ l < p + CertLen(d) + 1
    OBVIOUS
  <2> HIDE DEF l, p, n
  <2>2. n + l < Word
    BY <1>1, <1>2, <2>1 DEF p
  <2> QED BY <2>2 DEF l
<1>4. parse_pe(g).sigpos = 0
  BY <1>1, <1>3, Unfinished
<1> HIDE DEF g
<1>5. NeverTorn(f, o, d, g)
  BY <1>4 DEF NeverTorn
<1> QED BY <1>4, <1>5, Zenon DEF g

WriteStages == {"copy", "zero_checksum", "zero_cert_table", "pad", "append",
                "update_dir", "write_checksum"}

\* Whatever part of a write reaches the file.
LEMMA WriteNeverTorn ==
    ASSUME Inv, pc \in WriteStages, WellFormed(image), Fits(image, der),
           NEW s, BeginsWith(Pending.bytes, s)
    PROVE  NeverTorn(image, op, der, write_at(output, Pending.at, s))
<1> DEFINE n == data_end(pe)
           z == Zeroed(image, pe)
           pad == Zeros(PadLen(Len(z)))
<1>1. /\ image \in Seq(Byte) /\ der \in Seq(Byte) /\ pe = parse_pe(image)
      /\ HeadersValid(image) /\ Len(image) < Word
  <2>1. /\ image \in Seq(Byte) /\ der \in Seq(Byte) /\ pe = parse_pe(image)
        /\ HeadersValid(image)
    BY DEF Inv, SafeInv, TypeInv, TypeOK, WriteStages
  <2> QED BY <2>1, Sizes
<1>2. /\ pe.checksum_offset = checksum_offset(image)
      /\ pe.cert_table_offset = cert_table_offset(image)
      /\ n \in Nat /\ n <= Len(image)
  BY <1>1, ParsedFields, ParsedType
<1>3. Stages
  BY DEF Inv, SafeInv
<1>4. s \in Seq(Byte) /\ Len(s) <= Len(Pending.bytes)
  BY Zenon DEF BeginsWith
<1>5. z \in Seq(Byte) /\ Len(z) = n
  BY <1>1, ZeroedShape
<1>6. pad \in Seq(Byte) /\ Len(pad) = PadLen(n) /\ PadLen(n) \in Nat
  <2>1. PadLen(n) \in Nat
    BY <1>2, PadLenNat, Zenon
  <2>2. Zeros(PadLen(n)) \in Seq(Byte) /\ Len(Zeros(PadLen(n))) = PadLen(n)
    BY <2>1, ZerosType, Zenon
  <2> QED BY <1>5, <2>1, <2>2, Zenon
<1>7. CASE pc = "copy"
  <2> DEFINE upto == IF copied + Buf < data_end(pe) THEN copied + Buf ELSE data_end(pe)
  <2>1. copied \in Nat /\ Buf \in Nat /\ copied <= n /\ output = Bytes(image, 0, copied)
        /\ disk[Source] = image
    BY <1>3, <1>7, InputsAssumption DEF Inv, SafeInv, Stages, TypeInv, TypeOK
  <2>2. upto \in Nat /\ copied <= upto /\ upto <= Len(image)
    <3> HIDE DEF n
    <3>1. upto = IF copied + Buf < n THEN copied + Buf ELSE n
      BY DEF n
    <3> HIDE DEF upto
    <3>2. Len(image) \in Nat
      BY <1>1
    <3> QED BY <1>2, <2>1, <3>1, <3>2
  <2>3. Pending.at = copied /\ Pending.bytes = Bytes(image, copied, upto)
    BY <1>7, <2>1 DEF Pending, chunk
  <2> HIDE DEF upto
  <2>4. BeginsWith(Bytes(image, copied, upto), s)
    BY <2>3, Zenon
  <2> DEFINE g == write_at(Bytes(image, 0, copied), copied, s)
  <2>5. g = Bytes(image, 0, Len(g))
    <3>1. /\ image \in Seq(Byte) /\ copied \in Nat /\ upto \in Nat
          /\ copied <= upto /\ upto <= Len(image)
      BY <1>1, <2>1, <2>2
    <3> QED BY <2>4, <3>1, CopyTorn, Zenon
  <2>6. Whole(image, op, der, g)
    BY <2>5, Zenon DEF Whole
  <2>7. NeverTorn(image, op, der, g)
    BY <2>6, Zenon DEF NeverTorn
  <2> QED BY <2>1, <2>3, <2>7, Zenon
<1>8. CASE pc = "zero_checksum"
  <2>1. /\ Pending.at = checksum_offset(image)
        /\ Pending.bytes = Zeros(4)
        /\ output = Copied(image, parse_pe(image))
    BY <1>1, <1>2, <1>3, <1>8 DEF Pending, Stages
  <2>2. Len(s) <= 4
    <3>1. Len(Zeros(4)) = 4
      BY ZerosType
    <3> QED BY <1>4, <2>1, <3>1, Zenon
  <2> DEFINE g == write_at(Copied(image, parse_pe(image)), checksum_offset(image), s)
  <2>3. parse_pe(g).sigpos = 0
    BY <1>1, <1>4, <2>2, ChecksumCutShort
  <2> HIDE DEF g
  <2>4. NeverTorn(image, op, der, g)
    BY <2>3 DEF NeverTorn
  <2> QED BY <2>1, <2>4, Zenon DEF g
<1>9. CASE pc = "zero_cert_table"
  <2>1. /\ Pending.at = cert_table_offset(image)
        /\ Pending.bytes = Zeros(8)
        /\ output = ZeroedChecksum(image, parse_pe(image))
    BY <1>1, <1>2, <1>3, <1>9 DEF Pending, Stages
  <2>2. BeginsWith(Zeros(8), s)
    BY <2>1, Zenon
  <2> QED BY <1>1, <2>1, <2>2, EntryTorn, Zenon
<1>10. CASE pc = "pad"
  <2>1. /\ Pending.at = Len(output) /\ Pending.bytes = pad
        /\ output = z
    BY <1>3, <1>10 DEF Pending, Stages
  <2>2. write_at(z, Len(z), s) = z \o s
    BY <1>4, <1>5, WriteAtEnd, Zenon
  <2>3. Len(s) < PadLen(n) + CertLen(der) + 1
    <3>1. CertLen(der) \in Nat
      BY <1>1, CertLenType
    <3>2. Len(s) <= PadLen(n) /\ Len(s) \in Nat
      BY <1>4, <1>6, <2>1
    <3> HIDE DEF n
    <3> DEFINE l == Len(s)
               p == PadLen(n)
               c == CertLen(der)
    <3>3. l <= p /\ l \in Nat /\ p \in Nat /\ c \in Nat
      BY <1>6, <3>1, <3>2
    <3> HIDE DEF l, p, c
    <3>4. l < p + c + 1
      BY <3>3
    <3> QED BY <3>4 DEF l, p, c
  <2>4. NeverTorn(image, op, der, Zeroed(image, parse_pe(image)) \o s)
    BY <1>1, <1>4, <2>3, NotYetSigned, Zenon
  <2> QED BY <1>1, <2>1, <2>2, <2>4, Zenon
<1>11. CASE pc = "append"
  <2>1. /\ Pending.at = Len(output) /\ Pending.bytes = WinCertificate(der)
        /\ output = z \o pad
    BY <1>3, <1>11 DEF Pending, Stages, Padded
  <2>2. write_at(z \o pad, Len(z \o pad), s) = (z \o pad) \o s
    <3>1. z \o pad \in Seq(Byte)
      BY <1>5, <1>6, ConcatType, Zenon
    <3> QED BY <1>4, <3>1, WriteAtEnd, Zenon
  <2>3. (z \o pad) \o s = z \o (pad \o s)
    <3> HIDE DEF z, pad
    <3> QED BY <1>4, <1>5, <1>6, SMTT(30)
  <2>4. pad \o s \in Seq(Byte) /\ Len(pad \o s) < PadLen(n) + CertLen(der) + 1
    <3>1. pad \o s \in Seq(Byte) /\ Len(pad \o s) = Len(pad) + Len(s)
      BY <1>4, <1>6, ConcatType, Zenon
    <3>2. CertLen(der) = Len(WinCertificate(der)) /\ CertLen(der) \in Nat
      BY <1>1, Sizes, CertShape, CertLenType
    <3>3. Len(s) <= CertLen(der) /\ Len(s) \in Nat
      BY <1>4, <2>1, <3>2
    <3> DEFINE l == Len(s)
               p == PadLen(n)
               c == CertLen(der)
               L == Len(pad \o s)
    <3>4. L = p + l /\ l <= c /\ l \in Nat /\ p \in Nat /\ c \in Nat
      BY <1>6, <3>1, <3>2, <3>3, Zenon
    <3> HIDE DEF l, p, c, L
    <3>5. L < p + c + 1
      BY <3>4
    <3> QED BY <3>1, <3>5, Zenon DEF l, p, c, L
  <2>5. NeverTorn(image, op, der, Zeroed(image, parse_pe(image)) \o (pad \o s))
    BY <1>1, <2>4, NotYetSigned, Zenon
  <2> QED BY <1>1, <2>1, <2>2, <2>3, <2>5, Zenon
<1>12. CASE pc = "update_dir"
  <2> DEFINE b == DirEntry(image, parse_pe(image), der)
             g == write_at(Certified(image, parse_pe(image), der),
                           cert_table_offset(image), s)
  <2>1. /\ Pending.at = cert_table_offset(image)
        /\ Pending.bytes = b
        /\ output = Certified(image, parse_pe(image), der)
        /\ op = "sign"
    BY <1>1, <1>2, <1>3, <1>12 DEF Pending, Stages, DirEntry
  <2>2. Len(s) <= 8 /\ \A i \in 1 .. Len(s) : s[i] = b[i]
    <3>1. Len(b) = 8
      BY <1>1, PaddedShape, DirEntryLen
    <3>2. Len(s) <= Len(b) /\ \A i \in 1 .. Len(s) : s[i] = b[i]
      BY <2>1, Zenon DEF BeginsWith
    <3> QED BY <3>1, <3>2, Zenon
  <2>3. parse_pe(g).sigpos > 0 => g = Directed(image, parse_pe(image), der)
    BY <1>1, <1>4, <2>2, EntryWritten
  <2>4. NeverTorn(image, "sign", der, Directed(image, parse_pe(image), der))
    BY <1>1, DirectedIsSigned, SignedWhole, Zenon
  <2> HIDE DEF g
  <2>5. NeverTorn(image, "sign", der, g)
    BY <2>3, <2>4, Zenon DEF NeverTorn
  <2> QED BY <2>1, <2>5, Zenon DEF g
<1>13. CASE pc = "write_checksum"
  <2>1. /\ Pending.at = checksum_offset(image)
        /\ Pending.bytes = Put32(checksum)
        /\ output = Unsummed(image, der)
    BY <1>2, <1>3, <1>13 DEF Pending, Stages
  <2>2. Len(s) <= 4
    <3>1. checksum \in Nat
      BY WordType DEF Inv, SafeInv, TypeInv, TypeOK, U32s
    <3>2. Len(Put32(checksum)) = 4
      BY <3>1, Put32Type
    <3> QED BY <1>4, <2>1, <3>2, Zenon
  <2>3. CASE op = "sign"
    <3>1. PICK b \in Seq(Byte) :
              /\ Len(b) = 4
              /\ write_at(Directed(image, parse_pe(image), der),
                          checksum_offset(image), s) = SignedFile(image, der, b)
      BY <1>1, <1>4, <2>2, SumCutShort, Zenon
    <3>2. output = Directed(image, parse_pe(image), der)
      BY <2>1, <2>3 DEF Unsummed
    <3>3. NeverTorn(image, op, der, SignedFile(image, der, b))
      BY <1>1, <2>3, <3>1, SignedWhole, Zenon
    <3> QED BY <2>1, <3>1, <3>2, <3>3, Zenon
  <2>4. CASE op # "sign"
    <3>1. PICK b \in Seq(Byte) :
              /\ Len(b) = 4
              /\ write_at(Zeroed(image, parse_pe(image)),
                          checksum_offset(image), s) = UnsignedFile(image, b)
      BY <1>1, <1>4, <2>2, SumCutShort, Zenon
    <3>2. output = Zeroed(image, parse_pe(image))
      BY <2>1, <2>4 DEF Unsummed
    <3> DEFINE g == UnsignedFile(image, b)
    <3>3. parse_pe(g).sigpos = 0
      BY <1>1, <3>1, StrippedFileGood
    <3> HIDE DEF g
    <3>4. NeverTorn(image, op, der, g)
      BY <3>3 DEF NeverTorn
    <3> QED BY <2>1, <3>1, <3>2, <3>4, Zenon DEF g
  <2> QED BY <2>3, <2>4, Zenon
<1> QED BY <1>7, <1>8, <1>9, <1>10, <1>11, <1>12, <1>13, Zenon DEF WriteStages

TornInv == opened => NeverTorn(image, op, der, output)

LEMMA TornStep ==
    ASSUME Source # Target, ~Meddling
    PROVE  Inv /\ TornInv /\ [Next]_vars => TornInv'
<1> SUFFICES ASSUME Inv, TornInv, [Next]_vars PROVE TornInv'
  OBVIOUS
<1>1. Target \in Paths /\ disk \in [Paths -> Seq(Byte)]
  BY DEF Inv, SafeInv, TypeInv, TypeOK, Paths
<1>2. ASSUME NEW s, disk' = [disk EXCEPT ![Target] = s] PROVE output' = s
  BY <1>1, <1>2 DEF output
<1>3. Pending.bytes \in Seq(Byte)
  BY PendingType DEF Inv, SafeInv
\* A write, whole or cut short.
<1>4. ASSUME NEW s, pc \in WriteStages, BeginsWith(Pending.bytes, s),
             disk' = [disk EXCEPT ![Target] = write_at(output, Pending.at, s)],
             UNCHANGED << image, op, der >>
      PROVE  TornInv'
  <2>1. NeverTorn(image, op, der, write_at(output, Pending.at, s))
    <3>1. CASE WellFormed(image) /\ Fits(image, der)
      BY <1>4, <3>1, WriteNeverTorn, Zenon
    <3>2. CASE ~(WellFormed(image) /\ Fits(image, der))
      BY <3>2, Zenon DEF NeverTorn
    <3> QED BY <3>1, <3>2, Zenon
  <2>2. output' = write_at(output, Pending.at, s)
    BY <1>2, <1>4, Zenon
  <2>3. NeverTorn(image', op', der', output')
    BY <1>4, <2>1, <2>2
  <2> QED BY <2>3 DEF TornInv
<1>5. ASSUME NEW from, NEW to, from \in WriteStages, PerformWrite(from, to),
             UNCHANGED << image, op, der >>
      PROVE  TornInv'
  <2>1. Len(Pending.bytes) \in 0 .. Len(Pending.bytes)
    BY <1>3
  <2>2. BeginsWith(Pending.bytes, Pending.bytes)
    BY <1>3, <2>1, SelfBegins, Zenon
  <2>3. pc \in WriteStages /\ disk' = [disk EXCEPT ![Target] =
                                           write_at(output, Pending.at, Pending.bytes)]
    BY <1>5, Zenon DEF PerformWrite, Written
  <2> QED BY <1>4, <1>5, <2>2, <2>3, Zenon
\* A step that leaves the output alone.
<1>6. ASSUME UNCHANGED << image, op, der, output, opened >> PROVE TornInv'
  BY <1>6 DEF TornInv
<1>7. CASE Parse
  BY <1>7 DEF Parse, TornInv, Inv, Memory
<1>8. CASE ParseRejects
  BY <1>6, <1>8 DEF ParseRejects, output
<1>9. CASE OpenOutput
  <2>1. output' = << >>
    BY <1>2, <1>9 DEF OpenOutput
  <2>2. image \in Seq(Byte) /\ image' = image /\ op' = op /\ der' = der
    BY <1>9 DEF OpenOutput, Inv, SafeInv, TypeInv, TypeOK
  <2>3. Bytes(image, 0, Len(<< >>)) = << >>
    BY <2>2 DEF Bytes
  <2>4. Whole(image, op, der, << >>)
    BY <2>3, Zenon DEF Whole
  <2>5. NeverTorn(image', op', der', output')
    BY <2>1, <2>2, <2>4, Zenon DEF NeverTorn
  <2> QED BY <2>5 DEF TornInv
<1>10. CASE CopyChunk
  BY <1>5, <1>10 DEF CopyChunk, WriteStages
<1>11. CASE CopyEnds
  BY <1>6, <1>11 DEF CopyEnds, output
<1>12. CASE ZeroChecksum
  BY <1>5, <1>12 DEF ZeroChecksum, WriteStages
<1>13. CASE ZeroCertTable
  BY <1>5, <1>13 DEF ZeroCertTable, WriteStages
<1>14. CASE Pad
  BY <1>5, <1>14 DEF Pad, WriteStages
<1>15. CASE AppendCert
  BY <1>5, <1>15 DEF AppendCert, WriteStages
<1>16. CASE UpdateDir
  BY <1>5, <1>16 DEF UpdateDir, WriteStages
<1>17. CASE CalcChecksum
  BY <1>6, <1>17 DEF CalcChecksum, output
<1>18. CASE WriteChecksum
  BY <1>5, <1>18 DEF WriteChecksum, WriteStages
<1>19. CASE Fails
  BY <1>6, <1>19 DEF Fails, output
<1>20. CASE TornWrite
  <2>1. PICK k \in 1 .. Len(Pending.bytes) - 1 :
            disk' = [disk EXCEPT ![Target] =
                        write_at(output, Pending.at, SubSeq(Pending.bytes, 1, k))]
    BY <1>20 DEF TornWrite
  <2>2. k \in 0 .. Len(Pending.bytes) /\ Pending.bytes # << >>
    BY <1>3, <2>1
  <2>3. BeginsWith(Pending.bytes, SubSeq(Pending.bytes, 1, k))
    BY <1>3, <2>2, SelfBegins, Zenon
  <2>4. pc \in WriteStages
    BY <2>2 DEF Pending, WriteStages
  <2>5. UNCHANGED << image, op, der >>
    BY <1>20 DEF TornWrite
  <2> QED BY <1>4, <2>1, <2>3, <2>4, <2>5, Zenon
<1>21. CASE Meddle
  BY <1>21 DEF Meddle
<1>22. CASE UNCHANGED vars
  BY <1>6, <1>22 DEF vars, output
<1> QED BY <1>7, <1>8, <1>9, <1>10, <1>11, <1>12, <1>13, <1>14, <1>15, <1>16, <1>17,
           <1>18, <1>19, <1>20, <1>21, <1>22 DEF Next, Step

\* Whenever the command dies, also in the middle of a write, what it leaves at
\* the output path and what looks signed carries the complete new signature
\* over the input's digest, or is a beginning of the input, or has its directory
\* entry cut short: for every input, blob, buffer size and layout.
THEOREM SignatureIsNeverTorn ==
    ASSUME Source # Target, ~Meddling
    PROVE  Spec => []NoTornSignature
<1>1. Init => TornInv
  BY DEF Init, TornInv
<1>2. Inv /\ TornInv => NoTornSignature
  <2>1. SUFFICES ASSUME Inv, TornInv, opened, WellFormed(image), Fits(image, der),
                        parse_pe(output).ok, parse_pe(output).sigpos > 0
                 PROVE  LET out == parse_pe(output)
                        IN  \/ /\ op = "sign"
                               /\ extract_signature(output, out)
                                      = Signature(PaddedDer(der))
                               /\ authenticode_digest(output, out)
                                      = authenticode_digest(image, pe)
                            \/ output = Bytes(image, 0, Len(output))
                            \/ EntryCutShort
    BY Zenon DEF NoTornSignature
  <2>2. pe = parse_pe(image)
    BY <2>1 DEF Inv, Memory
  <2>3. Whole(image, op, der, output)
    BY <2>1, Zenon DEF TornInv, NeverTorn
  <2> QED BY <2>2, <2>3, Zenon DEF Whole, EntryCutShort
<1>3. (Init => Inv) /\ (Inv /\ [Next]_vars => Inv')
  BY InvStep
<1>4. Inv /\ TornInv /\ [Next]_vars => TornInv'
  BY TornStep
<1> QED BY <1>1, <1>2, <1>3, <1>4, PTL DEF Spec

----------------------------------------------------------------------------
(* The refinement of Publish *)

\* IsResult, said of the image f, the operation o, the blob d and the file g.
ResultOf(f, o, d, g) ==
    LET out == parse_pe(g)
    IN  /\ WellFormed(g)
        /\ authenticode_digest(g, out) = authenticode_digest(f, parse_pe(f))
        /\ IF o = "sign" THEN extract_signature(g, out) = Signature(PaddedDer(d))
           ELSE out.sigpos = 0

\* What is not seen as signed is not the result of signing.
LEMMA UnsignedIsDraft ==
    ASSUME NEW f, NEW d, NEW g, parse_pe(g).sigpos = 0
    PROVE  ~ResultOf(f, "sign", d, g)
<1>1. extract_signature(g, parse_pe(g)) = NoSignature
  BY DEF extract_signature
<1>2. NoSignature # Signature(PaddedDer(d))
  BY DEF NoSignature, Signature
<1> QED BY <1>1, <1>2, Zenon DEF ResultOf

LEMMA CopyIsDraft ==
    ASSUME NEW f, WellFormed(f), Len(f) < Word, NEW d,
           NEW c \in Nat, c <= data_end(parse_pe(f))
    PROVE  ~ResultOf(f, "sign", d, Bytes(f, 0, c))
<1> SUFFICES ASSUME ResultOf(f, "sign", d, Bytes(f, 0, c)) PROVE FALSE
  OBVIOUS
<1> DEFINE g == Bytes(f, 0, c)
<1>1. /\ WellFormed(g)
      /\ authenticode_digest(g, parse_pe(g)) = authenticode_digest(f, parse_pe(f))
      /\ extract_signature(g, parse_pe(g)) = Signature(PaddedDer(d))
  BY Zenon DEF ResultOf
<1>2. extract_signature(g, parse_pe(g)) # Signature(PaddedDer(d))
  BY <1>1, PrefixNotSigned, Zenon
<1> QED BY <1>1, <1>2, Zenon

LEMMA CopyStaysResult ==
    ASSUME NEW f, WellFormed(f), Len(f) < Word, parse_pe(f).sigpos > 0, NEW d,
           NEW o, o # "sign",
           NEW c \in Nat, NEW e \in Nat, c <= e, e <= data_end(parse_pe(f)),
           ResultOf(f, o, d, Bytes(f, 0, c))
    PROVE  ResultOf(f, o, d, Bytes(f, 0, e))
<1> DEFINE g == Bytes(f, 0, c)
           x == Bytes(f, 0, e)
<1>1. /\ WellFormed(g)
      /\ authenticode_digest(g, parse_pe(g)) = authenticode_digest(f, parse_pe(f))
      /\ parse_pe(g).sigpos = 0
  BY Zenon DEF ResultOf
<1>2. /\ WellFormed(x)
      /\ authenticode_digest(x, parse_pe(x)) = authenticode_digest(f, parse_pe(f))
      /\ parse_pe(x).sigpos = 0
  BY <1>1, PrefixStaysStripped, Zenon
<1> QED BY <1>2, Zenon DEF ResultOf

\* The copy with its two fields changed and no entry left is stripped.
LEMMA KeptIsResult ==
    ASSUME NEW f, WellFormed(f), Len(f) < Word, NEW d, NEW o, o # "sign",
           NEW g \in Seq(Byte), Len(g) = data_end(parse_pe(f)),
           Keeps(g, f, data_end(parse_pe(f))), parse_pe(g).sigpos = 0
    PROVE  ResultOf(f, o, d, g)
<1> DEFINE n == data_end(parse_pe(f))
<1>1. n \in Nat /\ n <= Len(f) /\ f \in Seq(Byte)
  BY DataEnd
<1>2. n <= Len(g) /\ Len(g) < Word
  <2>1. Len(f) \in Nat /\ Word \in Nat
    BY <1>1, WordType
  <2> HIDE DEF n
  <2>2. n < Word /\ n <= n
    BY <1>1, <2>1
  <2> QED BY <2>2, Zenon DEF n
<1>3. HeadersValid(g)
  BY <1>2, KeptImage, Zenon
<1>4. WellFormed(g)
  BY <1>3, Zenon DEF WellFormed
<1>5. authenticode_digest(g, parse_pe(g)) = authenticode_digest(f, parse_pe(f))
  BY KeptDigest, Zenon
<1> QED BY <1>4, <1>5, Zenon DEF ResultOf

LEMMA ZeroedChecksumIsResult ==
    ASSUME NEW f, WellFormed(f), Len(f) < Word, NEW d, NEW o
    PROVE  LET y == ZeroedChecksum(f, parse_pe(f))
           IN  /\ o # "sign" => ResultOf(f, o, d, y)
               /\ parse_pe(y).sigpos = 0
<1> DEFINE y == ZeroedChecksum(f, parse_pe(f))
           n == data_end(parse_pe(f))
<1>1. y \in Seq(Byte) /\ Len(y) = n /\ Keeps(y, f, n)
  BY ZeroedChecksumShape
<1>2. Zeros(4) \in Seq(Byte) /\ Len(Zeros(4)) <= 4
  BY ZerosType
<1>3. parse_pe(write_at(Copied(f, parse_pe(f)), checksum_offset(f), Zeros(4))).sigpos = 0
  BY <1>2, ChecksumCutShort
<1>4. y = write_at(Copied(f, parse_pe(f)), checksum_offset(f), Zeros(4))
  BY DataEnd, ParsedFields DEF ZeroedChecksum
<1>5. parse_pe(y).sigpos = 0
  BY <1>3, <1>4, Zenon
<1> QED BY <1>1, <1>5, KeptIsResult, Zenon

LEMMA ZeroedIsResult ==
    ASSUME NEW f, WellFormed(f), Len(f) < Word, NEW d, NEW o
    PROVE  LET z == Zeroed(f, parse_pe(f))
           IN  /\ o # "sign" => ResultOf(f, o, d, z)
               /\ parse_pe(z).sigpos = 0
<1> DEFINE z == Zeroed(f, parse_pe(f))
           n == data_end(parse_pe(f))
<1>1. z \in Seq(Byte) /\ Len(z) = n /\ Keeps(z, f, n)
      /\ \A i \in 1 .. 8 : z[cert_table_offset(f) + i] = 0
  BY ZeroedShape
<1>2. \A i \in 1 .. 4 : z[cert_table_offset(f) + i] = 0
  <2> HIDE DEF z
  <2>1. \A i \in 1 .. 4 : i \in 1 .. 8
    OBVIOUS
  <2> QED BY <1>1, <2>1, Zenon
<1>3. n <= Len(z) /\ Len(z) < Word
  <2>1. n \in Nat /\ n <= Len(f) /\ Len(f) \in Nat /\ Word \in Nat
    BY DataEnd, WordType
  <2> HIDE DEF n, z
  <2>2. n < Word /\ n <= n
    BY <2>1
  <2> QED BY <1>1, <2>2, Zenon
<1>4. parse_pe(z).sigpos = 0
  BY <1>1, <1>2, <1>3, NoEntry, Zenon
<1> QED BY <1>1, <1>4, KeptIsResult, Zenon

LEMMA SignedIsResult ==
    ASSUME NEW f, WellFormed(f), NEW d \in Seq(Byte), Fits(f, d),
           NEW b \in Seq(Byte), Len(b) = 4
    PROVE  ResultOf(f, "sign", d, SignedFile(f, d, b))
<1> DEFINE g == SignedFile(f, d, b)
<1>1. WellFormed(g)
  BY SignedImage, Zenon
<1>2. /\ authenticode_digest(g, parse_pe(g)) = authenticode_digest(f, parse_pe(f))
      /\ extract_signature(g, parse_pe(g)) = Signature(PaddedDer(d))
  BY SignedFileGood
<1> QED BY <1>1, <1>2, Zenon DEF ResultOf

LEMMA StrippedIsResult ==
    ASSUME NEW f, WellFormed(f), Len(f) < Word, NEW d, NEW o, o # "sign",
           NEW b \in Seq(Byte), Len(b) = 4
    PROVE  ResultOf(f, o, d, UnsignedFile(f, b))
<1> DEFINE g == UnsignedFile(f, b)
           n == data_end(parse_pe(f))
<1>1. g \in Seq(Byte) /\ Len(g) = n /\ Keeps(g, f, n)
  BY UnsignedShape
<1>2. parse_pe(g).sigpos = 0
  BY StrippedFileGood
<1> QED BY <1>1, <1>2, KeptIsResult, Zenon

Accepted == pe # InvalidPe
FileNow  == IF ~opened /\ output = Stale THEN "old"
            ELSE IF IsResult(output) THEN "result" ELSE "draft"
Outcome  == IF Finished THEN pc ELSE "running"

LEMMA PublishStep ==
    \/ UNCHANGED << Accepted, FileNow, Outcome >>
    \/ /\ Outcome = "running" /\ Outcome' = "running"
       /\ Accepted = FALSE /\ Accepted' = TRUE
       /\ FileNow' = FileNow
    \/ /\ Outcome = "running" /\ Outcome' \in {"running", "failed"}
       /\ Accepted = TRUE /\ Accepted' = Accepted
       /\ FileNow = "old" /\ FileNow' = "draft"
    \/ /\ Outcome = "running" /\ Outcome' \in {"running", "failed"}
       /\ Accepted' = Accepted
       /\ FileNow = "draft" /\ FileNow' = "result"
    \/ /\ Outcome = "running" /\ Outcome' = "done"
       /\ Accepted' = Accepted
       /\ FileNow = "result" /\ FileNow' = FileNow
    \/ /\ Outcome = "running" /\ Outcome' = "failed"
       /\ Accepted' = Accepted
       /\ FileNow' = FileNow \/ (FileNow = "result" /\ FileNow' = "draft")
    => [Output!Next]_(Output!vars)
<1>1. ASSUME UNCHANGED << Accepted, FileNow, Outcome >> PROVE UNCHANGED Output!vars
  BY <1>1 DEF Output!vars, Accepted, FileNow, Outcome
<1>2. ASSUME Outcome = "running", Outcome' = "running",
             Accepted = FALSE, Accepted' = TRUE, FileNow' = FileNow
      PROVE  Output!Accept
  BY <1>2, Zenon DEF Output!Accept, Accepted, FileNow, Outcome
<1>3. ASSUME Outcome = "running", Outcome' \in {"running", "failed"},
             Accepted = TRUE, Accepted' = Accepted, FileNow = "old", FileNow' = "draft"
      PROVE  Output!Begin
  BY <1>3, Zenon DEF Output!Begin, Accepted, FileNow, Outcome
<1>4. ASSUME Outcome = "running", Outcome' \in {"running", "failed"},
             Accepted' = Accepted, FileNow = "draft", FileNow' = "result"
      PROVE  Output!Complete
  BY <1>4, Zenon DEF Output!Complete, Accepted, FileNow, Outcome
<1>5. ASSUME Outcome = "running", Outcome' = "done", Accepted' = Accepted,
             FileNow = "result", FileNow' = FileNow
      PROVE  Output!Succeed
  BY <1>5, Zenon DEF Output!Succeed, Accepted, FileNow, Outcome
<1>6. ASSUME Outcome = "running", Outcome' = "failed", Accepted' = Accepted,
             FileNow' = FileNow \/ (FileNow = "result" /\ FileNow' = "draft")
      PROVE  Output!Fail
  <2>1. FileNow' \in {FileNow} \cup IF FileNow = "result" THEN {"draft"} ELSE {}
    BY <1>6
  <2> QED BY <1>6, <2>1, Zenon DEF Output!Fail, Accepted, FileNow, Outcome
<1> QED BY <1>1, <1>2, <1>3, <1>4, <1>5, <1>6, Zenon DEF Output!Next

FileIs == FileNow = IF ~opened THEN "old"
                    ELSE IF ResultOf(image, op, der, output) THEN "result" ELSE "draft"

LEMMA FileNowIs == Inv => FileIs
<1> SUFFICES ASSUME Inv PROVE FileIs
  OBVIOUS
<1>1. ~opened => output = Stale
  BY DEF Inv, Memory
<1>2. opened => pe = parse_pe(image)
  BY DEF Inv, Memory
<1>3. opened => (IsResult(output) <=> ResultOf(image, op, der, output))
  BY <1>2, Zenon DEF IsResult, ResultOf
<1> QED BY <1>1, <1>3, Zenon DEF FileIs, FileNow

LEMMA FileNowNext == Inv' => FileIs'
  BY FileNowIs, PTL

\* What is known of an accepted input.
LEMMA AcceptedFits ==
    ASSUME InputsFit, Inv, pe # InvalidPe
    PROVE  /\ image \in Seq(Byte) /\ der \in Seq(Byte)
           /\ pe = parse_pe(image)
           /\ WellFormed(image) /\ Fits(image, der) /\ Len(image) < Word
<1>1. image \in Inputs /\ der \in Ders /\ HeadersValid(image) /\ pe = parse_pe(image)
  BY Zenon DEF Inv, Memory
<1>2. image \in Seq(Byte) /\ der \in Seq(Byte)
  BY DEF Inv, SafeInv, TypeInv, TypeOK
<1>3. WellFormed(image) /\ Fits(image, der)
  BY <1>1, Zenon DEF InputsFit
<1>4. Len(image) < Word
  BY <1>2, <1>3, Sizes
<1> QED BY <1>1, <1>2, <1>3, <1>4

\* Before its directory entry is written the output of a signing is a draft.
LEMMA ClearedIsDraft ==
    ASSUME InputsFit, Inv, pc \in {"zero_cert_table", "pad", "append", "update_dir"},
           op = "sign"
    PROVE  ~ResultOf(image, op, der, output)
<1> DEFINE n == data_end(parse_pe(image))
           z == Zeroed(image, parse_pe(image))
           pad == Zeros(PadLen(Len(z)))
           w == WinCertificate(der)
<1>1. pe # InvalidPe
  BY Zenon DEF Inv, Memory
<1>2. /\ image \in Seq(Byte) /\ der \in Seq(Byte) /\ pe = parse_pe(image)
      /\ WellFormed(image) /\ Fits(image, der) /\ Len(image) < Word
  BY <1>1, AcceptedFits
<1>3. Stages
  BY DEF Inv, SafeInv
<1>4. z \in Seq(Byte) /\ Len(z) = n /\ n \in Nat
  BY <1>2, ZeroedShape, DataEnd
<1>5. pad \in Seq(Byte) /\ Len(pad) = PadLen(n) /\ PadLen(n) \in Nat
  <2>1. PadLen(n) \in Nat
    BY <1>4, PadLenNat, Zenon
  <2>2. Zeros(PadLen(n)) \in Seq(Byte) /\ Len(Zeros(PadLen(n))) = PadLen(n)
    BY <2>1, ZerosType, Zenon
  <2> QED BY <1>4, <2>1, <2>2, Zenon
<1>6. w \in Seq(Byte) /\ Len(w) = CertLen(der) /\ CertLen(der) \in Nat
  BY <1>2, CertShape, Sizes, CertLenType
<1>7. CASE pc = "zero_cert_table"
  <2>1. output = ZeroedChecksum(image, parse_pe(image))
    BY <1>2, <1>3, <1>7, Zenon DEF Stages
  <2>2. parse_pe(output).sigpos = 0
    BY <1>2, <2>1, ZeroedChecksumIsResult, Zenon
  <2> QED BY <2>2, UnsignedIsDraft, Zenon
<1>8. CASE pc = "pad"
  <2>1. output = z
    BY <1>2, <1>3, <1>8, Zenon DEF Stages
  <2>2. parse_pe(output).sigpos = 0
    BY <1>2, <2>1, ZeroedIsResult, Zenon
  <2> QED BY <2>2, UnsignedIsDraft, Zenon
<1>9. CASE pc = "append"
  <2>1. output = z \o pad
    BY <1>2, <1>3, <1>9, Zenon DEF Stages, Padded
  <2>2. Len(pad) < PadLen(n) + CertLen(der) + 1
    <3> DEFINE p == PadLen(n)
               c == CertLen(der)
    <3>1. p \in Nat /\ c \in Nat
      BY <1>5, <1>6, Zenon
    <3> HIDE DEF p, c
    <3>2. p < p + c + 1
      BY <3>1
    <3> QED BY <1>5, <3>2, Zenon DEF p, c
  <2>3. parse_pe(output).sigpos = 0
    BY <1>2, <1>5, <2>1, <2>2, NotYetSigned, Zenon
  <2> QED BY <2>3, UnsignedIsDraft, Zenon
<1>10. CASE pc = "update_dir"
  <2>1. output = (z \o pad) \o w
    BY <1>2, <1>3, <1>10, Zenon DEF Stages, Padded, Certified
  <2>2. (z \o pad) \o w = z \o (pad \o w)
    <3> HIDE DEF z, pad, w
    <3> QED BY <1>4, <1>5, <1>6
  <2>3. pad \o w \in Seq(Byte) /\ Len(pad \o w) < PadLen(n) + CertLen(der) + 1
    <3>1. pad \o w \in Seq(Byte) /\ Len(pad \o w) = Len(pad) + Len(w)
      BY <1>5, <1>6, ConcatType, Zenon
    <3> DEFINE p == PadLen(n)
               c == CertLen(der)
    <3>2. p \in Nat /\ c \in Nat /\ Len(pad \o w) = p + c
      BY <1>5, <1>6, <3>1, Zenon
    <3> HIDE DEF p, c
    <3>3. p + c < p + c + 1
      BY <3>2
    <3> QED BY <3>1, <3>2, <3>3, Zenon DEF p, c
  <2>4. parse_pe(output).sigpos = 0
    BY <1>2, <2>1, <2>2, <2>3, NotYetSigned, Zenon
  <2> QED BY <2>4, UnsignedIsDraft, Zenon
<1> QED BY <1>7, <1>8, <1>9, <1>10, Zenon

\* Nothing that was the result stops being so by a write that is not cut short.
LEMMA WriteKeepsResult ==
    ASSUME InputsFit, Inv, Inv',
           CopyChunk \/ ZeroChecksum \/ ZeroCertTable \/ Pad \/ AppendCert \/ UpdateDir,
           ResultOf(image, op, der, output)
    PROVE  ResultOf(image', op', der', output')
<1>1. /\ UNCHANGED << image, op, der, pe >>
      /\ pc \in {"copy", "zero_checksum", "zero_cert_table", "pad", "append", "update_dir"}
  BY DEF CopyChunk, ZeroChecksum, ZeroCertTable, Pad, AppendCert, UpdateDir, PerformWrite
<1>2. pe # InvalidPe
  BY <1>1, Zenon DEF Inv, Memory
<1>3. /\ image \in Seq(Byte) /\ der \in Seq(Byte) /\ pe = parse_pe(image)
      /\ WellFormed(image) /\ Fits(image, der) /\ Len(image) < Word
  BY <1>2, AcceptedFits
<1>4. Stages /\ Stages'
  BY DEF Inv, SafeInv
<1>5. op = "remove" => parse_pe(image).sigpos > 0
  BY <1>1, <1>3 DEF Inv, Memory
<1>6. op \in {"sign", "remove"} /\ copied \in Nat /\ copied' \in Nat
  BY DEF Inv, SafeInv, TypeInv, TypeOK
<1>7. CASE CopyChunk
  <2>1. pc = "copy" /\ pc' = "copy" /\ copied' = copied + Len(chunk)
    BY <1>7 DEF CopyChunk, PerformWrite
  <2>2. /\ output = Bytes(image, 0, copied) /\ copied <= data_end(parse_pe(image))
        /\ output' = Bytes(image, 0, copied') /\ copied' <= data_end(parse_pe(image))
    BY <1>1, <1>3, <1>4, <2>1 DEF Stages
  <2>3. copied <= copied'
    BY <1>6, <2>1, ChunkType DEF Inv, SafeInv
  <2>4. op # "sign"
    BY <1>3, <1>6, <2>2, CopyIsDraft, Zenon
  <2>5. parse_pe(image).sigpos > 0
    BY <1>5, <1>6, <2>4
  <2>6. ResultOf(image, op, der, Bytes(image, 0, copied'))
    BY <1>3, <1>6, <2>2, <2>3, <2>4, <2>5, CopyStaysResult, Zenon
  <2> QED BY <1>1, <2>2, <2>6
<1>8. CASE ZeroChecksum
  <2>1. pc = "zero_checksum" /\ pc' = "zero_cert_table"
    BY <1>8 DEF ZeroChecksum, PerformWrite
  <2>2. output = Bytes(image, 0, data_end(parse_pe(image)))
    BY <1>3, <1>4, <2>1, Zenon DEF Stages, Copied
  <2>3. output' = ZeroedChecksum(image, parse_pe(image))
    BY <1>1, <1>3, <1>4, <2>1 DEF Stages
  <2>4. data_end(parse_pe(image)) \in Nat
        /\ data_end(parse_pe(image)) <= data_end(parse_pe(image))
    BY <1>3, DataEnd
  <2>5. op # "sign"
    BY <1>3, <2>2, <2>4, CopyIsDraft, Zenon
  <2>6. ResultOf(image, op, der, output')
    BY <1>3, <2>3, <2>5, ZeroedChecksumIsResult, Zenon
  <2> QED BY <1>1, <2>6
<1>9. CASE ZeroCertTable
  <2>1. pc = "zero_cert_table" /\ pc' = IF op = "sign" THEN "pad" ELSE "calc_checksum"
    BY <1>9 DEF ZeroCertTable, PerformWrite
  <2>2. op # "sign"
    BY <2>1, ClearedIsDraft, Zenon
  <2>3. output' = Zeroed(image, parse_pe(image))
    <3>1. pc' = "calc_checksum"
      BY <2>1, <2>2
    <3>2. output' = Unsummed(image, der)'
      BY <1>4, <3>1 DEF Stages
    <3> QED BY <1>1, <2>2, <3>2 DEF Unsummed
  <2>4. ResultOf(image, op, der, output')
    BY <1>3, <2>2, <2>3, ZeroedIsResult, Zenon
  <2> QED BY <1>1, <2>4
<1>10. CASE Pad \/ AppendCert \/ UpdateDir
  <2>1. pc \in {"pad", "append", "update_dir"}
    BY <1>10 DEF Pad, AppendCert, UpdateDir, PerformWrite
  <2>2. op = "sign"
    BY <1>4, <2>1 DEF Stages
  <2>3. pc \in {"zero_cert_table", "pad", "append", "update_dir"}
    BY <2>1
  <2> QED BY <2>2, <2>3, ClearedIsDraft, Zenon
<1> QED BY <1>7, <1>8, <1>9, <1>10, Zenon

\* The last write is made to a result, and keeps it one.
LEMMA LastWriteKeepsResult ==
    ASSUME InputsFit, Inv, Inv', WriteChecksum
    PROVE  /\ ResultOf(image, op, der, output)
           /\ ResultOf(image', op', der', output')
<1>1. pc = "write_checksum" /\ pc' = "done" /\ UNCHANGED << image, op, der, pe >>
  BY DEF WriteChecksum, PerformWrite
<1>2. pe # InvalidPe
  BY <1>1, Zenon DEF Inv, Memory
<1>3. /\ image \in Seq(Byte) /\ der \in Seq(Byte) /\ pe = parse_pe(image)
      /\ WellFormed(image) /\ Fits(image, der) /\ Len(image) < Word
  BY <1>2, AcceptedFits
<1>4. output = Unsummed(image, der)
  BY <1>1 DEF Inv, SafeInv, Stages
<1>5. \E b \in Seq(Byte) :
          /\ Len(b) = 4
          /\ output' = IF op' = "sign" THEN SignedFile(image', der', b)
                       ELSE UnsignedFile(image', b)
  BY <1>1, DoneNext DEF DoneIs
<1>6. PICK b \in Seq(Byte) :
          /\ Len(b) = 4
          /\ output' = IF op = "sign" THEN SignedFile(image, der, b)
                       ELSE UnsignedFile(image, b)
  BY <1>1, <1>5
<1>7. CASE op = "sign"
  <2>1. output = Directed(image, parse_pe(image), der)
    BY <1>4, <1>7 DEF Unsummed
  <2>2. ResultOf(image, "sign", der, output)
    BY <1>3, <2>1, DirectedIsSigned, SignedIsResult, Zenon
  <2>3. ResultOf(image, "sign", der, output')
    BY <1>3, <1>6, <1>7, SignedIsResult, Zenon
  <2> QED BY <1>1, <1>7, <2>2, <2>3
<1>8. CASE op # "sign"
  <2>1. output = Zeroed(image, parse_pe(image))
    BY <1>4, <1>8 DEF Unsummed
  <2>2. ResultOf(image, op, der, output)
    BY <1>3, <1>8, <2>1, ZeroedIsResult, Zenon
  <2>3. ResultOf(image, op, der, output')
    BY <1>3, <1>6, <1>8, StrippedIsResult, Zenon
  <2> QED BY <1>1, <2>2, <2>3
<1> QED BY <1>7, <1>8, Zenon

LEMMA EmptyIsDraft == \A f, o, d : ~ResultOf(f, o, d, << >>)
<1>1. ~WellFormed(<< >>)
  <2>1. filesize(<< >>) = 0
    BY WordType DEF filesize
  <2>2. MIN_FILE > 0
    BY LayoutAssumption
  <2> QED BY <2>1, <2>2, LayoutAssumption DEF WellFormed, HeadersValid
<1> QED BY <1>1, Zenon DEF ResultOf

LEMMA PublishNext ==
    ASSUME Source # Target, ~Meddling, InputsFit
    PROVE  Inv /\ Inv' /\ [Next]_vars => [Output!Next]_(Output!vars)
<1> SUFFICES ASSUME Inv, Inv', [Next]_vars PROVE [Output!Next]_(Output!vars)
  OBVIOUS
<1>1. FileNow = IF ~opened THEN "old"
                ELSE IF ResultOf(image, op, der, output) THEN "result" ELSE "draft"
  BY FileNowIs DEF FileIs
<1>2. FileNow' = IF ~opened' THEN "old"
                 ELSE IF ResultOf(image', op', der', output') THEN "result" ELSE "draft"
  BY FileNowNext DEF FileIs
<1>3. /\ Memory /\ Memory'
      /\ Target \in Paths /\ disk \in [Paths -> Seq(Byte)]
  BY DEF Inv, SafeInv, TypeInv, TypeOK, Paths
<1>4. pc \notin {"done", "failed"} => Outcome = "running"
  BY Zenon DEF Outcome, Finished
<1>5. pc' \notin {"done", "failed"} => Outcome' = "running"
  BY Zenon DEF Outcome, Finished
\* A step within the rewriting, which does not spoil a result.
<1>6. ASSUME opened, opened', pc \notin {"done", "failed"}, pc' \notin {"done", "failed"},
             pe' = pe,
             ResultOf(image, op, der, output) => ResultOf(image', op', der', output')
      PROVE  [Output!Next]_(Output!vars)
  <2>1. FileNow' = FileNow \/ (FileNow = "draft" /\ FileNow' = "result")
    BY <1>1, <1>2, <1>6, Zenon
  <2>2. Accepted' = Accepted
    BY <1>6 DEF Accepted
  <2> QED BY <1>4, <1>5, <1>6, <2>1, <2>2, PublishStep
\* A step that leaves the files and what is known of them alone.
<1>7. ASSUME UNCHANGED << image, op, der, pe, output, opened >>
      PROVE  FileNow' = FileNow /\ Accepted' = Accepted
  BY <1>1, <1>2, <1>7 DEF Accepted
<1>8. CASE Parse
  <2>1. /\ pc = "parse" /\ pc' = "open" /\ opened' = opened /\ output' = output
    BY <1>8 DEF Parse, output
  <2>2. ~opened /\ pe = InvalidPe
    BY <1>3, <2>1 DEF Memory
  <2>3. pe' # InvalidPe
    BY <1>8 DEF Parse, InvalidPe
  <2>4. Accepted = FALSE /\ Accepted' = TRUE
    BY <2>2, <2>3 DEF Accepted
  <2>5. FileNow' = FileNow
    BY <1>1, <1>2, <2>1, <2>2
  <2> QED BY <1>4, <1>5, <2>1, <2>4, <2>5, PublishStep
<1>9. CASE ParseRejects
  <2>1. pc = "parse" /\ pc' = "failed"
    BY <1>9 DEF ParseRejects
  <2>2. FileNow' = FileNow /\ Accepted' = Accepted
    BY <1>7, <1>9 DEF ParseRejects, output
  <2>3. Outcome = "running" /\ Outcome' = "failed"
    BY <2>1, Zenon DEF Outcome, Finished
  <2> QED BY <2>2, <2>3, PublishStep
<1>10. CASE OpenOutput
  <2>1. pc = "open" /\ pc' \in {"failed", "copy"} /\ pe' = pe /\ opened' = TRUE
        /\ disk' = [disk EXCEPT ![Target] = << >>]
    BY <1>10 DEF OpenOutput
  <2>2. ~opened
    BY <1>3, <2>1 DEF Memory
  <2>3. output' = << >>
    BY <1>3, <2>1 DEF output
  <2>4. ~ResultOf(image', op', der', output')
    BY <2>3, EmptyIsDraft, Zenon
  <2>5. FileNow = "old" /\ FileNow' = "draft"
    BY <1>1, <1>2, <2>1, <2>2, <2>4
  <2>6. pe # InvalidPe
    <3>1. HeadersValid(image) /\ pe = parse_pe(image) /\ image \in Seq(Byte)
      BY <2>1 DEF Inv, SafeInv, TypeInv, TypeOK
    <3> QED BY <3>1, ParsedFields
  <2>7. Accepted = TRUE /\ Accepted' = Accepted
    BY <2>1, <2>6 DEF Accepted
  <2>8. Outcome = "running" /\ Outcome' \in {"running", "failed"}
    BY <2>1, Zenon DEF Outcome, Finished
  <2> QED BY <2>5, <2>7, <2>8, PublishStep
<1>11. CASE CopyChunk \/ ZeroChecksum \/ ZeroCertTable \/ Pad \/ AppendCert \/ UpdateDir
  <2>1. /\ pc \notin {"parse", "open", "done", "failed"}
        /\ pc' \notin {"parse", "open", "done", "failed"}
        /\ pe' = pe
    BY <1>11 DEF CopyChunk, ZeroChecksum, ZeroCertTable, Pad, AppendCert, UpdateDir,
                 PerformWrite
  <2>2. opened /\ opened'
    BY <1>3, <2>1 DEF Memory
  <2>3. ResultOf(image, op, der, output) => ResultOf(image', op', der', output')
    BY <1>11, WriteKeepsResult
  <2> QED BY <1>6, <2>1, <2>2, <2>3
<1>12. CASE CopyEnds \/ CalcChecksum
  <2>1. UNCHANGED << image, op, der, pe, output, opened >>
        /\ pc \notin {"done", "failed"} /\ pc' \notin {"done", "failed"}
    BY <1>12 DEF CopyEnds, CalcChecksum, output
  <2> QED BY <1>4, <1>5, <1>7, <2>1, PublishStep
<1>13. CASE WriteChecksum
  <2>1. pc = "write_checksum" /\ pc' = "done" /\ pe' = pe /\ opened' = opened
    BY <1>13 DEF WriteChecksum, PerformWrite
  <2>2. opened
    BY <1>3, <2>1 DEF Memory
  <2>3. ResultOf(image, op, der, output) /\ ResultOf(image', op', der', output')
    BY <1>13, LastWriteKeepsResult
  <2>4. FileNow = "result" /\ FileNow' = FileNow
    BY <1>1, <1>2, <2>1, <2>2, <2>3
  <2>5. Outcome = "running" /\ Outcome' = "done"
    BY <2>1, Zenon DEF Outcome, Finished
  <2>6. Accepted' = Accepted
    BY <2>1 DEF Accepted
  <2> QED BY <2>4, <2>5, <2>6, PublishStep
<1>14. CASE Fails
  <2>1. FileNow' = FileNow /\ Accepted' = Accepted
    BY <1>7, <1>14 DEF Fails, output
  <2>2. Outcome = "running" /\ Outcome' = "failed"
    BY <1>14, Zenon DEF Fails, Outcome, Finished
  <2> QED BY <2>1, <2>2, PublishStep
<1>15. CASE TornWrite
  <2>1. pc' = "failed" /\ pe' = pe /\ opened' = opened
    BY <1>15 DEF TornWrite
  <2>2. pc \in WriteStages
    <3>1. PICK k \in 1 .. Len(Pending.bytes) - 1 : TRUE
      BY <1>15 DEF TornWrite
    <3>2. Pending.bytes # << >>
      BY <3>1
    <3> QED BY <3>2 DEF Pending, WriteStages
  <2>3. opened
    BY <1>3, <2>2 DEF Memory, WriteStages
  <2>4. Outcome = "running" /\ Outcome' = "failed"
    BY <2>1, <2>2 DEF Outcome, Finished, WriteStages
  <2>5. FileNow \in {"draft", "result"} /\ FileNow' \in {"draft", "result"}
    BY <1>1, <1>2, <2>1, <2>3
  <2>6. Accepted' = Accepted
    BY <2>1 DEF Accepted
  <2>7. CASE FileNow = "draft" /\ FileNow' = "result"
    BY <2>4, <2>6, <2>7, PublishStep
  <2>8. CASE FileNow' = FileNow \/ (FileNow = "result" /\ FileNow' = "draft")
    BY <2>4, <2>6, <2>8, PublishStep
  <2> QED BY <2>5, <2>7, <2>8
<1>16. CASE Meddle
  BY <1>16 DEF Meddle
<1>17. CASE UNCHANGED vars
  <2>1. UNCHANGED << image, op, der, pe, output, opened, pc >>
    BY <1>17 DEF vars, output
  <2>2. Outcome' = Outcome
    BY <2>1 DEF Outcome, Finished
  <2> QED BY <1>7, <2>1, <2>2, PublishStep
<1> QED BY <1>8, <1>9, <1>10, <1>11, <1>12, <1>13, <1>14, <1>15, <1>16, <1>17
        DEF Next, Step

LEMMA PublishInit == ASSUME Source # Target PROVE Init => Output!Init
<1> SUFFICES ASSUME Init PROVE Output!Init
  OBVIOUS
<1>1. output = Stale
  BY DEF Init, output, Paths
<1>2. pe = InvalidPe /\ opened = FALSE /\ pc = "parse"
  BY DEF Init
<1> QED BY <1>1, <1>2 DEF Output!Init, Finished

\* The writer implements Publish: until the input is accepted the output path
\* holds what it held, from then on a draft or the result, a result is made a
\* draft again only by a write that is cut short, and success is reported only
\* of a result: for every set of inputs that are well-formed and fit with every
\* blob, every buffer size and every layout.
THEOREM WriterPublishes ==
    ASSUME Source # Target, ~Meddling, InputsFit
    PROVE  Spec => OutputPublished
<1>1. Init => Output!Init
  BY PublishInit
<1>2. (Init => Inv) /\ (Inv /\ [Next]_vars => Inv')
  BY InvStep
<1>3. Inv /\ Inv' /\ [Next]_vars => [Output!Next]_(Output!vars)
  BY PublishNext
<1> QED BY <1>1, <1>2, <1>3, PTL DEF Spec, OutputPublished, Output!Spec

=============================================================================

--------------------------- MODULE EnvelopeProofs ---------------------------
(***************************************************************************)
(* The envelope fix-up, for every Base, every content and whatever follows *)
(* encapContentInfo: what is written is read back, from the digits of a    *)
(* length up to the five containers, so each rewrite changes the form and  *)
(* the version of a blob and nothing else.                                 *)
(***************************************************************************)
EXTENDS Envelope, BasicLemmas

----------------------------------------------------------------------------
(* Lengths *)

LEMMA BaseType ==
    /\ Base \in Nat \ {0} /\ Half \in Nat /\ Half > 5 /\ Half + Half = Base
    /\ \A i \in 0 .. 11 : i \in Byte
<1>1. Base \in Nat /\ Base % 2 = 0 /\ Base \div 2 > 5
  BY EnvelopeAssumption DEF Half
<1>2. Base = 2 * (Base \div 2)
  BY <1>1
<1> QED BY <1>1, <1>2 DEF Half, Byte

LEMMA DivBase ==
    \A x \in Nat : /\ x % Base \in Byte
                   /\ x % Base \in Nat
                   /\ x \div Base \in Nat
                   /\ x = (x % Base) + (Base * (x \div Base))
<1> SUFFICES ASSUME NEW x \in Nat
             PROVE  /\ x % Base \in Byte /\ x % Base \in Nat /\ x \div Base \in Nat
                    /\ x = (x % Base) + (Base * (x \div Base))
  OBVIOUS
<1>1. Base \in Nat \ {0}
  BY BaseType
<1>2. x % Base \in 0 .. Base - 1 /\ x \div Base \in Nat
      /\ x = (x % Base) + (Base * (x \div Base))
  BY <1>1, DivMod
<1> QED BY <1>1, <1>2 DEF Byte

LEMMA ShiftedIs ==
    ASSUME NEW n \in Nat
    PROVE  /\ Shifted(n) \in [0 .. 8 -> Nat]
           /\ Shifted(n)[0] = n
           /\ \A i \in 1 .. 8 : Shifted(n)[i] = Shifted(n)[i-1] \div Base
<1> DEFINE step == [x \in Nat \X (1 .. 8) |-> x[1] \div Base]
           Loop(q) == q = [i \in 0 .. 8 |-> IF i = 0 THEN n ELSE q[i-1] \div Base]
<1>1. step \in [Nat \X (1 .. 8) -> Nat]
  <2>1. \A x \in Nat \X (1 .. 8) : x[1] \div Base \in Nat
    BY BaseType, DivMod
  <2> QED BY <2>1
<1>2. PICK q \in [0 .. 8 -> Nat] : Recursion(q, 8, n, step)
  <2> HIDE DEF step
  <2> QED BY <1>1, RecursionExists
<1>3. q[0] = n /\ \A i \in 1 .. 8 : q[i] = q[i-1] \div Base
  BY <1>2 DEF Recursion
<1>4. Loop(q)
  BY <1>3
<1>5. Shifted(n) = CHOOSE p : Loop(p)
  BY DEF Shifted
<1>6. Loop(Shifted(n))
  <2> HIDE DEF Loop
  <2> QED BY <1>4, <1>5
<1> DEFINE s == Shifted(n)
<1> HIDE DEF s
<1>7. s[0] = n /\ \A i \in 1 .. 8 : s[i] = s[i-1] \div Base
  BY <1>6 DEF s
<1>8. DOMAIN s = 0 .. 8
  BY <1>6 DEF s
<1>9. \A i \in 0 .. 8 : s[i] \in Nat
  <2> DEFINE K == {i \in 0 .. 8 : s[i] \in Nat}
  <2>1. 0 \in K
    BY <1>7
  <2>2. ASSUME NEW i \in 1 .. 8, i - 1 \in K PROVE i \in K
    <3>1. s[i-1] \in Nat /\ s[i] = s[i-1] \div Base
      BY <1>7, <2>2
    <3>2. \A x \in Nat : x \div Base \in Nat
      BY BaseType, DivMod
    <3>3. s[i] \in Nat
      BY <3>1, <3>2
    <3> QED BY <3>3
  <2> HIDE DEF K
  <2>3. 0 .. 8 \subseteq K
    BY <2>1, <2>2, UpTo
  <2> QED BY <2>3 DEF K
<1>10. s = [i \in 0 .. 8 |-> s[i]]
  BY <1>6, <1>8 DEF s
<1>11. s \in [0 .. 8 -> Nat]
  BY <1>9, <1>10
<1> QED BY <1>7, <1>11 DEF s

\* Once all digits are gone they stay gone.
LEMMA ShiftedOut ==
    ASSUME NEW n \in Nat, NEW m \in 0 .. 8, Shifted(n)[m] = 0
    PROVE  \A i \in m .. 8 : Shifted(n)[i] = 0
<1> DEFINE q == Shifted(n)
           K == {i \in 0 .. 8 - m : q[m + i] = 0}
<1>1. 8 - m \in Nat /\ 0 \in K
  OBVIOUS
<1>2. ASSUME NEW i \in 1 .. 8 - m, i - 1 \in K PROVE i \in K
  <2>1. m + i \in 1 .. 8 /\ m + i - 1 = m + (i - 1)
    OBVIOUS
  <2>2. q[m + i] = 0 \div Base
    BY <1>2, <2>1, ShiftedIs, SMTT(30)
  <2> QED BY <2>1, <2>2, BaseType
<1> HIDE DEF q, K
<1>3. 0 .. 8 - m \subseteq K
  BY <1>1, <1>2, UpTo
<1>4. ASSUME NEW i \in m .. 8 PROVE q[i] = 0
  <2>1. i - m \in 0 .. 8 - m /\ m + (i - m) = i
    OBVIOUS
  <2> QED BY <1>3, <2>1 DEF K
<1> QED BY <1>4 DEF q

\* A length that fits in m digits has at most m, the first of them not zero.
LEMMA WidthIs ==
    ASSUME NEW n \in Nat, NEW m \in 1 .. 8, Shifted(n)[m] = 0
    PROVE  /\ Width(n) \in 1 .. m
           /\ Shifted(n)[Width(n)] = 0
           /\ Width(n) = 1 \/ Shifted(n)[Width(n) - 1] # 0
<1> DEFINE q == Shifted(n)
           K == {k \in 1 .. 8 : q[k] = 0}
           Fits(k) == q[k] = 0 /\ (k = 1 \/ q[k-1] # 0)
<1>1. K \in SUBSET Nat /\ K # {}
  OBVIOUS
<1> HIDE DEF q
<1>2. PICK k \in K : \A j \in K : k <= j
  <2> HIDE DEF K
  <2> QED BY <1>1, Least
<1>3. k \in 1 .. 8 /\ Fits(k)
  <2>1. k - 1 \notin K
    BY <1>2
  <2> QED BY <1>2, <2>1
<1> DEFINE w == CHOOSE j \in 1 .. 8 : Fits(j)
<1>4. w \in 1 .. 8 /\ Fits(w)
  <2> HIDE DEF Fits
  <2> QED BY <1>3
<1>5. w = Width(n)
  BY DEF Width, q
<1> HIDE DEF w
<1>6. w <= m
  <2> SUFFICES ASSUME w > m PROVE FALSE
    BY <1>4
  <2>1. w - 1 \in m .. 8 /\ w # 1
    BY <1>4
  <2>2. q[w - 1] = 0
    BY <2>1, ShiftedOut DEF q
  <2> QED BY <1>4, <2>1, <2>2
<1> QED BY <1>4, <1>5, <1>6 DEF q

LEMMA BigEndianIs ==
    ASSUME NEW s \in Seq(Byte)
    PROVE  \E num \in [0 .. Len(s) -> Nat] :
              /\ num[0] = 0
              /\ \A i \in 1 .. Len(s) : num[i] = num[i-1] * Base + s[i]
              /\ BigEndian(s) = num[Len(s)]
<1> DEFINE n == Len(s)
           step == [x \in Nat \X (1 .. n) |-> x[1] * Base + s[x[2]]]
           Loop(q) == q = [i \in 0 .. n |-> IF i = 0 THEN 0 ELSE q[i-1] * Base + s[i]]
<1>1. n \in Nat /\ Base \in Nat /\ \A i \in 1 .. n : s[i] \in Nat
  BY BaseType DEF Byte
<1>2. step \in [Nat \X (1 .. n) -> Nat]
  <2>1. ASSUME NEW x \in Nat \X (1 .. n) PROVE x[1] * Base + s[x[2]] \in Nat
    <3>1. x[1] \in Nat /\ x[2] \in 1 .. n
      OBVIOUS
    <3>2. s[x[2]] \in Nat
      BY <1>1, <3>1
    <3>3. x[1] * Base \in Nat
      BY <1>1, <3>1
    <3> QED BY <3>2, <3>3
  <2> QED BY <2>1
<1>3. PICK q \in [0 .. n -> Nat] : Recursion(q, n, 0, step)
  <2> HIDE DEF step, n
  <2> QED BY <1>1, <1>2, RecursionExists
<1>4. q[0] = 0 /\ \A i \in 1 .. n : q[i] = q[i-1] * Base + s[i]
  <2>1. q[0] = 0 /\ \A i \in 1 .. n : q[i] = step[<< q[i-1], i >>]
    BY <1>3 DEF Recursion
  <2>2. ASSUME NEW i \in 1 .. n PROVE q[i] = q[i-1] * Base + s[i]
    <3>1. q[i-1] \in Nat
      BY <1>1
    <3>2. << q[i-1], i >> \in Nat \X (1 .. n)
      BY <3>1
    <3> QED BY <2>1, <3>2
  <2> QED BY <2>1, <2>2
<1>5. Loop(q)
  BY <1>4
<1> DEFINE num == CHOOSE p : Loop(p)
<1>6. Loop(num)
  <2> HIDE DEF Loop
  <2> QED BY <1>5
<1>7. BigEndian(s) = num[n]
  BY DEF BigEndian
<1> HIDE DEF num, n
<1>8. num[0] = 0 /\ \A i \in 1 .. n : num[i] = num[i-1] * Base + s[i]
  <2>1. \A i \in 0 .. n : num[i] = IF i = 0 THEN 0 ELSE num[i-1] * Base + s[i]
    BY <1>6
  <2>2. \A i \in 1 .. n : i \in 0 .. n /\ i # 0
    BY <1>1
  <2> QED BY <1>1, <2>1, <2>2
<1>9. \A i \in 0 .. n : num[i] \in Nat
  <2> DEFINE K == {i \in 0 .. n : num[i] \in Nat}
  <2>1. 0 \in K
    BY <1>1, <1>8
  <2>2. ASSUME NEW i \in 1 .. n, i - 1 \in K PROVE i \in K
    <3>1. num[i-1] \in Nat /\ s[i] \in Nat /\ num[i] = num[i-1] * Base + s[i]
      BY <1>1, <1>8, <2>2
    <3>2. \A x, y \in Nat : x * Base + y \in Nat
      BY <1>1
    <3>3. num[i] \in Nat
      BY <3>1, <3>2
    <3> QED BY <1>1, <3>3
  <2> HIDE DEF K
  <2>3. 0 .. n \subseteq K
    BY <1>1, <2>1, <2>2, UpTo
  <2> QED BY <2>3 DEF K
<1>10. num \in [0 .. n -> Nat]
  BY <1>6, <1>9
<1> QED BY <1>7, <1>8, <1>10 DEF n

LEMMA BigEndianType ==
    ASSUME NEW s \in Seq(Byte)
    PROVE  BigEndian(s) \in Nat
<1>1. PICK num \in [0 .. Len(s) -> Nat] : BigEndian(s) = num[Len(s)]
  BY BigEndianIs
<1>2. Len(s) \in 0 .. Len(s)
  OBVIOUS
<1> QED BY <1>1, <1>2

LEMMA ByteType ==
    ASSUME NEW b \in Seq(Byte), NEW i \in 1 .. Len(b)
    PROVE  b[i] \in Byte /\ b[i] \in Nat /\ b[i] < Base
<1>1. b[i] \in Byte
  OBVIOUS
<1> QED BY <1>1, BaseType DEF Byte

\* The digits of a number are bytes, and read back as that number.
LEMMA DigitsRoundTrip ==
    ASSUME NEW n \in Nat, NEW k \in 1 .. 8, Shifted(n)[k] = 0
    PROVE  /\ Digits(n, k) \in Seq(Byte)
           /\ Len(Digits(n, k)) = k
           /\ BigEndian(Digits(n, k)) = n
<1> DEFINE q == Shifted(n)
           d == Digits(n, k)
<1>1. /\ q \in [0 .. 8 -> Nat] /\ q[0] = n /\ q[k] = 0
      /\ \A i \in 1 .. 8 : q[i] = q[i-1] \div Base
  BY ShiftedIs
<1>2. d = [i \in 1 .. k |-> q[k-i] % Base]
  BY DEF Digits
<1> HIDE DEF q, d
<1>3. ASSUME NEW i \in 1 .. k PROVE q[k-i] \in Nat /\ q[k-i] % Base \in Byte
  <2>1. k - i \in 0 .. 8
    OBVIOUS
  <2>2. q[k-i] \in Nat
    BY <1>1, <2>1
  <2> QED BY <2>2, BaseType, DivMod DEF Byte
<1>4. d \in Seq(Byte) /\ Len(d) = k /\ \A i \in 1 .. k : d[i] = q[k-i] % Base
  BY <1>2, <1>3
<1>5. PICK num \in [0 .. k -> Nat] :
          /\ num[0] = 0
          /\ \A i \in 1 .. k : num[i] = num[i-1] * Base + d[i]
          /\ BigEndian(d) = num[k]
  BY <1>4, BigEndianIs
<1> DEFINE K == {i \in 0 .. k : num[i] = q[k-i]}
<1>6. 0 \in K
  BY <1>1, <1>5, SMTT(30)
<1>7. ASSUME NEW i \in 1 .. k, i - 1 \in K PROVE i \in K
  <2>1. num[i-1] = q[k-i+1]
    BY <1>7
  <2>2. k - i + 1 \in 1 .. 8 /\ k - i + 1 - 1 = k - i
    OBVIOUS
  <2>3. q[k-i+1] = q[k-i] \div Base
    <3> DEFINE j == k - i + 1
    <3>1. j \in 1 .. 8 /\ j - 1 = k - i
      BY <2>2
    <3> HIDE DEF j
    <3>2. q[j] = q[j-1] \div Base
      BY <1>1, <3>1
    <3> QED BY <3>1, <3>2 DEF j
  <2> DEFINE x == q[k-i]
  <2>4. x \in Nat
    BY <1>3
  <2>5. num[i] = (x \div Base) * Base + (x % Base)
    BY <1>4, <1>5, <2>1, <2>3
  <2> HIDE DEF x
  <2>6. x = (x % Base) + (Base * (x \div Base)) /\ x \div Base \in Nat
    BY <2>4, BaseType, DivMod
  <2>7. (x \div Base) * Base = Base * (x \div Base)
    BY <2>6, BaseType
  <2>8. num[i] = x
    BY <2>4, <2>5, <2>6, <2>7, BaseType, DivMod
  <2> QED BY <2>8 DEF x
<1> HIDE DEF K
<1>8. 0 .. k \subseteq K
  <2>1. k \in Nat
    OBVIOUS
  <2> QED BY <1>6, <1>7, <2>1, UpTo
<1>9. num[k] = q[0]
  BY <1>8 DEF K
<1> QED BY <1>1, <1>4, <1>5, <1>9 DEF d

\* The first of the digits that encode_len writes is not zero, that of a longer
\* length is.
LEMMA LeadingDigit ==
    ASSUME NEW n \in Nat, NEW m \in 1 .. 7, Shifted(n)[m] = 0
    PROVE  /\ n >= Half => Digits(n, Width(n))[1] # 0
           /\ Digits(n, Width(n) + 1)[1] = 0
<1> DEFINE q == Shifted(n)
           w == Width(n)
<1>1. w \in 1 .. m /\ q[w] = 0 /\ (w = 1 \/ q[w-1] # 0)
  BY WidthIs
<1>2. /\ q \in [0 .. 8 -> Nat] /\ q[0] = n
      /\ \A i \in 1 .. 8 : q[i] = q[i-1] \div Base
  BY ShiftedIs
<1>3. /\ Digits(n, w) = [i \in 1 .. w |-> q[w-i] % Base]
      /\ Digits(n, w+1) = [i \in 1 .. w + 1 |-> q[(w+1)-i] % Base]
  BY DEF Digits
<1> HIDE DEF q, w
<1>4. Digits(n, w+1)[1] = 0
  <2>1. 1 \in 1 .. w + 1 /\ w + 1 - 1 = w
    BY <1>1
  <2> QED BY <1>1, <1>3, <2>1, BaseType, SMTT(30)
<1>5. ASSUME n >= Half PROVE Digits(n, w)[1] # 0
  <2> DEFINE x == q[w-1]
  <2>1. w - 1 \in 0 .. 8 /\ w \in 1 .. 8
    BY <1>1
  <2>2. x \in Nat
    BY <1>2, <2>1
  <2>3. x \div Base = 0
    BY <1>1, <1>2, <2>1
  <2>4. x # 0
    BY <1>1, <1>2, <1>5, BaseType
  <2>5. Digits(n, w)[1] = x % Base
    BY <1>1, <1>3
  <2> HIDE DEF x
  <2>6. x = (x % Base) + (Base * (x \div Base)) /\ x % Base \in Nat
    BY <2>2, DivBase
  <2>7. Base * (x \div Base) = 0
    BY <2>3, BaseType
  <2> QED BY <2>2, <2>4, <2>5, <2>6, <2>7
<1> QED BY <1>4, <1>5 DEF w

----------------------------------------------------------------------------
(* Where a value stands in a buffer *)

At(b, p, v) ==
    /\ b \in Seq(Byte) /\ v \in Seq(Byte) /\ p \in Nat /\ p + Len(v) <= Len(b)
    /\ \A i \in 1 .. Len(v) : b[p + i] = v[i]

LEMMA SliceIs ==
    ASSUME NEW b \in Seq(Byte), NEW from \in Nat, NEW to \in Nat, from <= to, to <= Len(b)
    PROVE  /\ Slice(b, from, to) \in Seq(Byte)
           /\ Len(Slice(b, from, to)) = to - from
           /\ \A i \in 1 .. to - from : Slice(b, from, to)[i] = b[from + i]
<1> DEFINE cell(i) == b[i + (from + 1) - 1]
           t == [i \in 1 .. to - from |-> cell(i)]
<1>1. Slice(b, from, to) = t
  BY DEF Slice
<1>2. \A i \in 1 .. to - from : cell(i) = b[from + i] /\ b[from + i] \in Byte
  OBVIOUS
<1> HIDE DEF cell
<1>3. t \in Seq(Byte) /\ Len(t) = to - from /\ \A i \in 1 .. to - from : t[i] = cell(i)
  BY <1>2
<1> QED BY <1>1, <1>2, <1>3

LEMMA SliceAt ==
    ASSUME NEW b, NEW p, NEW v, At(b, p, v)
    PROVE  Slice(b, p, p + Len(v)) = v
<1> DEFINE t == Slice(b, p, p + Len(v))
<1>1. /\ b \in Seq(Byte) /\ v \in Seq(Byte) /\ p \in Nat /\ p + Len(v) <= Len(b)
      /\ Len(v) \in Nat
  BY DEF At
<1>2. /\ t \in Seq(Byte) /\ Len(t) = Len(v)
      /\ \A i \in 1 .. Len(v) : t[i] = b[p + i]
  <2> DEFINE to == p + Len(v)
  <2>1. to \in Nat /\ p <= to /\ to <= Len(b) /\ to - p = Len(v)
    BY <1>1
  <2> HIDE DEF to
  <2>2. /\ Slice(b, p, to) \in Seq(Byte) /\ Len(Slice(b, p, to)) = to - p
        /\ \A i \in 1 .. to - p : Slice(b, p, to)[i] = b[p + i]
    BY <1>1, <2>1, SliceIs
  <2> QED BY <2>1, <2>2 DEF to
<1> HIDE DEF t
<1>3. \A i \in 1 .. Len(v) : t[i] = v[i]
  BY <1>2 DEF At
<1>4. t = v
  BY <1>1, <1>2, <1>3, SeqEqual
<1> QED BY <1>4 DEF t

LEMMA AtSlice ==
    ASSUME NEW b \in Seq(Byte), NEW from \in Nat, NEW to \in Nat, from <= to, to <= Len(b)
    PROVE  At(b, from, Slice(b, from, to))
<1> DEFINE t == Slice(b, from, to)
<1>1. t \in Seq(Byte) /\ Len(t) = to - from /\ \A i \in 1 .. to - from : t[i] = b[from + i]
  BY SliceIs
<1> HIDE DEF t
<1>2. At(b, from, t)
  BY <1>1 DEF At
<1> QED BY <1>2 DEF t

\* A part of a part is a part, and so are the two halves of a concatenation.
LEMMA AtWithin ==
    ASSUME NEW b, NEW p, NEW v, NEW q, NEW w, At(b, p, v), At(v, q, w)
    PROVE  At(b, p + q, w)
<1>1. /\ b \in Seq(Byte) /\ v \in Seq(Byte) /\ w \in Seq(Byte) /\ p \in Nat /\ q \in Nat
      /\ p + Len(v) <= Len(b) /\ q + Len(w) <= Len(v)
      /\ Len(w) \in Nat /\ Len(v) \in Nat /\ Len(b) \in Nat
  BY DEF At
<1>2. ASSUME NEW i \in 1 .. Len(w) PROVE b[(p + q) + i] = w[i]
  <2>1. q + i \in 1 .. Len(v) /\ p + (q + i) = (p + q) + i
    BY <1>1
  <2>2. v[q + i] = w[i]
    BY DEF At
  <2>3. b[p + (q + i)] = v[q + i]
    BY <2>1 DEF At
  <2> QED BY <2>1, <2>2, <2>3
<1> QED BY <1>1, <1>2 DEF At

LEMMA AtJoin ==
    ASSUME NEW x \in Seq(Byte), NEW y \in Seq(Byte)
    PROVE  At(x \o y, 0, x) /\ At(x \o y, Len(x), y)
<1> DEFINE z == x \o y
<1>1. /\ z \in Seq(Byte) /\ Len(z) = Len(x) + Len(y)
      /\ \A i \in 1 .. Len(x) : z[i] = x[i]
      /\ \A i \in 1 .. Len(y) : z[Len(x) + i] = y[i]
  BY ConcatType
<1>2. Len(x) \in Nat /\ Len(y) \in Nat
  OBVIOUS
<1> HIDE DEF z
<1>3. At(z, 0, x) /\ At(z, Len(x), y)
  BY <1>1, <1>2 DEF At
<1> QED BY <1>3 DEF z

LEMMA AtSplit ==
    ASSUME NEW b, NEW p, NEW x \in Seq(Byte), NEW y \in Seq(Byte), At(b, p, x \o y)
    PROVE  At(b, p, x) /\ At(b, p + Len(x), y)
<1>1. At(b, p + 0, x) /\ At(b, p + Len(x), y)
  BY AtJoin, AtWithin
<1>2. p \in Nat /\ p + 0 = p
  BY DEF At
<1> QED BY <1>1, <1>2

----------------------------------------------------------------------------
(* Headers *)

Header(tag, full, cs, ce) ==
    [ok |-> TRUE, tag |-> tag, full |-> full, cs |-> cs, ce |-> ce]

\* A header that can be read lies in the buffer, before a content that does.
LEMMA HeaderType ==
    ASSUME NEW b \in Seq(Byte), NEW p \in Nat, read_header(b, p).ok
    PROVE  LET h == read_header(b, p)
           IN  /\ h = Header(b[p+1], p, h.cs, h.ce)
               /\ h.tag = b[p+1] /\ h.full = p /\ b[p+1] \in Byte
               /\ h.cs \in Nat /\ h.ce \in Nat
               /\ p + 2 <= h.cs /\ h.cs <= h.ce /\ h.ce <= Len(b)
<1> DEFINE h   == read_header(b, p)
           l0  == b[p + 2]
           n   == IF l0 < Half THEN 0 ELSE l0 - Half
           cs  == p + 2 + n
           len == IF l0 < Half THEN l0 ELSE BigEndian(Slice(b, p + 2, cs))
<1>1. ~(p + 1 >= Len(b))
  BY DEF read_header, Malformed
<1>2. p + 1 \in 1 .. Len(b) /\ p + 2 \in 1 .. Len(b)
  BY <1>1
<1>3. l0 \in Byte /\ b[p+1] \in Byte
  BY <1>2
<1>4. l0 \in Nat /\ n \in Nat /\ cs \in Nat /\ p + 2 <= cs
  BY <1>3, BaseType, SMTT(30) DEF Byte
<1>5. /\ ~(l0 >= Half /\ (n = 0 \/ n > MaxDigits \/ cs > Len(b)))
      /\ ~(cs + len > Len(b))
      /\ h = Header(b[p+1], p, cs, cs + len)
  BY <1>1 DEF read_header, Malformed, Header
<1> HIDE DEF h
<1>6. len \in Nat
  <2>1. CASE l0 < Half
    BY <1>4, <2>1
  <2>2. CASE l0 >= Half
    <3> HIDE DEF n, cs, l0
    <3>1. cs <= Len(b)
      BY <1>4, <1>5, <2>2
    <3> DEFINE s == Slice(b, p + 2, cs)
    <3>2. s \in Seq(Byte)
      BY <1>4, <3>1, SliceIs
    <3> HIDE DEF s
    <3>3. BigEndian(s) \in Nat
      BY <3>2, BigEndianType
    <3> QED BY <1>4, <2>2, <3>3, BaseType DEF s
  <2> QED BY <1>4, <2>1, <2>2, BaseType, SMTT(30)
<1> HIDE DEF n, cs, len, l0
<1>7. /\ h.tag = b[p+1] /\ h.full = p /\ h.cs = cs /\ h.ce = cs + len
  BY <1>5 DEF Header
<1> QED BY <1>3, <1>4, <1>5, <1>6, <1>7 DEF h

\* What is read of a part is read of the whole, with every position moved.
LEMMA HeaderWithin ==
    ASSUME NEW b, NEW p, NEW v, At(b, p, v), NEW q \in Nat, read_header(v, q).ok
    PROVE  LET h == read_header(v, q)
           IN  read_header(b, p + q) = Header(h.tag, p + q, p + h.cs, p + h.ce)
<1> DEFINE h   == read_header(v, q)
           l0  == v[q + 2]
           n   == IF l0 < Half THEN 0 ELSE l0 - Half
           cs  == q + 2 + n
           len == IF l0 < Half THEN l0 ELSE BigEndian(Slice(v, q + 2, cs))
           d   == p + q
           m0  == b[d + 2]
           m   == IF m0 < Half THEN 0 ELSE m0 - Half
           ds  == d + 2 + m
           men == IF m0 < Half THEN m0 ELSE BigEndian(Slice(b, d + 2, ds))
<1>0. /\ b \in Seq(Byte) /\ v \in Seq(Byte) /\ p \in Nat /\ p + Len(v) <= Len(b)
      /\ Len(v) \in Nat /\ Len(b) \in Nat
      /\ \A i \in 1 .. Len(v) : b[p + i] = v[i]
  BY DEF At
<1>1. ~(q + 1 >= Len(v))
  BY DEF read_header, Malformed
<1>2. /\ ~(l0 >= Half /\ (n = 0 \/ n > MaxDigits \/ cs > Len(v)))
      /\ ~(cs + len > Len(v))
      /\ h = Header(v[q+1], q, cs, cs + len)
  BY <1>1 DEF read_header, Malformed, Header
<1>3. h.tag = v[q+1] /\ h.cs = cs /\ h.ce = cs + len /\ h.cs \in Nat /\ h.ce \in Nat
  <2>1. h.cs \in Nat /\ h.ce \in Nat
    BY <1>0, HeaderType
  <2> HIDE DEF h
  <2> QED BY <1>2, <2>1 DEF Header
<1>4. /\ q + 1 \in 1 .. Len(v) /\ q + 2 \in 1 .. Len(v)
      /\ p + (q + 1) = d + 1 /\ p + (q + 2) = d + 2 /\ d \in Nat
  BY <1>0, <1>1
<1>5. b[d + 1] = v[q + 1] /\ m0 = l0
  BY <1>0, <1>4
<1>6. l0 \in Nat
  BY <1>0, <1>4, ByteType
<1>7. m = n /\ n \in Nat /\ ds = p + cs /\ q + 2 <= cs /\ cs \in Nat
  <2>1. m = n /\ n \in Nat
    <3> HIDE DEF l0, m0
    <3> QED BY <1>5, <1>6, BaseType
  <2> HIDE DEF m, n
  <2> QED BY <1>0, <1>4, <2>1
<1>8. men = len
  <2>1. CASE l0 < Half
    BY <1>5, <2>1
  <2>2. CASE ~(l0 < Half)
    <3> HIDE DEF l0, cs, n, m, ds
    <3>1. cs <= Len(v) /\ q + 2 <= cs /\ q + 2 \in Nat /\ cs \in Nat
      BY <1>0, <1>2, <1>6, <1>7, <2>2, BaseType, SMTT(30)
    <3> DEFINE s == Slice(v, q + 2, cs)
    <3>2. At(v, q + 2, s) /\ s \in Seq(Byte) /\ Len(s) = cs - (q + 2)
      BY <1>0, <3>1, SliceIs, AtSlice, ZenonT(40)
    <3>3. At(b, p + (q + 2), s)
      BY <3>2, AtWithin
    <3> HIDE DEF s
    <3>4. (d + 2) + Len(s) = ds
      BY <1>0, <1>4, <1>7, <3>1, <3>2
    <3>5. Slice(b, d + 2, ds) = s
      BY <1>4, <3>3, <3>4, SliceAt
    <3> QED BY <1>5, <2>2, <3>5 DEF s
  <2> QED BY <2>1, <2>2
<1>9. len \in Nat
  <2>1. CASE l0 < Half
    BY <1>6, <2>1
  <2>2. CASE ~(l0 < Half)
    <3> HIDE DEF l0, cs, n
    <3>1. cs <= Len(v) /\ q + 2 \in Nat
      BY <1>0, <1>2, <1>6, <1>7, <2>2, BaseType, SMTT(30)
    <3>2. BigEndian(Slice(v, q + 2, cs)) \in Nat
      BY <1>0, <1>7, <3>1, SliceIs, BigEndianType
    <3> QED BY <2>2, <3>2
  <2> QED BY <2>1, <2>2
<1> HIDE DEF h, l0, n, cs, len, m0, m, ds, men
<1>10. ~(d + 1 >= Len(b))
  BY <1>0, <1>1, <1>4
<1>11. ~(m0 >= Half /\ (m = 0 \/ m > MaxDigits \/ ds > Len(b)))
  BY <1>0, <1>2, <1>5, <1>7, <1>9
<1>12. ~(ds + men > Len(b)) /\ ds + men = p + h.ce /\ ds = p + h.cs
  BY <1>0, <1>2, <1>3, <1>7, <1>8, <1>9
<1>13. read_header(b, d) = Header(b[d+1], d, ds, ds + men)
  BY <1>10, <1>11, <1>12 DEF read_header, Header, m0, m, ds, men
<1> QED BY <1>3, <1>5, <1>12, <1>13 DEF h

----------------------------------------------------------------------------
(* Values *)

\* t is one value: this tag, a length, this content.
Tlv(t, tag, content) ==
    /\ t \in Seq(Byte) /\ content \in Seq(Byte) /\ Len(content) + 2 <= Len(t)
    /\ read_header(t, 0) = Header(tag, 0, Len(t) - Len(content), Len(t))
    /\ At(t, Len(t) - Len(content), content)

\* Base * Base * Base bounds what three digits can write.
LEMMA ThreeDigits ==
    ASSUME NEW n \in Nat, n < Base * Base * Base
    PROVE  Shifted(n)[3] = 0
<1> DEFINE q == Shifted(n)
           B2 == Base * Base
<1>1. /\ q[0] = n /\ q[1] = q[0] \div Base /\ q[2] = q[1] \div Base
      /\ q[3] = q[2] \div Base
  BY ShiftedIs
<1>2. q[1] \in Nat /\ q[2] \in Nat /\ q[3] \in Nat
  BY ShiftedIs
<1>3. Base \in Nat \ {0} /\ B2 \in Nat /\ Base * Base * Base = Base * B2
  BY BaseType
<1> HIDE DEF q, B2
<1>4. q[1] < B2
  <2>1. n < Base * B2
    BY <1>3
  <2>2. n \div Base < B2
    BY <1>3, <2>1, DivBound
  <2> QED BY <1>1, <2>2
<1>5. q[2] < Base
  <2>1. q[1] < Base * Base
    BY <1>4 DEF B2
  <2>2. q[1] \div Base < Base
    BY <1>2, <1>3, <2>1, DivBound
  <2> QED BY <1>1, <2>2
<1>6. q[3] < 1
  <2>1. q[2] < Base * 1 /\ 1 \in Nat
    BY <1>2, <1>3, <1>5
  <2>2. q[2] \div Base < 1
    BY <1>2, <1>3, <2>1, DivBound
  <2> QED BY <1>1, <2>2
<1> QED BY <1>2, <1>6 DEF q

\* A value whose length is written with k digits.
LEMMA DigitTlv ==
    ASSUME NEW tag \in Byte, NEW c \in Seq(Byte), NEW k \in 1 .. 4, Shifted(Len(c))[k] = 0
    PROVE  LET t == << tag, Half + k >> \o Digits(Len(c), k) \o c
           IN  /\ Tlv(t, tag, c)
               /\ Len(t) = 2 + k + Len(c)
               /\ t[2] = Half + k /\ t[3] = Digits(Len(c), k)[1]
<1> DEFINE n == Len(c)
           d == Digits(n, k)
           a == << tag, Half + k >>
           e == a \o d
           t == e \o c
<1>1. n \in Nat /\ k \in 1 .. 8 /\ k \in Nat
  OBVIOUS
<1>2. d \in Seq(Byte) /\ Len(d) = k /\ BigEndian(d) = n
  <2> HIDE DEF n
  <2>1. Shifted(n)[k] = 0
    BY DEF n
  <2> QED BY <1>1, <2>1, DigitsRoundTrip
<1>3. a \in Seq(Byte) /\ Len(a) = 2 /\ a[1] = tag /\ a[2] = Half + k
  <2>1. Half + k \in Byte
    BY BaseType DEF Byte
  <2> QED BY <2>1
<1> HIDE DEF n, d, a
<1>4. /\ e \in Seq(Byte) /\ Len(e) = 2 + k
      /\ e[1] = tag /\ e[2] = Half + k /\ e[3] = d[1]
  <2>1. /\ e \in Seq(Byte) /\ Len(e) = Len(a) + Len(d)
        /\ \A i \in 1 .. Len(a) : e[i] = a[i]
        /\ \A i \in 1 .. Len(d) : e[Len(a) + i] = d[i]
    <3>1. a \in Seq(Byte) /\ d \in Seq(Byte)
      BY <1>2, <1>3
    <3> QED BY <3>1, ConcatType
  <2>2. e[2 + 1] = d[1]
    BY <1>1, <1>2, <1>3, <2>1
  <2> QED BY <1>1, <1>2, <1>3, <2>1, <2>2
<1>5. At(e, 2, d)
  BY <1>2, <1>3, AtJoin
<1> HIDE DEF e
<1>6. /\ t \in Seq(Byte) /\ Len(t) = (2 + k) + n
      /\ \A i \in 1 .. 2 + k : t[i] = e[i]
  BY <1>4, ConcatType DEF n
<1>7. At(t, 0, e) /\ At(t, 2 + k, c)
  BY <1>4, AtJoin
<1>8. At(t, 2, d)
  <2>1. At(t, 0 + 2, d)
    BY <1>5, <1>7, AtWithin
  <2> QED BY <2>1
<1> HIDE DEF t
<1>9. t[1] = tag /\ t[2] = Half + k /\ t[3] = d[1]
  BY <1>1, <1>4, <1>6
<1>10. Slice(t, 2, 2 + k) = d
  BY <1>2, <1>8, SliceAt
<1>11. read_header(t, 0) = Header(tag, 0, 2 + k, Len(t))
  <2> DEFINE l0  == t[0 + 2]
             m   == IF l0 < Half THEN 0 ELSE l0 - Half
             cs  == 0 + 2 + m
             len == IF l0 < Half THEN l0 ELSE BigEndian(Slice(t, 0 + 2, cs))
  <2>1. l0 = Half + k /\ ~(l0 < Half) /\ m = k
    BY <1>1, <1>9, BaseType
  <2>2. cs = 2 + k
    BY <1>1, <2>1
  <2>3. len = n
    BY <1>2, <1>10, <2>1, <2>2
  <2>4. t[0 + 1] = tag
    BY <1>9
  <2> HIDE DEF l0, m, cs, len
  <2>5. ~(0 + 1 >= Len(t)) /\ ~(cs + len > Len(t)) /\ cs + len = Len(t)
    BY <1>1, <1>6, <2>2, <2>3
  <2>6. ~(l0 >= Half /\ (m = 0 \/ m > MaxDigits \/ cs > Len(t)))
    BY <1>1, <1>6, <2>1, <2>2 DEF MaxDigits
  <2>7. read_header(t, 0) = Header(t[0 + 1], 0, cs, cs + len)
    BY <2>5, <2>6 DEF read_header, Header, l0, m, cs, len
  <2> QED BY <2>2, <2>4, <2>5, <2>7
<1>12. Len(t) - n = 2 + k /\ n + 2 <= Len(t)
  BY <1>1, <1>6
<1>13. Tlv(t, tag, c)
  BY <1>6, <1>7, <1>11, <1>12 DEF Tlv, n
<1>14. Len(t) = 2 + k + Len(c)
  BY <1>6 DEF n
<1> QED BY <1>9, <1>13, <1>14 DEF t, e, d, a, n

\* A value whose length is one byte.
LEMMA ShortTlv ==
    ASSUME NEW tag \in Byte, NEW c \in Seq(Byte), Len(c) < Half
    PROVE  LET t == << tag, Len(c) >> \o c
           IN  Tlv(t, tag, c) /\ Len(t) = 2 + Len(c) /\ t[2] = Len(c)
<1> DEFINE n == Len(c)
           a == << tag, n >>
           t == a \o c
<1>1. n \in Nat
  OBVIOUS
<1>2. a \in Seq(Byte) /\ Len(a) = 2 /\ a[1] = tag /\ a[2] = n
  <2>1. n \in Byte
    BY BaseType DEF Byte
  <2> QED BY <2>1
<1> HIDE DEF n, a
<1>3. /\ t \in Seq(Byte) /\ Len(t) = 2 + n /\ t[1] = tag /\ t[2] = n
  <2>1. /\ t \in Seq(Byte) /\ Len(t) = Len(a) + Len(c)
        /\ \A i \in 1 .. Len(a) : t[i] = a[i]
    BY <1>2, ConcatType, ZenonT(40)
  <2>2. Len(c) = n
    BY DEF n
  <2>3. t[1] = a[1] /\ t[2] = a[2]
    BY <1>2, <2>1
  <2> QED BY <1>2, <2>1, <2>2, <2>3, Zenon
<1>4. At(t, 2, c)
  BY <1>2, AtJoin
<1> HIDE DEF t
<1>5. read_header(t, 0) = Header(tag, 0, 2, Len(t))
  <2>1. t[0 + 2] = n /\ n < Half /\ t[0 + 1] = tag /\ ~(0 + 1 >= Len(t))
    BY <1>1, <1>3 DEF n
  <2>2. ~(n >= Half) /\ ~((0 + 2 + 0) + n > Len(t)) /\ (0 + 2 + 0) + n = Len(t)
        /\ 0 + 2 + 0 = 2
    BY <1>1, <1>3, <2>1, BaseType
  <2> QED BY <2>1, <2>2 DEF read_header, Header
<1>6. Len(t) - n = 2 /\ n + 2 <= Len(t)
  BY <1>1, <1>3
<1>7. Tlv(t, tag, c)
  BY <1>3, <1>4, <1>5, <1>6 DEF Tlv, n
<1> QED BY <1>3, <1>7 DEF t, a, n

\* What both writers give: a value of at most six bytes more, by whose first
\* digit they are told apart.
LEMMA EmitIs ==
    ASSUME NEW tag \in Byte, NEW c \in Seq(Byte), Len(c) < Base * Base * Base
    PROVE  LET t == emit_tlv(tag, c)
           IN  /\ Tlv(t, tag, c)
               /\ Len(t) <= Len(c) + 6
               /\ ~(t[2] >= Half /\ t[3] = 0)
<1> DEFINE n == Len(c)
           w == Width(n)
           t == emit_tlv(tag, c)
<1>1. n \in Nat /\ Shifted(n)[3] = 0
  BY ThreeDigits
<1>2. w \in 1 .. 3 /\ Shifted(n)[w] = 0
  BY <1>1, WidthIs
<1>3. CASE n < Half
  <2>1. << tag >> \o << n >> = << tag, n >>
    <3> HIDE DEF n
    <3>1. tag \in Nat /\ << n >> \in Seq(Nat) /\ << tag >> \in Seq(Nat)
      BY <1>1, BaseType DEF Byte
    <3>2. << tag >> \o << n >> \in Seq(Nat) /\ << tag, n >> \in Seq(Nat)
      BY <1>1, <3>1
    <3>3. Len(<< tag >> \o << n >>) = 2 /\ Len(<< tag, n >>) = 2
      BY <1>1, <3>1
    <3>4. \A i \in 1 .. 2 : (<< tag >> \o << n >>)[i] = << tag, n >>[i]
      BY <1>1, <3>1
    <3> QED BY <3>2, <3>3, <3>4, SeqEqual
  <2>2. t = << tag, n >> \o c
    <3>1. encode_len(n) = << n >>
      BY <1>3, Zenon DEF encode_len
    <3>2. t = << tag >> \o << n >> \o c
      BY <3>1, Zenon DEF emit_tlv
    <3> QED BY <2>1, <3>2, Zenon
  <2> HIDE DEF t
  <2>3. Tlv(t, tag, c) /\ Len(t) = 2 + n /\ t[2] = n
    BY <1>3, <2>2, ShortTlv
  <2> QED BY <1>1, <1>3, <2>3, BaseType DEF t
<1>4. CASE ~(n < Half)
  <2> DEFINE d == Digits(n, w)
  <2>1. d \in Seq(Byte)
    BY <1>1, <1>2, DigitsRoundTrip
  <2>2. << tag >> \o (<< Half + w >> \o d) = << tag, Half + w >> \o d
    <3> HIDE DEF d, w
    <3>1. w \in Nat /\ Half \in Nat /\ tag \in Nat
      BY <1>2, BaseType DEF Byte
    <3>2. d \in Seq(Nat)
      BY <2>1, BaseType DEF Byte
    <3> DEFINE x == Half + w
    <3>3. x \in Nat
      BY <3>1
    <3> HIDE DEF x
    <3>4. << tag >> \o (<< x >> \o d) = << tag, x >> \o d
      BY <3>1, <3>2, <3>3
    <3> QED BY <3>4 DEF x
  <2>3. t = << tag, Half + w >> \o d \o c
    <3>1. encode_len(n) = << Half + w >> \o d
      BY <1>4, Zenon DEF encode_len
    <3>2. t = << tag >> \o (<< Half + w >> \o d) \o c
      BY <3>1, Zenon DEF emit_tlv
    <3> QED BY <2>2, <3>2, Zenon
  <2> HIDE DEF t
  <2>4. Tlv(t, tag, c) /\ Len(t) = 2 + w + n /\ t[3] = d[1]
    <3> HIDE DEF w
    <3>1. w \in 1 .. 4 /\ Shifted(Len(c))[w] = 0
      BY <1>2
    <3> QED BY <2>3, <3>1, DigitTlv
  <2>5. d[1] # 0
    <3>1. n >= Half /\ 3 \in 1 .. 7
      BY <1>1, <1>4, BaseType
    <3> QED BY <1>1, <3>1, LeadingDigit
  <2> HIDE DEF n, w, d
  <2>6. Len(t) <= n + 6
    BY <1>1, <1>2, <2>4
  <2> QED BY <2>4, <2>5, <2>6 DEF n, t
<1> QED BY <1>3, <1>4

LEMMA LongIs ==
    ASSUME NEW tag \in Byte, NEW c \in Seq(Byte), Len(c) < Base * Base * Base
    PROVE  LET t == LongTlv(tag, c)
           IN  /\ Tlv(t, tag, c)
               /\ Len(t) <= Len(c) + 6
               /\ t[2] >= Half /\ t[3] = 0
<1> DEFINE n == Len(c)
           k == Width(n) + 1
           t == LongTlv(tag, c)
<1>1. n \in Nat /\ Shifted(n)[3] = 0
  BY ThreeDigits
<1>2. k \in 2 .. 4 /\ Shifted(n)[k] = 0
  <2>1. Width(n) \in 1 .. 3 /\ Shifted(n)[Width(n)] = 0
    BY <1>1, WidthIs
  <2>2. Width(n) \in 0 .. 8 /\ k \in Width(n) .. 8 /\ k \in 2 .. 4
    BY <2>1
  <2>3. Shifted(n)[k] = 0
    BY <1>1, <2>1, <2>2, ShiftedOut
  <2> QED BY <2>2, <2>3
<1>3. Digits(n, k)[1] = 0
  BY <1>1, LeadingDigit
<1>4. t = << tag, Half + k >> \o Digits(n, k) \o c
  BY DEF LongTlv
<1> HIDE DEF t, k
<1>5. /\ Tlv(t, tag, c) /\ Len(t) = 2 + k + n
      /\ t[2] = Half + k /\ t[3] = Digits(n, k)[1]
  <2>1. k \in 1 .. 4 /\ Shifted(Len(c))[k] = 0
    BY <1>2
  <2> QED BY <1>4, <2>1, DigitTlv
<1>6. Len(t) <= n + 6 /\ t[2] >= Half
  BY <1>1, <1>2, <1>5, BaseType
<1> QED BY <1>3, <1>5, <1>6 DEF t

\* Where a value stands, its header can be read and its content stands too.
LEMMA TlvAt ==
    ASSUME NEW b, NEW p, NEW t, NEW tag, NEW c, Tlv(t, tag, c), At(b, p, t)
    PROVE  LET cs == p + (Len(t) - Len(c))
               ce == p + Len(t)
           IN  /\ read_header(b, p) = Header(tag, p, cs, ce)
               /\ At(b, cs, c)
               /\ p \in Nat /\ cs \in Nat /\ ce \in Nat /\ p + 2 <= cs /\ cs <= ce
               /\ ce = cs + Len(c) /\ ce <= Len(b)
<1> DEFINE k == Len(t) - Len(c)
<1>1. /\ b \in Seq(Byte) /\ t \in Seq(Byte) /\ c \in Seq(Byte) /\ p \in Nat
      /\ p + Len(t) <= Len(b) /\ Len(c) + 2 <= Len(t)
      /\ read_header(t, 0) = Header(tag, 0, k, Len(t)) /\ At(t, k, c)
  BY DEF Tlv, At
<1>2. Len(t) \in Nat /\ Len(c) \in Nat /\ Len(b) \in Nat /\ k \in Nat /\ k >= 2
  BY <1>1
<1> HIDE DEF k
<1>3. At(b, p + k, c)
  BY <1>1, AtWithin
<1>4. read_header(b, p + 0) = Header(tag, p + 0, p + k, p + Len(t))
  <2> DEFINE h == read_header(t, 0)
  <2>1. h.ok /\ h.tag = tag /\ h.cs = k /\ h.ce = Len(t)
    BY <1>1 DEF Header
  <2> HIDE DEF h
  <2>2. read_header(b, p + 0) = Header(h.tag, p + 0, p + h.cs, p + h.ce)
    BY <2>1, HeaderWithin DEF h
  <2> QED BY <2>1, <2>2
<1>5. p + 0 = p
  BY <1>1
<1>6. p + 2 <= p + k /\ p + k <= p + Len(t) /\ p + Len(t) = (p + k) + Len(c)
  BY <1>1, <1>2 DEF k
<1> QED BY <1>1, <1>2, <1>3, <1>4, <1>5, <1>6 DEF k

----------------------------------------------------------------------------
(* The values of a container *)

\* With a value before the end, S has the one after it.
Closed(b, end, S) ==
    \A q \in S : LET h == read_header(b, q)
                 IN  h.ok /\ h.ce < end => h.ce \in S

\* Where the values from p on start.
Reach(b, end, p) ==
    {q \in Nat : \A S \in SUBSET Nat : p \in S /\ Closed(b, end, S) => q \in S}

LEMMA ReachIn ==
    ASSUME NEW b, NEW end, NEW p, NEW S \in SUBSET Nat, p \in S, Closed(b, end, S)
    PROVE  Reach(b, end, p) \subseteq S
  BY DEF Reach

LEMMA ReachClosed ==
    ASSUME NEW b \in Seq(Byte), NEW end \in Nat, NEW p \in Nat
    PROVE  /\ p \in Reach(b, end, p)
           /\ Reach(b, end, p) \in SUBSET Nat
           /\ Closed(b, end, Reach(b, end, p))
<1>1. p \in Reach(b, end, p) /\ Reach(b, end, p) \in SUBSET Nat
  BY DEF Reach
<1>2. ASSUME NEW q \in Reach(b, end, p), read_header(b, q).ok, read_header(b, q).ce < end
      PROVE  read_header(b, q).ce \in Reach(b, end, p)
  <2> DEFINE c == read_header(b, q).ce
  <2>1. c \in Nat
    BY <1>1, <1>2, HeaderType
  <2>2. ASSUME NEW S \in SUBSET Nat, p \in S, Closed(b, end, S) PROVE c \in S
    <3>1. q \in S
      BY <2>2, ReachIn
    <3> QED BY <1>2, <2>2, <3>1 DEF Closed
  <2> HIDE DEF c
  <2>3. c \in Reach(b, end, p)
    BY <2>1, <2>2 DEF Reach
  <2> QED BY <2>3 DEF c
<1> QED BY <1>1, <1>2 DEF Closed

LEMMA ReachStep ==
    ASSUME NEW b \in Seq(Byte), NEW end \in Nat, NEW p \in Nat
    PROVE  LET h == read_header(b, p)
           IN  Reach(b, end, p) =
                   {p} \cup (IF h.ok /\ h.ce < end THEN Reach(b, end, h.ce) ELSE {})
<1> DEFINE h == read_header(b, p)
           R == Reach(b, end, p)
<1>1. p \in R /\ R \in SUBSET Nat /\ Closed(b, end, R)
  BY ReachClosed
<1>2. CASE h.ok /\ h.ce < end
  <2> DEFINE T == Reach(b, end, h.ce)
             U == {p} \cup T
  <2>1. h.ce \in Nat
    BY <1>2, HeaderType
  <2>2. h.ce \in T /\ T \in SUBSET Nat /\ Closed(b, end, T)
    <3> HIDE DEF h
    <3> QED BY <2>1, ReachClosed
  <2>3. T \subseteq R
    <3>1. h.ce \in R
      BY <1>1, <1>2 DEF Closed
    <3> HIDE DEF h, R
    <3> QED BY <1>1, <3>1, ReachIn
  <2>4. Closed(b, end, U)
    <3> HIDE DEF T
    <3> QED BY <1>2, <2>2 DEF Closed
  <2>5. R \subseteq U
    <3>1. U \in SUBSET Nat /\ p \in U
      BY <2>2
    <3> HIDE DEF U
    <3> QED BY <2>4, <3>1, ReachIn
  <2>6. R = U
    <3> HIDE DEF R, T
    <3> QED BY <1>1, <2>3, <2>5
  <2> HIDE DEF R, T, h
  <2> QED BY <1>2, <2>6 DEF R, T, h
<1>3. CASE ~(h.ok /\ h.ce < end)
  <2> DEFINE U == {p}
  <2>1. Closed(b, end, U) /\ p \in U /\ U \in SUBSET Nat
    BY <1>3 DEF Closed
  <2>2. R \subseteq U
    <3> HIDE DEF U
    <3> QED BY <2>1, ReachIn
  <2>3. R = {p} \cup {}
    <3> HIDE DEF R
    <3> QED BY <1>1, <2>2
  <2> HIDE DEF R, h
  <2> QED BY <1>3, <2>3 DEF R, h
<1> QED BY <1>2, <1>3

LEMMA ReachBelow ==
    ASSUME NEW b \in Seq(Byte), NEW end \in Nat, NEW p \in Nat, p < end
    PROVE  Reach(b, end, p) \subseteq p .. end - 1
<1> DEFINE S == p .. end - 1
<1>1. S \in SUBSET Nat /\ p \in S
  OBVIOUS
<1>2. Closed(b, end, S)
  <2>1. ASSUME NEW q \in S, read_header(b, q).ok, read_header(b, q).ce < end
        PROVE  read_header(b, q).ce \in S
    <3> DEFINE h == read_header(b, q)
    <3>1. h.ce \in Nat /\ h.cs \in Nat /\ q + 2 <= h.cs /\ h.cs <= h.ce
      BY <2>1, HeaderType
    <3>2. q \in Nat /\ p <= q /\ h.ce < end
      BY <2>1
    <3> HIDE DEF h
    <3>3. h.ce \in S
      BY <3>1, <3>2
    <3> QED BY <3>3 DEF h
  <2> HIDE DEF S
  <2> QED BY <2>1 DEF Closed
<1> HIDE DEF S
<1>3. Reach(b, end, p) \subseteq S
  BY <1>1, <1>2, ReachIn
<1> QED BY <1>3 DEF S

\* The recursion of children has one solution.
LEMMA ChildrenIs ==
    ASSUME NEW b \in Seq(Byte), NEW start \in Nat, NEW end \in Nat, start < end
    PROVE  children(b, start, end) = {read_header(b, q) : q \in Reach(b, end, start)}
<1> DEFINE I == start .. end - 1
           G(p) == {read_header(b, q) : q \in Reach(b, end, p)}
           After(f, h) == IF h.ok /\ h.ce < end THEN f[h.ce] ELSE {}
           Loop(f) == f = [p \in I |-> {read_header(b, p)} \cup After(f, read_header(b, p))]
           g == [p \in I |-> G(p)]
           from == CHOOSE f : Loop(f)
<1>1. children(b, start, end) = from[start]
  BY DEF children
<1>2. ASSUME NEW p \in I
      PROVE  LET h == read_header(b, p)
             IN  /\ h.ok => h.ce \in Nat /\ h.ce > p
                 /\ G(p) = {h} \cup (IF h.ok /\ h.ce < end THEN G(h.ce) ELSE {})
  <2> DEFINE h == read_header(b, p)
  <2>1. p \in Nat
    OBVIOUS
  <2>2. h.ok => h.ce \in Nat /\ h.ce > p
    <3>1. SUFFICES ASSUME h.ok PROVE h.ce \in Nat /\ h.ce > p
      OBVIOUS
    <3>2. h.cs \in Nat /\ h.ce \in Nat /\ p + 2 <= h.cs /\ h.cs <= h.ce
      BY <2>1, <3>1, HeaderType
    <3> HIDE DEF h
    <3> QED BY <2>1, <3>2
  <2>3. Reach(b, end, p) =
            {p} \cup (IF h.ok /\ h.ce < end THEN Reach(b, end, h.ce) ELSE {})
    BY <2>1, ReachStep
  <2>4. G(p) = {h} \cup (IF h.ok /\ h.ce < end THEN G(h.ce) ELSE {})
    <3>1. CASE h.ok /\ h.ce < end
      <4>1. Reach(b, end, p) = {p} \cup Reach(b, end, h.ce)
        BY <2>3, <3>1
      <4> QED BY <3>1, <4>1
    <3>2. CASE ~(h.ok /\ h.ce < end)
      <4>1. Reach(b, end, p) = {p}
        BY <2>3, <3>2
      <4>2. G(p) = {h}
        BY <4>1
      <4> HIDE DEF G, h
      <4> QED BY <3>2, <4>2
    <3> QED BY <3>1, <3>2
  <2> QED BY <2>2, <2>4
<1> HIDE DEF G
<1>3. Loop(g)
  <2>1. ASSUME NEW p \in I
        PROVE  G(p) = {read_header(b, p)} \cup After(g, read_header(b, p))
    <3> DEFINE h == read_header(b, p)
    <3>1. /\ h.ok => h.ce \in Nat /\ h.ce > p
          /\ G(p) = {h} \cup (IF h.ok /\ h.ce < end THEN G(h.ce) ELSE {})
      BY <1>2
    <3>2. CASE h.ok /\ h.ce < end
      <4>1. h.ce \in I
        BY <3>1, <3>2
      <4>2. g[h.ce] = G(h.ce)
        BY <4>1
      <4> HIDE DEF h, g
      <4>3. After(g, h) = G(h.ce) /\ G(p) = {h} \cup G(h.ce)
        BY <3>1, <3>2, <4>2
      <4> HIDE DEF After
      <4> QED BY <4>3 DEF h
    <3>3. CASE ~(h.ok /\ h.ce < end)
      <4> HIDE DEF h, g
      <4>1. After(g, h) = {} /\ G(p) = {h} \cup {}
        BY <3>1, <3>3
      <4> HIDE DEF After
      <4> QED BY <4>1 DEF h
    <3> QED BY <3>2, <3>3
  <2> DEFINE F(p) == {read_header(b, p)} \cup After(g, read_header(b, p))
  <2>2. \A p \in I : G(p) = F(p)
    BY <2>1
  <2> HIDE DEF F, I
  <2>3. [p \in I |-> G(p)] = [p \in I |-> F(p)]
    BY <2>2
  <2> QED BY <2>3 DEF F
<1>4. Loop(from)
  <2> HIDE DEF Loop, g
  <2> QED BY <1>3
<1> HIDE DEF from
<1>5. \A p \in I : from[p] = {read_header(b, p)} \cup After(from, read_header(b, p))
  <2> DEFINE F(p) == {read_header(b, p)} \cup After(from, read_header(b, p))
  <2>1. from = [p \in I |-> F(p)]
    BY <1>4
  <2> HIDE DEF F, I
  <2>2. \A p \in I : from[p] = F(p)
    BY <2>1
  <2> QED BY <2>2 DEF F
<1> DEFINE n == end - 1 - start
           K == {k \in 0 .. n : \A p \in I : p >= end - k => from[p] = G(p)}
<1>6. n \in Nat /\ 0 \in K
  OBVIOUS
<1>7. ASSUME NEW k \in 1 .. n + 1, \A p \in I : p >= end - (k - 1) => from[p] = G(p),
             NEW p \in I, p >= end - k
      PROVE  from[p] = G(p)
  <2> DEFINE h == read_header(b, p)
  <2>1. /\ h.ok => h.ce \in Nat /\ h.ce > p
        /\ G(p) = {h} \cup (IF h.ok /\ h.ce < end THEN G(h.ce) ELSE {})
    BY <1>2
  <2>2. from[p] = {h} \cup After(from, h)
    BY <1>5
  <2>3. CASE h.ok /\ h.ce < end
    <3>1. h.ce \in I /\ h.ce >= end - (k - 1)
      BY <1>7, <2>1, <2>3
    <3>2. from[h.ce] = G(h.ce)
      BY <1>7, <3>1
    <3> HIDE DEF h
    <3> QED BY <2>1, <2>2, <2>3, <3>2
  <2>4. CASE ~(h.ok /\ h.ce < end)
    <3> HIDE DEF h
    <3> QED BY <2>1, <2>2, <2>4
  <2> QED BY <2>3, <2>4
<1>8. n \in K
  <2>1. ASSUME NEW k \in 1 .. n, k - 1 \in K PROVE k \in K
    <3>1. k \in 1 .. n + 1 /\ k \in 0 .. n
      BY <1>6
    <3>2. \A p \in I : p >= end - (k - 1) => from[p] = G(p)
      BY <2>1
    <3>3. \A p \in I : p >= end - k => from[p] = G(p)
      BY <1>7, <3>1, <3>2
    <3> QED BY <3>1, <3>3
  <2> HIDE DEF K, n
  <2>2. 0 .. n \subseteq K
    BY <1>6, <2>1, UpTo
  <2> QED BY <1>6, <2>2
<1>9. from[start] = G(start)
  <2>1. n + 1 \in 1 .. n + 1 /\ (n + 1) - 1 = n /\ start \in I /\ start >= end - (n + 1)
    BY <1>6
  <2>2. \A p \in I : p >= end - n => from[p] = G(p)
    BY <1>8
  <2> HIDE DEF n
  <2> QED BY <1>6, <1>7, <2>1, <2>2
<1> QED BY <1>1, <1>9 DEF G

\* A container's values are its first one and those after it.
LEMMA ChildrenStep ==
    ASSUME NEW b \in Seq(Byte), NEW start \in Nat, NEW end \in Nat
    PROVE  LET h == read_header(b, start)
           IN  children(b, start, end) =
                   IF start < end THEN {h} \cup (IF h.ok THEN children(b, h.ce, end) ELSE {})
                   ELSE {}
<1> DEFINE h == read_header(b, start)
           G(p) == {read_header(b, q) : q \in Reach(b, end, p)}
<1>1. CASE start < end
  <2>1. children(b, start, end) = G(start)
    BY <1>1, ChildrenIs
  <2>2. Reach(b, end, start) =
            {start} \cup (IF h.ok /\ h.ce < end THEN Reach(b, end, h.ce) ELSE {})
    BY ReachStep
  <2>3. h.ok => h.ce \in Nat
    BY HeaderType
  <2>4. CASE h.ok /\ h.ce < end
    <3>1. children(b, h.ce, end) = G(h.ce)
      BY <2>3, <2>4, ChildrenIs
    <3>2. Reach(b, end, start) = {start} \cup Reach(b, end, h.ce)
      BY <2>2, <2>4
    <3>3. G(start) = {h} \cup G(h.ce)
      BY <3>2
    <3> HIDE DEF G, h
    <3>4. children(b, start, end) = {h} \cup children(b, h.ce, end)
      BY <2>1, <3>1, <3>3
    <3> QED BY <1>1, <2>4, <3>4 DEF h
  <2>5. CASE h.ok /\ ~(h.ce < end)
    <3>1. children(b, h.ce, end) = {}
      BY <2>5 DEF children
    <3>2. Reach(b, end, start) = {start}
      BY <2>2, <2>5
    <3>3. G(start) = {h}
      BY <3>2
    <3> HIDE DEF G, h
    <3>4. children(b, start, end) = {h} \cup children(b, h.ce, end)
      BY <2>1, <3>1, <3>3
    <3> QED BY <1>1, <2>5, <3>4 DEF h
  <2>6. CASE ~h.ok
    <3>1. Reach(b, end, start) = {start}
      BY <2>2, <2>6
    <3>2. G(start) = {h}
      BY <3>1
    <3> HIDE DEF G, h
    <3>3. children(b, start, end) = {h} \cup {}
      BY <2>1, <3>2
    <3> QED BY <1>1, <2>6, <3>3 DEF h
  <2> QED BY <2>4, <2>5, <2>6
<1>2. CASE ~(start < end)
  BY <1>2 DEF children
<1> QED BY <1>1, <1>2

\* They lie in it.
LEMMA ChildrenAfter ==
    ASSUME NEW b \in Seq(Byte), NEW start \in Nat, NEW end \in Nat,
           NEW h \in children(b, start, end), h.ok
    PROVE  /\ h.full \in start .. end - 1 /\ h.tag \in Byte
           /\ h.cs \in Nat /\ h.ce \in Nat /\ h.cs <= h.ce /\ h.ce <= Len(b)
           /\ h = read_header(b, h.full)
<1>1. start < end
  BY DEF children
<1>2. PICK q \in Reach(b, end, start) : h = read_header(b, q)
  BY <1>1, ChildrenIs
<1>3. q \in start .. end - 1
  BY <1>1, <1>2, ReachBelow
<1>4. q \in Nat
  BY <1>3
<1>5. read_header(b, q).ok
  BY <1>2
<1>6. /\ h.full = q /\ h.tag = b[q+1] /\ b[q+1] \in Byte
      /\ h.cs \in Nat /\ h.ce \in Nat /\ h.cs <= h.ce /\ h.ce <= Len(b)
  BY <1>2, <1>4, <1>5, HeaderType
<1> QED BY <1>2, <1>3, <1>6

Moved(h, p) == Header(h.tag, p + h.full, p + h.cs, p + h.ce)

\* A row of readable values is the same row wherever it stands.
LEMMA ChildrenWithin ==
    ASSUME NEW b, NEW p, NEW v, At(b, p, v), NEW start \in Nat, NEW end \in Nat,
           \A h \in children(v, start, end) : h.ok
    PROVE  children(b, p + start, p + end) = {Moved(h, p) : h \in children(v, start, end)}
<1>0. /\ b \in Seq(Byte) /\ v \in Seq(Byte) /\ p \in Nat
  BY DEF At
<1>1. CASE ~(start < end)
  <2>1. ~(p + start < p + end)
    BY <1>0, <1>1
  <2>2. children(b, p + start, p + end) = {} /\ children(v, start, end) = {}
    BY <1>1, <2>1 DEF children
  <2> QED BY <2>2
<1>2. CASE start < end
  <2> DEFINE R == Reach(v, end, start)
             Q == Reach(b, p + end, p + start)
             S == {p + q : q \in R}
             T == {q \in R : p + q \in Q}
  <2>1. R \in SUBSET Nat /\ start \in R /\ Closed(v, end, R)
    BY <1>0, ReachClosed
  <2>2. p + start \in Nat /\ p + end \in Nat /\ p + start < p + end
    BY <1>0, <1>2
  <2>3. Q \in SUBSET Nat /\ p + start \in Q /\ Closed(b, p + end, Q)
    BY <1>0, <2>2, ReachClosed
  <2>4. children(v, start, end) = {read_header(v, q) : q \in R}
    BY <1>0, <1>2, ChildrenIs
  <2>5. children(b, p + start, p + end) = {read_header(b, q) : q \in Q}
    BY <1>0, <2>2, ChildrenIs
  <2>6. ASSUME NEW q \in R
        PROVE  LET h == read_header(v, q)
               IN  /\ h.ok /\ h.ce \in Nat
                   /\ read_header(b, p + q) = Moved(h, p)
                   /\ read_header(b, p + q).ok
                   /\ read_header(b, p + q).ce = p + h.ce
    <3> DEFINE h == read_header(v, q)
    <3>1. h.ok
      BY <2>4
    <3>2. q \in Nat
      BY <2>1
    <3>3. h.ce \in Nat /\ h.full = q
      BY <1>0, <3>1, <3>2, HeaderType
    <3>4. read_header(b, p + q) = Header(h.tag, p + q, p + h.cs, p + h.ce)
      BY <3>1, <3>2, HeaderWithin
    <3> HIDE DEF h
    <3> QED BY <3>1, <3>3, <3>4 DEF Moved, Header, h
  <2> HIDE DEF R, Q
  <2>7. Q \subseteq S
    <3>1. S \in SUBSET Nat /\ p + start \in S
      BY <1>0, <2>1
    <3>2. Closed(b, p + end, S)
      <4>1. ASSUME NEW x \in S, read_header(b, x).ce < p + end
            PROVE  read_header(b, x).ce \in S
        <5>1. PICK q \in R : x = p + q
          OBVIOUS
        <5> DEFINE c == read_header(v, q).ce
        <5>2. c \in Nat /\ read_header(b, x).ce = p + c /\ read_header(v, q).ok
          BY <2>6, <5>1
        <5>3. c < end
          <6> HIDE DEF c
          <6> QED BY <1>0, <4>1, <5>2
        <5>4. c \in R
          BY <2>1, <5>2, <5>3 DEF Closed
        <5> HIDE DEF c
        <5> QED BY <5>2, <5>4
      <4> HIDE DEF S
      <4> QED BY <4>1 DEF Closed
    <3> HIDE DEF S
    <3> QED BY <3>1, <3>2, ReachIn DEF Q
  <2>8. R \subseteq T
    <3>1. T \in SUBSET Nat /\ start \in T
      BY <2>1, <2>3
    <3>2. Closed(v, end, T)
      <4>1. ASSUME NEW q \in T, read_header(v, q).ce < end
            PROVE  read_header(v, q).ce \in T
        <5> DEFINE c == read_header(v, q).ce
        <5>1. /\ q \in R /\ p + q \in Q
              /\ c \in Nat /\ read_header(v, q).ok
              /\ read_header(b, p + q).ok /\ read_header(b, p + q).ce = p + c
          BY <2>6
        <5>2. c \in R
          BY <2>1, <4>1, <5>1 DEF Closed
        <5>3. p + c < p + end
          <6> HIDE DEF c
          <6>1. c < end
            BY <4>1 DEF c
          <6> QED BY <1>0, <5>1, <6>1
        <5>4. p + c \in Q
          <6> HIDE DEF c
          <6> QED BY <2>3, <5>1, <5>3 DEF Closed
        <5> HIDE DEF c
        <5>5. c \in T
          BY <5>2, <5>4
        <5> QED BY <5>5 DEF c
      <4> HIDE DEF T
      <4> QED BY <4>1 DEF Closed
    <3> HIDE DEF T
    <3> QED BY <3>1, <3>2, ReachIn DEF R
  <2>9. Q = S
    BY <2>7, <2>8
  <2>10. {read_header(b, q) : q \in S} = {Moved(read_header(v, q), p) : q \in R}
    BY <2>6
  <2>11. {Moved(h, p) : h \in {read_header(v, q) : q \in R}}
             = {Moved(read_header(v, q), p) : q \in R}
    OBVIOUS
  <2> HIDE DEF S, T
  <2> QED BY <2>4, <2>5, <2>9, <2>10, <2>11
<1> QED BY <1>1, <1>2

\* The first one with its tag is found.
LEMMA FirstIs ==
    ASSUME NEW kids, NEW tags, NEW m \in kids, m.ok, m.tag \in tags, m.full \in Nat,
           \A k \in kids : k.ok /\ (k.tag \in tags => k = m \/ m.full < k.full),
           \A k \in kids : k.full \in Nat
    PROVE  First(kids, tags) = m
<1> DEFINE found == {h \in kids : h.tag \in tags}
           Least1(h) == \A k \in found : h.full <= k.full
<1>1. m \in found /\ Least1(m)
  OBVIOUS
<1>2. \A h \in found : Least1(h) => h = m
  <2> SUFFICES ASSUME NEW h \in found, Least1(h), h # m PROVE FALSE
    OBVIOUS
  <2>1. m.full < h.full /\ h.full <= m.full /\ h.full \in Nat
    BY <1>1
  <2> QED BY <2>1
<1>3. (CHOOSE h \in found : Least1(h)) = m
  <2> HIDE DEF Least1, found
  <2> QED BY <1>1, <1>2
<1>4. (\A k \in kids : k.ok) /\ found # {}
  BY <1>1
<1> QED BY <1>3, <1>4 DEF First

\* Every value between start and end can be read.
AllOk(b, start, end) == \A h \in children(b, start, end) : h.ok

\* The first value has one of the tags.
LEMMA FirstHere ==
    ASSUME NEW b \in Seq(Byte), NEW start \in Nat, NEW end \in Nat, start < end, NEW tags,
           read_header(b, start).ok, read_header(b, start).tag \in tags,
           AllOk(b, read_header(b, start).ce, end)
    PROVE  /\ First(children(b, start, end), tags) = read_header(b, start)
           /\ AllOk(b, start, end)
<1> DEFINE h == read_header(b, start)
           later == children(b, h.ce, end)
           kids == children(b, start, end)
<1>1. kids = {h} \cup later
  BY ChildrenStep
<1>2. h.full = start /\ h.ce \in Nat /\ start < h.ce
  <2>1. /\ h.full = start /\ h.cs \in Nat /\ h.ce \in Nat
        /\ start + 2 <= h.cs /\ h.cs <= h.ce
    BY HeaderType
  <2> HIDE DEF h
  <2> QED BY <2>1
<1>3. ASSUME NEW k \in later PROVE k.ok /\ k.full \in Nat /\ h.full < k.full
  <2>1. k.ok
    BY DEF AllOk
  <2>2. k.full \in h.ce .. end - 1
    <3> HIDE DEF h
    <3> QED BY <1>2, <2>1, ChildrenAfter
  <2> HIDE DEF h, later
  <2> QED BY <1>2, <2>1, <2>2
<1>4. h.ok /\ h.tag \in tags
  OBVIOUS
<1> HIDE DEF h, later, kids
<1>5. First(kids, tags) = h
  <2>1. h \in kids /\ h.full \in Nat
    BY <1>1, <1>2
  <2>2. \A k \in kids : k.ok /\ (k.tag \in tags => k = h \/ h.full < k.full)
    BY <1>1, <1>3, <1>4
  <2>3. \A k \in kids : k.full \in Nat
    BY <1>1, <1>2, <1>3
  <2> QED BY <1>4, <2>1, <2>2, <2>3, FirstIs
<1>6. \A k \in kids : k.ok
  BY <1>1, <1>3, <1>4
<1> QED BY <1>5, <1>6 DEF AllOk, h, kids

\* It has none, and one of those after it does.
LEMMA FirstThere ==
    ASSUME NEW b \in Seq(Byte), NEW start \in Nat, NEW end \in Nat, start < end, NEW tags,
           read_header(b, start).ok, read_header(b, start).tag \notin tags,
           First(children(b, read_header(b, start).ce, end), tags).ok
    PROVE  First(children(b, start, end), tags)
               = First(children(b, read_header(b, start).ce, end), tags)
<1> DEFINE h == read_header(b, start)
           later == children(b, h.ce, end)
           kids == children(b, start, end)
           Tagged(s) == {k \in s : k.tag \in tags}
<1>1. kids = {h} \cup later
  BY ChildrenStep
<1>2. h.ok /\ h.tag \notin tags /\ First(later, tags).ok
  OBVIOUS
<1> HIDE DEF h, later, kids
<1>3. (\A k \in later : k.ok) /\ Tagged(later) # {}
  <2> SUFFICES ASSUME ~((\A k \in later : k.ok) /\ Tagged(later) # {}) PROVE FALSE
    OBVIOUS
  <2>1. First(later, tags) = Malformed
    BY DEF First
  <2> QED BY <1>2, <2>1 DEF Malformed
<1>4. Tagged(kids) = Tagged(later) /\ \A k \in kids : k.ok
  BY <1>1, <1>2, <1>3
<1>5. First(kids, tags) = First(later, tags)
  <2> DEFINE Pick(s) == CHOOSE k \in s : \A j \in s : k.full <= j.full
  <2>1. First(later, tags) = Pick(Tagged(later))
    BY <1>3 DEF First
  <2>2. Tagged(kids) # {} /\ \A k \in kids : k.ok
    BY <1>3, <1>4
  <2>3. First(kids, tags) = Pick(Tagged(kids))
    BY <2>2 DEF First
  <2> HIDE DEF Tagged, Pick
  <2> QED BY <1>4, <2>1, <2>3
<1> QED BY <1>5 DEF h, later, kids

----------------------------------------------------------------------------
(* Containers *)

\* h is a value of b: this tag and this content.
Value(b, h, tag, c) ==
    /\ h.ok /\ h.tag = tag
    /\ h.full \in Nat /\ h.cs \in Nat /\ h.ce \in Nat
    /\ h.full < h.cs /\ h.cs <= h.ce /\ h.ce <= Len(b)
    /\ h.ce = h.cs + Len(c)
    /\ At(b, h.cs, c)

LEMMA ValueAt ==
    ASSUME NEW b, NEW p, NEW t, NEW tag, NEW c, Tlv(t, tag, c), At(b, p, t)
    PROVE  /\ Value(b, read_header(b, p), tag, c)
           /\ read_header(b, p).full = p
           /\ read_header(b, p).ce = p + Len(t)
           /\ p \in Nat /\ p < p + Len(t)
<1> DEFINE h == read_header(b, p)
           cs == p + (Len(t) - Len(c))
           ce == p + Len(t)
<1>1. /\ h = Header(tag, p, cs, ce)
      /\ At(b, cs, c)
      /\ p \in Nat /\ cs \in Nat /\ ce \in Nat /\ p + 2 <= cs /\ cs <= ce
      /\ ce = cs + Len(c) /\ ce <= Len(b)
  BY TlvAt
<1> HIDE DEF h, cs, ce
<1>2. h.ok /\ h.tag = tag /\ h.full = p /\ h.cs = cs /\ h.ce = ce
  BY <1>1 DEF Header
<1>3. p < cs /\ p < ce
  BY <1>1
<1>4. Value(b, h, tag, c)
  BY <1>1, <1>2, <1>3 DEF Value
<1> QED BY <1>1, <1>2, <1>3, <1>4 DEF h, ce

LEMMA ValueSlice ==
    ASSUME NEW b, NEW h, NEW tag, NEW c, Value(b, h, tag, c)
    PROVE  Slice(b, h.cs, h.ce) = c
<1>1. At(b, h.cs, c) /\ h.ce = h.cs + Len(c)
  BY DEF Value
<1> QED BY <1>1, SliceAt

LEMMA SliceNone ==
    ASSUME NEW b \in Seq(Byte), NEW p \in Nat
    PROVE  Slice(b, p, p) = << >>
<1> DEFINE q == p + 1
<1>1. q \in Nat /\ p < q
  OBVIOUS
<1> HIDE DEF q
<1>2. SubSeq(b, q, p) = << >>
  BY <1>1
<1> QED BY <1>2 DEF Slice, q

LEMMA Alone ==
    ASSUME NEW x \in Seq(Byte)
    PROVE  x \o << >> = x /\ << >> \o x = x
  OBVIOUS

\* A container of one value.
LEMMA OnlyValue ==
    ASSUME NEW b, NEW outer, NEW otag, NEW x, Value(b, outer, otag, x),
           NEW tag, NEW c, Tlv(x, tag, c), NEW tags, tag \in tags
    PROVE  LET h == Child(b, outer, tags)
           IN  /\ Value(b, h, tag, c)
               /\ h.full = outer.cs /\ h.ce = outer.ce
               /\ \A y \in Seq(Byte) : Replaced(b, outer, h, y) = y
<1> DEFINE p == outer.cs
           h == read_header(b, p)
<1>1. /\ outer.ok /\ p \in Nat /\ outer.ce = p + Len(x) /\ At(b, p, x)
      /\ b \in Seq(Byte) /\ outer.ce \in Nat
  BY DEF Value, At
<1>2. Value(b, h, tag, c) /\ h.full = p /\ h.ce = p + Len(x) /\ p < p + Len(x)
  BY <1>1, ValueAt
<1>3. h.ok /\ h.tag \in tags
  BY <1>2 DEF Value
<1>4. p < outer.ce /\ AllOk(b, h.ce, outer.ce)
  BY <1>1, <1>2 DEF AllOk, children
<1> HIDE DEF p
<1>5. First(children(b, p, outer.ce), tags) = h
  BY <1>1, <1>3, <1>4, FirstHere
<1>6. Child(b, outer, tags) = h
  BY <1>1, <1>5 DEF Child, p
<1> HIDE DEF h
<1>7. ASSUME NEW y \in Seq(Byte) PROVE Replaced(b, outer, h, y) = y
  <2>1. Slice(b, outer.cs, h.full) = << >> /\ Slice(b, h.ce, outer.ce) = << >>
    BY <1>1, <1>2, SliceNone DEF p
  <2> QED BY <2>1, Alone DEF Replaced
<1> QED BY <1>1, <1>2, <1>6, <1>7 DEF p

\* A container of a value with another tag and one with this tag.
LEMMA SecondValue ==
    ASSUME NEW b, NEW outer, NEW otag, NEW x, NEW y, Value(b, outer, otag, x \o y),
           NEW xtag, NEW xc, Tlv(x, xtag, xc), NEW ytag, NEW yc, Tlv(y, ytag, yc),
           NEW tags, xtag \notin tags, ytag \in tags, xtag \in Byte
    PROVE  LET h == Child(b, outer, tags)
           IN  /\ Value(b, h, ytag, yc)
               /\ \A z \in Seq(Byte) : Replaced(b, outer, h, z) = x \o z
               /\ FirstChild(b, outer).ok /\ FirstChild(b, outer).tag = xtag
<1> DEFINE p == outer.cs
           e == outer.ce
           g == read_header(b, p)
           q == p + Len(x)
           h == read_header(b, q)
<1>1. /\ outer.ok /\ p \in Nat /\ e = p + Len(x \o y) /\ At(b, p, x \o y)
      /\ b \in Seq(Byte) /\ e \in Nat
  BY DEF Value, At
<1>2. x \in Seq(Byte) /\ y \in Seq(Byte)
  BY DEF Tlv
<1>3. At(b, p, x) /\ At(b, q, y)
  BY <1>1, <1>2, AtSplit
<1>4. Value(b, g, xtag, xc) /\ g.full = p /\ g.ce = q
  BY <1>3, ValueAt
<1>5. Value(b, h, ytag, yc) /\ h.full = q /\ h.ce = q + Len(y) /\ q < q + Len(y) /\ q \in Nat
  <2> HIDE DEF q
  <2> QED BY <1>3, ValueAt
<1>6. q + Len(y) = e /\ p < e /\ q < e
  <2>1. Len(x \o y) = Len(x) + Len(y) /\ Len(x) \in Nat /\ Len(y) \in Nat
    BY <1>2
  <2> HIDE DEF p, e
  <2> QED BY <1>1, <1>5, <2>1 DEF q
<1>7. g.ok /\ g.tag = xtag /\ h.ok /\ h.tag = ytag
  BY <1>4, <1>5 DEF Value
<1>8. AllOk(b, h.ce, e)
  BY <1>5, <1>6 DEF AllOk, children
<1> HIDE DEF p, e, q
<1>9. First(children(b, q, e), tags) = h /\ AllOk(b, q, e)
  <2>1. ytag \in tags
    OBVIOUS
  <2> QED BY <1>1, <1>5, <1>6, <1>7, <1>8, <2>1, FirstHere
<1>10. First(children(b, p, e), tags) = h
  <2>1. g.tag \notin tags /\ First(children(b, g.ce, e), tags) = h
    BY <1>4, <1>7, <1>9
  <2> QED BY <1>1, <1>6, <1>7, <2>1, FirstThere
<1>11. First(children(b, p, e), Byte) = g
  <2>1. g.tag \in Byte /\ AllOk(b, g.ce, e)
    BY <1>4, <1>7, <1>9
  <2> QED BY <1>1, <1>6, <1>7, <2>1, FirstHere
<1>12. Child(b, outer, tags) = h /\ FirstChild(b, outer) = g
  BY <1>1, <1>10, <1>11 DEF Child, FirstChild, p, e
<1> HIDE DEF g, h
<1>13. ASSUME NEW z \in Seq(Byte) PROVE Replaced(b, outer, h, z) = x \o z
  <2>1. Slice(b, p, q) = x
    BY <1>3, SliceAt DEF q
  <2>2. Slice(b, h.ce, e) = << >>
    BY <1>1, <1>5, <1>6, SliceNone
  <2>3. x \o z \in Seq(Byte)
    BY <1>2
  <2> QED BY <1>5, <2>1, <2>2, <2>3, Alone DEF Replaced, p, e
<1> QED BY <1>5, <1>7, <1>12, <1>13

\* SignedData: the version, the digest algorithms, encapContentInfo, the rest.
LEMMA SignedDataValues ==
    ASSUME NEW b, NEW outer, NEW otag,
           NEW ver, NEW alg, NEW enc, NEW rest, NEW vc, NEW ac, NEW ec,
           Value(b, outer, otag, ver \o alg \o enc \o rest),
           Tlv(ver, INTEGER, vc), Tlv(alg, SET, ac), Tlv(enc, SEQUENCE, ec),
           rest \in Seq(Byte), AllOk(rest, 0, Len(rest))
    PROVE  LET h == Child(b, outer, {SEQUENCE})
               v == FirstChild(b, outer)
           IN  /\ Value(b, h, SEQUENCE, ec)
               /\ v.ok /\ v.tag = INTEGER
               /\ Slice(b, v.full, v.ce) = ver
               /\ Slice(b, v.ce, h.full) = alg
               /\ Slice(b, h.ce, outer.ce) = rest
<1> DEFINE p  == outer.cs
           e  == outer.ce
           p2 == p + Len(ver)
           p3 == p2 + Len(alg)
           p4 == p3 + Len(enc)
           g  == read_header(b, p)
           k  == read_header(b, p2)
           h  == read_header(b, p3)
           all == ver \o alg \o enc \o rest
<1>1. /\ outer.ok /\ p \in Nat /\ e = p + Len(all) /\ At(b, p, all)
      /\ b \in Seq(Byte) /\ e \in Nat
  BY DEF Value, At
<1>2. /\ ver \in Seq(Byte) /\ alg \in Seq(Byte) /\ enc \in Seq(Byte) /\ rest \in Seq(Byte)
  BY DEF Tlv
<1>3. /\ ver \o alg \in Seq(Byte) /\ (ver \o alg) \o enc \in Seq(Byte)
      /\ Len(ver \o alg) = Len(ver) + Len(alg)
      /\ Len((ver \o alg) \o enc) = Len(ver) + Len(alg) + Len(enc)
      /\ Len(all) = Len(ver) + Len(alg) + Len(enc) + Len(rest)
  <2> DEFINE x == ver \o alg
             y == x \o enc
  <2>1. x \in Seq(Byte) /\ Len(x) = Len(ver) + Len(alg)
    BY <1>2, ConcatType
  <2> HIDE DEF x
  <2>2. y \in Seq(Byte) /\ Len(y) = Len(x) + Len(enc)
    BY <1>2, <2>1, ConcatType
  <2> HIDE DEF y
  <2>3. Len(y \o rest) = Len(y) + Len(rest)
    BY <1>2, <2>2, ConcatType
  <2> QED BY <2>1, <2>2, <2>3 DEF x, y
<1>4. Len(ver) \in Nat /\ Len(alg) \in Nat /\ Len(enc) \in Nat /\ Len(rest) \in Nat
  BY <1>2
<1>5. At(b, p, ver) /\ At(b, p2, alg) /\ At(b, p3, enc) /\ At(b, p4, rest)
  <2> DEFINE x == ver \o alg
             y == x \o enc
  <2>1. x \in Seq(Byte) /\ y \in Seq(Byte) /\ Len(x) = Len(ver) + Len(alg)
        /\ Len(y) = Len(ver) + Len(alg) + Len(enc)
    BY <1>3
  <2> HIDE DEF y
  <2>2. At(b, p, y) /\ At(b, p + Len(y), rest)
    BY <1>1, <1>2, <2>1, AtSplit DEF y
  <2> USE DEF y
  <2> HIDE DEF x
  <2>3. At(b, p, x) /\ At(b, p + Len(x), enc)
    BY <1>2, <2>1, <2>2, AtSplit
  <2>4. At(b, p, ver) /\ At(b, p + Len(ver), alg)
    BY <1>2, <2>3, AtSplit DEF x
  <2>5. p + Len(x) = p3 /\ p + Len(y) = p4
    <3> HIDE DEF p, y
    <3> QED BY <1>1, <1>4, <2>1
  <2> QED BY <2>2, <2>3, <2>4, <2>5
<1>6. e = p4 + Len(rest) /\ p2 \in Nat /\ p3 \in Nat /\ p4 \in Nat /\ p4 <= e
  <2> HIDE DEF p, e, all
  <2> QED BY <1>1, <1>3, <1>4
<1> HIDE DEF all
<1>7. Value(b, g, INTEGER, vc) /\ g.full = p /\ g.ce = p2 /\ p < p2
  BY <1>5, ValueAt
<1> HIDE DEF p2
<1>8. Value(b, k, SET, ac) /\ k.full = p2 /\ k.ce = p3 /\ p2 < p3
  BY <1>5, ValueAt
<1> HIDE DEF p3
<1>9. Value(b, h, SEQUENCE, ec) /\ h.full = p3 /\ h.ce = p4 /\ p3 < p4
  BY <1>5, ValueAt
<1> HIDE DEF p4
<1>10. /\ g.ok /\ g.tag = INTEGER /\ k.ok /\ k.tag = SET /\ h.ok /\ h.tag = SEQUENCE
  BY <1>7, <1>8, <1>9 DEF Value
<1>11. AllOk(b, p4, e)
  <2>1. 0 \in Nat /\ \A m \in children(rest, 0, Len(rest)) : m.ok
    BY DEF AllOk
  <2>2. children(b, p4 + 0, p4 + Len(rest))
            = {Moved(m, p4) : m \in children(rest, 0, Len(rest))}
    BY <1>4, <1>5, <2>1, ChildrenWithin
  <2>3. p4 + 0 = p4 /\ p4 + Len(rest) = e
    BY <1>6
  <2> QED BY <2>2, <2>3 DEF AllOk, Moved, Header
<1> HIDE DEF p, e, g, k, h
<1>12. p < e /\ p2 < e /\ p3 < e
  BY <1>1, <1>6, <1>7, <1>8, <1>9
<1>13. First(children(b, p3, e), {SEQUENCE}) = h /\ AllOk(b, p3, e)
  BY <1>1, <1>6, <1>9, <1>10, <1>11, <1>12, FirstHere DEF h
<1>14. SEQUENCE # SET /\ SEQUENCE # INTEGER /\ INTEGER \in Byte /\ SET \in Byte
  BY EnvelopeAssumption
<1>15. First(children(b, p2, e), {SEQUENCE}) = h
  <2>1. k.tag \notin {SEQUENCE} /\ First(children(b, k.ce, e), {SEQUENCE}) = h
    BY <1>8, <1>10, <1>13, <1>14
  <2> QED BY <1>1, <1>6, <1>10, <1>12, <2>1, FirstThere DEF k
<1>16. First(children(b, p, e), {SEQUENCE}) = h
  <2>1. g.tag \notin {SEQUENCE} /\ First(children(b, g.ce, e), {SEQUENCE}) = h
    BY <1>7, <1>10, <1>14, <1>15
  <2> QED BY <1>1, <1>10, <1>12, <2>1, FirstThere DEF g
<1>17. AllOk(b, p2, e)
  <2>1. k.tag \in {SET} /\ AllOk(b, k.ce, e)
    BY <1>8, <1>10, <1>13
  <2> QED BY <1>1, <1>6, <1>10, <1>12, <2>1, FirstHere DEF k
<1>18. First(children(b, p, e), Byte) = g
  <2>1. g.tag \in Byte /\ AllOk(b, g.ce, e)
    BY <1>7, <1>10, <1>14, <1>17
  <2> QED BY <1>1, <1>10, <1>12, <2>1, FirstHere DEF g
<1>19. Child(b, outer, {SEQUENCE}) = h /\ FirstChild(b, outer) = g
  BY <1>1, <1>16, <1>18 DEF Child, FirstChild, p, e
<1>20. Slice(b, p, p2) = ver /\ Slice(b, p2, p3) = alg /\ Slice(b, p4, e) = rest
  <2>1. Slice(b, p, p2) = ver
    BY <1>5, SliceAt DEF p2
  <2>2. Slice(b, p2, p3) = alg
    BY <1>5, SliceAt DEF p3
  <2>3. Slice(b, p4, e) = rest
    BY <1>5, <1>6, SliceAt
  <2> QED BY <2>1, <2>2, <2>3
<1> QED BY <1>7, <1>9, <1>10, <1>19, <1>20 DEF e

\* What a blob of these parts is read as, and what a splice takes from it: tag
\* and inner are those of the value in eContent.
Carries(b, ver, tag, inner, value, rest) ==
    LET s == Spine(b)
    IN  /\ Readable(b)
        /\ s.l5.tag = tag
        /\ Slice(b, s.l5.full, s.l5.ce) = value
        /\ Slice(b, s.l5.cs, s.l5.ce) = inner
        /\ Slice(b, s.l4.cs, s.l4.ce) = value
        /\ Slice(b, s.version.full, s.version.ce) = ver
        /\ Slice(b, s.version.ce, s.l3.full) = Algorithms
        /\ Slice(b, s.l3.ce, s.l2.ce) = rest
        /\ \A z \in Seq(Byte) : /\ Replaced(b, s.l3, s.l4, z) = ContentType \o z
                                /\ Replaced(b, s.l1, s.l2, z) = z
                                /\ Replaced(b, s.l0, s.l1, z) = ContentType \o z
        /\ FirstChild(b, Root(b)).ok /\ FirstChild(b, Root(b)).tag = OID

\* The recursion down the spine, unrolled.
LEMMA SpineIs ==
    \A b : LET l0 == Root(b)
               l1 == Child(b, l0, {CONTEXT_0})
               l2 == Child(b, l1, {SEQUENCE})
               l3 == Child(b, l2, {SEQUENCE})
               l4 == Child(b, l3, {CONTEXT_0})
           IN  Spine(b) = [l0 |-> l0, l1 |-> l1, l2 |-> l2, version |-> FirstChild(b, l2),
                           l3 |-> l3, l4 |-> l4, l5 |-> FirstChild(b, l4)]
<1> SUFFICES ASSUME NEW b
             PROVE  LET l0 == Root(b)
                        l1 == Child(b, l0, {CONTEXT_0})
                        l2 == Child(b, l1, {SEQUENCE})
                        l3 == Child(b, l2, {SEQUENCE})
                        l4 == Child(b, l3, {CONTEXT_0})
                    IN  Spine(b) = [l0 |-> l0, l1 |-> l1, l2 |-> l2,
                                    version |-> FirstChild(b, l2),
                                    l3 |-> l3, l4 |-> l4, l5 |-> FirstChild(b, l4)]
  OBVIOUS
<1> DEFINE l0 == Root(b)
           l1 == Child(b, l0, {CONTEXT_0})
           l2 == Child(b, l1, {SEQUENCE})
           l3 == Child(b, l2, {SEQUENCE})
           l4 == Child(b, l3, {CONTEXT_0})
           down(h, i) == Child(b, h, {SpineTags[i]})
           Walk(g) == g = [i \in 0 .. 4 |-> IF i = 0 THEN l0 ELSE down(g[i-1], i)]
           l == CHOOSE g : Walk(g)
           w == [i \in 0 .. 4 |-> IF i = 0 THEN l0 ELSE IF i = 1 THEN l1 ELSE IF i = 2 THEN l2
                                  ELSE IF i = 3 THEN l3 ELSE l4]
<1>1. down(l0, 1) = l1 /\ down(l1, 2) = l2 /\ down(l2, 3) = l3 /\ down(l3, 4) = l4
  BY DEF SpineTags
<1> HIDE DEF l0, l1, l2, l3, l4, down
<1>2. w[0] = l0 /\ w[1] = l1 /\ w[2] = l2 /\ w[3] = l3 /\ w[4] = l4
  OBVIOUS
<1>3. Walk(w)
  <2>1. ASSUME NEW i \in 0 .. 4 PROVE w[i] = IF i = 0 THEN l0 ELSE down(w[i-1], i)
    <3>1. i = 0 \/ i = 1 \/ i = 2 \/ i = 3 \/ i = 4
      OBVIOUS
    <3>2. 1 - 1 = 0 /\ 2 - 1 = 1 /\ 3 - 1 = 2 /\ 4 - 1 = 3
      OBVIOUS
    <3> HIDE DEF w
    <3> QED BY <1>1, <1>2, <3>1, <3>2
  <2> QED BY <2>1
<1> HIDE DEF w
<1>4. Walk(l)
  <2> HIDE DEF Walk
  <2> QED BY <1>3
<1> HIDE DEF l
<1>5. l[0] = l0 /\ l[1] = l1 /\ l[2] = l2 /\ l[3] = l3 /\ l[4] = l4
  <2>1. ASSUME NEW i \in 0 .. 4 PROVE l[i] = IF i = 0 THEN l0 ELSE down(l[i-1], i)
    BY <1>4
  <2> HIDE DEF Walk
  <2>2. l[0] = l0
    BY <2>1
  <2>3. l[1] = down(l[0], 1) /\ l[2] = down(l[1], 2) /\ l[3] = down(l[2], 3)
        /\ l[4] = down(l[3], 4)
    <3>1. 1 - 1 = 0 /\ 2 - 1 = 1 /\ 3 - 1 = 2 /\ 4 - 1 = 3
      OBVIOUS
    <3> QED BY <2>1, <3>1
  <2> QED BY <1>1, <2>2, <2>3, Zenon
<1>6. Spine(b) = [l0 |-> l[0], l1 |-> l[1], l2 |-> l[2], version |-> FirstChild(b, l[2]),
                  l3 |-> l[3], l4 |-> l[4], l5 |-> FirstChild(b, l[4])]
  BY DEF Spine, l, l0, down
<1> QED BY <1>5, <1>6, Zenon DEF l0, l1, l2, l3, l4

\* The five containers, found where they were put.
LEMMA Layout ==
    ASSUME NEW b, NEW ver, NEW vc, NEW tag, NEW inner, NEW value, NEW rest,
           NEW tc, NEW ac, NEW t4, NEW t3, NEW t2, NEW t1, NEW t0,
           Tlv(ContentType, OID, tc), Tlv(Algorithms, SET, ac),
           Tlv(ver, INTEGER, vc), Tlv(value, tag, inner), tag \in Byte,
           rest \in Seq(Byte), AllOk(rest, 0, Len(rest)),
           Tlv(t4, CONTEXT_0, value),
           Tlv(t3, SEQUENCE, ContentType \o t4),
           Tlv(t2, SEQUENCE, ver \o Algorithms \o t3 \o rest),
           Tlv(t1, CONTEXT_0, t2),
           Tlv(t0, SEQUENCE, ContentType \o t1),
           At(b, 0, t0)
    PROVE  Carries(b, ver, tag, inner, value, rest)
<1> DEFINE l0 == Root(b)
           l1 == Child(b, l0, {CONTEXT_0})
           l2 == Child(b, l1, {SEQUENCE})
           l3 == Child(b, l2, {SEQUENCE})
           l4 == Child(b, l3, {CONTEXT_0})
           l5 == FirstChild(b, l4)
           version == FirstChild(b, l2)
<1>1. OID \notin {CONTEXT_0} /\ OID \in Byte
  BY EnvelopeAssumption
<1>2. Value(b, l0, SEQUENCE, ContentType \o t1)
  <2> DEFINE h == read_header(b, 0)
  <2>1. Value(b, h, SEQUENCE, ContentType \o t1)
    BY ValueAt
  <2> HIDE DEF h
  <2>2. h.ok /\ h.tag = SEQUENCE
    BY <2>1 DEF Value
  <2>3. l0 = h
    BY <2>2 DEF Root, h
  <2> HIDE DEF l0
  <2> QED BY <2>1, <2>3
<1>3. /\ Value(b, l1, CONTEXT_0, t2)
      /\ \A z \in Seq(Byte) : Replaced(b, l0, l1, z) = ContentType \o z
      /\ FirstChild(b, l0).ok /\ FirstChild(b, l0).tag = OID
  <2> HIDE DEF l0
  <2> DEFINE tags == {CONTEXT_0}
  <2>1. OID \notin tags /\ CONTEXT_0 \in tags /\ OID \in Byte
    BY <1>1
  <2>2. Tlv(ContentType, OID, tc) /\ Tlv(t1, CONTEXT_0, t2)
    OBVIOUS
  <2> HIDE DEF tags
  <2>3. LET h == Child(b, l0, tags)
        IN  /\ Value(b, h, CONTEXT_0, t2)
            /\ \A z \in Seq(Byte) : Replaced(b, l0, h, z) = ContentType \o z
            /\ FirstChild(b, l0).ok /\ FirstChild(b, l0).tag = OID
    BY <1>2, <2>1, <2>2, SecondValue
  <2> QED BY <2>3 DEF tags
<1>4. /\ Value(b, l2, SEQUENCE, ver \o Algorithms \o t3 \o rest)
      /\ \A z \in Seq(Byte) : Replaced(b, l1, l2, z) = z
  <2> HIDE DEF l1
  <2>1. SEQUENCE \in {SEQUENCE}
    OBVIOUS
  <2> QED BY <1>3, <2>1, OnlyValue
<1>5. /\ Value(b, l3, SEQUENCE, ContentType \o t4)
      /\ version.ok /\ version.tag = INTEGER
      /\ Slice(b, version.full, version.ce) = ver
      /\ Slice(b, version.ce, l3.full) = Algorithms
      /\ Slice(b, l3.ce, l2.ce) = rest
  <2> HIDE DEF l2
  <2> QED BY <1>4, SignedDataValues
<1>6. /\ Value(b, l4, CONTEXT_0, value)
      /\ \A z \in Seq(Byte) : Replaced(b, l3, l4, z) = ContentType \o z
  <2> HIDE DEF l3
  <2> DEFINE tags == {CONTEXT_0}
  <2>1. OID \notin tags /\ CONTEXT_0 \in tags /\ OID \in Byte
    BY <1>1
  <2>2. Tlv(ContentType, OID, tc) /\ Tlv(t4, CONTEXT_0, value)
    OBVIOUS
  <2> HIDE DEF tags
  <2>3. LET h == Child(b, l3, tags)
        IN  /\ Value(b, h, CONTEXT_0, value)
            /\ \A z \in Seq(Byte) : Replaced(b, l3, h, z) = ContentType \o z
    BY <1>5, <2>1, <2>2, SecondValue
  <2> QED BY <2>3 DEF tags
<1>7. Value(b, l5, tag, inner) /\ l5.full = l4.cs /\ l5.ce = l4.ce
  <2> HIDE DEF l4
  <2> QED BY <1>6, OnlyValue DEF FirstChild
<1> HIDE DEF l0, l1, l2, l3, l4, l5, version
<1>8. Slice(b, l4.cs, l4.ce) = value /\ Slice(b, l5.cs, l5.ce) = inner
  BY <1>6, <1>7, ValueSlice
<1>9. l5.ok /\ l5.tag = tag
  BY <1>7 DEF Value
<1>10. Spine(b) = [l0 |-> l0, l1 |-> l1, l2 |-> l2, version |-> version,
                   l3 |-> l3, l4 |-> l4, l5 |-> l5]
  BY SpineIs, Zenon DEF l0, l1, l2, l3, l4, l5, version
<1> DEFINE s == Spine(b)
<1>11. /\ s.l0 = l0 /\ s.l1 = l1 /\ s.l2 = l2 /\ s.l3 = l3 /\ s.l4 = l4 /\ s.l5 = l5
       /\ s.version = version
  BY <1>10
<1>12. Root(b) = l0
  BY DEF l0
<1> QED BY <1>3, <1>4, <1>5, <1>6, <1>7, <1>8, <1>9, <1>11, <1>12 DEF Carries, Readable, Complete

----------------------------------------------------------------------------
(* The blobs of Encode *)

LEMMA TinyTlv ==
    ASSUME NEW tag \in Byte, NEW x \in Byte
    PROVE  Tlv(<< tag, 1, x >>, tag, << x >>)
<1> DEFINE c == << x >>
           a == << tag, 1 >>
<1>1. c \in Seq(Byte) /\ Len(c) = 1 /\ 1 \in Byte /\ tag \in Nat /\ x \in Nat
  BY BaseType DEF Byte
<1>2. << tag, 1, x >> = << tag, 1 >> \o c
  BY <1>1
<1> HIDE DEF c
<1>3. Len(c) < Half
  BY <1>1, BaseType
<1>4. Tlv(<< tag, Len(c) >> \o c, tag, c)
  BY <1>3, <1>1, ShortTlv
<1> QED BY <1>1, <1>2, <1>4 DEF c

LEMMA FixedTlvs ==
    /\ Tlv(ContentType, OID, << 2 >>) /\ Len(ContentType) = 3
    /\ Tlv(Algorithms, SET, << OID, 0 >>) /\ Len(Algorithms) = 4
    /\ \A x \in {1, 3} : /\ Tlv(<< INTEGER, 1, x >>, INTEGER, << x >>)
                         /\ Len(<< INTEGER, 1, x >>) = 3
<1>1. /\ OID \in Byte /\ SET \in Byte /\ INTEGER \in Byte
      /\ 0 \in Byte /\ 1 \in Byte /\ 2 \in Byte /\ 3 \in Byte
  BY EnvelopeAssumption, BaseType
<1>2. Tlv(ContentType, OID, << 2 >>) /\ Len(ContentType) = 3
  BY <1>1, TinyTlv DEF ContentType
<1>3. Tlv(Algorithms, SET, << OID, 0 >>) /\ Len(Algorithms) = 4
  <2> DEFINE c == << OID, 0 >>
  <2>1. c \in Seq(Byte) /\ Len(c) = 2 /\ OID \in Nat /\ SET \in Nat
    BY <1>1, BaseType DEF Byte
  <2>2. Algorithms = << SET, 2 >> \o c
    BY <2>1 DEF Algorithms
  <2> HIDE DEF c
  <2>3. Len(c) < Half
    BY <2>1, BaseType
  <2>4. Tlv(<< SET, Len(c) >> \o c, SET, c)
    BY <1>1, <2>1, <2>3, ShortTlv
  <2>5. Len(Algorithms) = 4
    BY DEF Algorithms
  <2> QED BY <2>1, <2>2, <2>4, <2>5 DEF c
<1>4. ASSUME NEW x \in {1, 3}
      PROVE  /\ Tlv(<< INTEGER, 1, x >>, INTEGER, << x >>)
             /\ Len(<< INTEGER, 1, x >>) = 3
  <2>1. x \in Byte
    BY <1>1
  <2> QED BY <1>1, <2>1, TinyTlv
<1> QED BY <1>2, <1>3, <1>4

\* What a content holds.
Inner(c) == Slice(c, Root(c).cs, Len(c))

LEMMA ContentIs ==
    ASSUME NEW c \in Contents
    PROVE  /\ c \in Seq(Byte) /\ Inner(c) \in Seq(Byte)
           /\ Tlv(c, SEQUENCE, Inner(c))
           /\ extract_spc_content(c) = Result(c)
<1> DEFINE h == read_header(c, 0)
           in == Inner(c)
<1>1. c \in Seq(Byte)
  BY EnvelopeAssumption
<1>2. Root(c).ok /\ Root(c).ce = Len(c)
      /\ FirstChild(c, Root(c)).ok /\ FirstChild(c, Root(c)).tag = SEQUENCE
  BY InputsAssumption
<1>3. h.ok /\ h.tag = SEQUENCE /\ Root(c) = h
  BY <1>2 DEF Root, Malformed
<1>4. h = Header(c[0+1], 0, h.cs, h.ce) /\ h.tag = c[0+1]
      /\ h.cs \in Nat /\ h.ce \in Nat /\ 0 + 2 <= h.cs /\ h.cs <= h.ce
  BY <1>1, <1>3, HeaderType
<1>5. h.ce = Len(c) /\ in = Slice(c, h.cs, Len(c)) /\ Len(c) \in Nat
  BY <1>1, <1>2, <1>3 DEF Inner
<1> HIDE DEF h, in
<1>6. in \in Seq(Byte) /\ Len(in) = Len(c) - h.cs /\ At(c, h.cs, in)
  <2>1. h.cs <= Len(c) /\ h.cs \in Nat /\ Len(c) \in Nat
    BY <1>4, <1>5
  <2> DEFINE t == Slice(c, h.cs, Len(c))
  <2>2. t \in Seq(Byte) /\ Len(t) = Len(c) - h.cs
    <3> DEFINE from == h.cs
               to == Len(c)
    <3>1. from \in Nat /\ to \in Nat /\ from <= to /\ to <= Len(c)
      BY <2>1
    <3> HIDE DEF t, from, to
    <3>2. Slice(c, from, to) \in Seq(Byte) /\ Len(Slice(c, from, to)) = to - from
      BY <1>1, <3>1, SliceIs
    <3> QED BY <3>2 DEF t, from, to
  <2>3. At(c, h.cs, t)
    BY <1>1, <2>1, AtSlice
  <2> HIDE DEF t
  <2> QED BY <1>5, <2>2, <2>3 DEF t
<1>7. Len(c) - Len(in) = h.cs /\ Len(in) + 2 <= Len(c)
  BY <1>4, <1>5, <1>6
<1>8. h = Header(SEQUENCE, 0, Len(c) - Len(in), Len(c))
  BY <1>3, <1>4, <1>5, <1>7
<1>9. Tlv(c, SEQUENCE, in)
  BY <1>1, <1>6, <1>7, <1>8 DEF Tlv, h
<1>10. extract_spc_content(c) = Result(c)
  BY <1>2 DEF extract_spc_content
<1> QED BY <1>1, <1>6, <1>9, <1>10 DEF in

LEMMA AnyTlv ==
    ASSUME NEW long \in BOOLEAN, NEW tag \in Byte, NEW c \in Seq(Byte),
           Len(c) < Base * Base * Base
    PROVE  LET t == IF long THEN LongTlv(tag, c) ELSE emit_tlv(tag, c)
           IN  /\ Tlv(t, tag, c)
               /\ t \in Seq(Byte)
               /\ Len(t) <= Len(c) + 6 /\ Len(t) \in Nat
               /\ long = (t[2] >= Half /\ t[3] = 0)
<1>1. CASE long
  <2> DEFINE t == LongTlv(tag, c)
  <2>1. Tlv(t, tag, c) /\ Len(t) <= Len(c) + 6 /\ t[2] >= Half /\ t[3] = 0
    BY LongIs
  <2> HIDE DEF t
  <2>2. t \in Seq(Byte)
    BY <2>1 DEF Tlv
  <2>3. long = (t[2] >= Half /\ t[3] = 0)
    BY <1>1, <2>1, Zenon
  <2>4. Len(t) \in Nat
    BY <2>2
  <2> QED BY <1>1, <2>1, <2>2, <2>3, <2>4 DEF t
<1>2. CASE ~long
  <2> DEFINE t == emit_tlv(tag, c)
  <2>1. Tlv(t, tag, c) /\ Len(t) <= Len(c) + 6 /\ ~(t[2] >= Half /\ t[3] = 0)
    BY EmitIs
  <2> HIDE DEF t
  <2>2. t \in Seq(Byte)
    BY <2>1 DEF Tlv
  <2>3. Len(t) \in Nat /\ long = (t[2] >= Half /\ t[3] = 0)
    BY <1>2, <2>1, <2>2
  <2> QED BY <1>2, <2>1, <2>2, <2>3 DEF t
<1> QED BY <1>1, <1>2

\* eContent and its parts in a form.
FormTag(form)      == IF form = "wrapped" THEN OCTET_STRING ELSE SEQUENCE
FormValue(form, c) == IF form = "wrapped" THEN emit_tlv(OCTET_STRING, c) ELSE c
FormInner(form, c) == IF form = "wrapped" THEN c ELSE Inner(c)

Parts == [content : Contents, rest : Rests]

Limit == Base * Base * Base

LEMMA FormIs ==
    ASSUME NEW form \in {"native", "wrapped"}, NEW c \in Contents, Len(c) + 64 < Limit
    PROVE  /\ Tlv(FormValue(form, c), FormTag(form), FormInner(form, c))
           /\ FormTag(form) \in Byte
           /\ FormValue(form, c) \in Seq(Byte)
           /\ Len(FormValue(form, c)) <= Len(c) + 6
<1>1. c \in Seq(Byte) /\ Tlv(c, SEQUENCE, Inner(c)) /\ Len(c) \in Nat
  BY ContentIs
<1>2. OCTET_STRING \in Byte /\ SEQUENCE \in Byte
  BY EnvelopeAssumption
<1>3. Limit \in Nat
  BY BaseType DEF Limit
<1>4. CASE form = "wrapped"
  <2>1. Len(c) < Limit
    BY <1>1, <1>3
  <2> DEFINE t == emit_tlv(OCTET_STRING, c)
  <2>2. Tlv(t, OCTET_STRING, c) /\ Len(t) <= Len(c) + 6
    BY <1>1, <1>2, <2>1, EmitIs DEF Limit
  <2> HIDE DEF t
  <2>3. t \in Seq(Byte)
    BY <2>2 DEF Tlv
  <2> QED BY <1>2, <1>4, <2>2, <2>3 DEF FormTag, FormValue, FormInner, t
<1>5. CASE form # "wrapped"
  <2>1. Len(c) <= Len(c) + 6
    BY <1>1
  <2> QED BY <1>1, <1>2, <1>5, <2>1 DEF FormTag, FormValue, FormInner
<1> QED BY <1>4, <1>5

LEMMA ZerosIs ==
    ASSUME NEW n \in Nat
    PROVE  Zeros(n) \in Seq(Byte) /\ Len(Zeros(n)) = n /\ \A i \in 1 .. n : Zeros(n)[i] = 0
<1>1. 0 \in Byte
  BY BaseType
<1> QED BY <1>1 DEF Zeros

\* The containers of Encode, from the inside out.
Written(v, tag, x) == IF v.long THEN LongTlv(tag, x) ELSE emit_tlv(tag, x)

Version(v)     == << INTEGER, 1, v.version >>
EContent(v)    == Written(v, CONTEXT_0, FormValue(v.form, v.parts.content))
EncapIn(v)     == ContentType \o EContent(v)
Encap(v)       == Written(v, SEQUENCE, EncapIn(v))
SignedIn(v)    == Version(v) \o Algorithms \o Encap(v) \o v.parts.rest
Signed(v)      == Written(v, SEQUENCE, SignedIn(v))
Explicit(v)    == Written(v, CONTEXT_0, Signed(v))
ContentInfo(v) == ContentType \o Explicit(v)

LEMMA ContainersAre ==
    ASSUME NEW p \in Parts, NEW v \in Views(p)
    PROVE  /\ Tlv(FormValue(v.form, p.content), FormTag(v.form), FormInner(v.form, p.content))
           /\ Tlv(EContent(v), CONTEXT_0, FormValue(v.form, p.content))
           /\ Tlv(Encap(v), SEQUENCE, EncapIn(v))
           /\ Tlv(Signed(v), SEQUENCE, SignedIn(v))
           /\ Tlv(Explicit(v), CONTEXT_0, Signed(v))
           /\ Tlv(Encode(v), SEQUENCE, ContentInfo(v))
           /\ Len(Encode(v)) >= 3
           /\ v.long = (Encode(v)[2] >= Half /\ Encode(v)[3] = 0)
<1> DEFINE c     == p.content
           r     == p.rest
           ver   == Version(v)
           value == FormValue(v.form, c)
           tlv(tag, content) == Written(v, tag, content)
           t4    == tlv(CONTEXT_0, value)
           c3    == ContentType \o t4
           t3    == tlv(SEQUENCE, c3)
           va    == ver \o Algorithms
           vae   == va \o t3
           c2    == vae \o r
           t2    == tlv(SEQUENCE, c2)
           t1    == tlv(CONTEXT_0, t2)
           c0    == ContentType \o t1
           t0    == tlv(SEQUENCE, c0)
<1>1. /\ c \in Contents /\ r \in Rests /\ v.parts = p
      /\ v.form \in {"native", "wrapped"} /\ v.version \in {1, 3} /\ v.long \in BOOLEAN
  BY DEF Parts, Views
<1>2. /\ c \in Seq(Byte) /\ r \in Seq(Byte) /\ Len(c) \in Nat /\ Len(r) \in Nat
      /\ Len(c) + Len(r) + 64 < Limit /\ Limit \in Nat /\ AllOk(r, 0, Len(r))
  <2>1. c \in Seq(Byte) /\ r \in Seq(Byte)
    BY <1>1, EnvelopeAssumption
  <2>2. Len(c) + Len(r) + 64 < Limit /\ AllOk(r, 0, Len(r))
    BY <1>1, InputsAssumption DEF Limit, AllOk
  <2>3. Limit \in Nat
    BY BaseType DEF Limit
  <2>4. Len(c) \in Nat /\ Len(r) \in Nat
    BY <2>1
  <2> QED BY <2>1, <2>2, <2>3, <2>4
<1>3. /\ EContent(v) = t4 /\ EncapIn(v) = c3 /\ Encap(v) = t3 /\ SignedIn(v) = c2
      /\ Signed(v) = t2 /\ Explicit(v) = t1 /\ ContentInfo(v) = c0 /\ Encode(v) = t0
  <2>1. EContent(v) = t4 /\ EncapIn(v) = c3 /\ Encap(v) = t3
    BY <1>1 DEF EContent, EncapIn, Encap
  <2>2. SignedIn(v) = c2 /\ Signed(v) = t2
    BY <1>1, <2>1 DEF SignedIn, Signed
  <2>3. Explicit(v) = t1 /\ ContentInfo(v) = c0
    BY <2>2 DEF Explicit, ContentInfo
  <2>4. Encode(v) = t0
    BY <1>1 DEF Encode, FormValue, Written, Version
  <2> QED BY <2>1, <2>2, <2>3, <2>4
<1>4. SEQUENCE \in Byte /\ CONTEXT_0 \in Byte
  BY EnvelopeAssumption
<1>5. \A x \in Seq(Byte), tag \in Byte : Len(x) < Limit =>
          /\ Tlv(tlv(tag, x), tag, x) /\ tlv(tag, x) \in Seq(Byte)
          /\ Len(tlv(tag, x)) <= Len(x) + 6 /\ Len(tlv(tag, x)) \in Nat
          /\ v.long = (tlv(tag, x)[2] >= Half /\ tlv(tag, x)[3] = 0)
  BY <1>1, AnyTlv DEF Limit, Written
<1>6. \A x \in Seq(Byte), y \in Seq(Byte) :
          /\ x \o y \in Seq(Byte) /\ Len(x \o y) = Len(x) + Len(y)
          /\ Len(x) \in Nat /\ Len(y) \in Nat
  BY ConcatType
<1>7. /\ Tlv(ContentType, OID, << 2 >>) /\ Len(ContentType) = 3
      /\ Tlv(Algorithms, SET, << OID, 0 >>) /\ Len(Algorithms) = 4
      /\ Tlv(ver, INTEGER, << v.version >>) /\ Len(ver) = 3
      /\ ContentType \in Seq(Byte) /\ Algorithms \in Seq(Byte) /\ ver \in Seq(Byte)
  BY <1>1, FixedTlvs DEF Tlv, Version
<1> HIDE DEF tlv, c, r, ver
<1>8. /\ Tlv(value, FormTag(v.form), FormInner(v.form, c)) /\ FormTag(v.form) \in Byte
      /\ value \in Seq(Byte) /\ Len(value) <= Len(c) + 6 /\ Len(value) \in Nat
  <2>1. Len(c) + 64 < Limit
    BY <1>2
  <2>2. value \in Seq(Byte)
    BY <1>1, <2>1, FormIs
  <2> QED BY <1>1, <2>1, <2>2, FormIs
<1> HIDE DEF value
<1>9. /\ Tlv(t4, CONTEXT_0, value) /\ t4 \in Seq(Byte) /\ Len(t4) <= Len(c) + 12
      /\ Len(t4) \in Nat
  <2>1. Len(value) < Limit
    BY <1>2, <1>8
  <2>2. /\ Tlv(t4, CONTEXT_0, value) /\ t4 \in Seq(Byte) /\ Len(t4) <= Len(value) + 6
        /\ Len(t4) \in Nat
    BY <1>4, <1>5, <1>8, <2>1
  <2> HIDE DEF t4
  <2> QED BY <1>2, <1>8, <2>2
<1> HIDE DEF t4
<1>10. c3 \in Seq(Byte) /\ Len(c3) = 3 + Len(t4) /\ Len(c3) <= Len(c) + 15 /\ Len(c3) \in Nat
  <2>1. c3 \in Seq(Byte) /\ Len(c3) = 3 + Len(t4)
    BY <1>6, <1>7, <1>9
  <2> HIDE DEF c3
  <2> QED BY <1>2, <1>9, <2>1
<1> HIDE DEF c3
<1>11. /\ Tlv(t3, SEQUENCE, c3) /\ t3 \in Seq(Byte) /\ Len(t3) <= Len(c) + 21
       /\ Len(t3) \in Nat
  <2>1. Len(c3) < Limit
    BY <1>2, <1>10
  <2>2. /\ Tlv(t3, SEQUENCE, c3) /\ t3 \in Seq(Byte) /\ Len(t3) <= Len(c3) + 6
        /\ Len(t3) \in Nat
    BY <1>4, <1>5, <1>10, <2>1
  <2> HIDE DEF t3
  <2> QED BY <1>2, <1>10, <2>2
<1> HIDE DEF t3
<1>12. va \in Seq(Byte) /\ Len(va) = 7
  <2>1. va \in Seq(Byte) /\ Len(va) = Len(ver) + Len(Algorithms)
    BY <1>6, <1>7
  <2> HIDE DEF va
  <2> QED BY <1>7, <2>1
<1> HIDE DEF va
<1>13. vae \in Seq(Byte) /\ Len(vae) = 7 + Len(t3)
  BY <1>6, <1>11, <1>12
<1> HIDE DEF vae
<1>14. c2 \in Seq(Byte) /\ Len(c2) <= Len(c) + Len(r) + 28 /\ Len(c2) \in Nat
  <2>1. c2 \in Seq(Byte) /\ Len(c2) = Len(vae) + Len(r)
    BY <1>2, <1>6, <1>13
  <2> HIDE DEF c2
  <2> QED BY <1>2, <1>11, <1>13, <2>1
<1>15. c2 = ver \o Algorithms \o t3 \o r
  BY DEF vae, va
<1> HIDE DEF c2
<1>16. /\ Tlv(t2, SEQUENCE, c2) /\ t2 \in Seq(Byte) /\ Len(t2) <= Len(c) + Len(r) + 34
       /\ Len(t2) \in Nat
  <2>1. Len(c2) < Limit
    BY <1>2, <1>14
  <2>2. /\ Tlv(t2, SEQUENCE, c2) /\ t2 \in Seq(Byte) /\ Len(t2) <= Len(c2) + 6
        /\ Len(t2) \in Nat
    BY <1>4, <1>5, <1>14, <2>1
  <2> HIDE DEF t2
  <2> QED BY <1>2, <1>14, <2>2
<1> HIDE DEF t2
<1>17. /\ Tlv(t1, CONTEXT_0, t2) /\ t1 \in Seq(Byte) /\ Len(t1) <= Len(c) + Len(r) + 40
       /\ Len(t1) \in Nat
  <2>1. Len(t2) < Limit
    BY <1>2, <1>16
  <2>2. /\ Tlv(t1, CONTEXT_0, t2) /\ t1 \in Seq(Byte) /\ Len(t1) <= Len(t2) + 6
        /\ Len(t1) \in Nat
    BY <1>4, <1>5, <1>16, <2>1
  <2> HIDE DEF t1
  <2> QED BY <1>2, <1>16, <2>2
<1> HIDE DEF t1
<1>18. c0 \in Seq(Byte) /\ Len(c0) <= Len(c) + Len(r) + 43 /\ Len(c0) \in Nat
  <2>1. c0 \in Seq(Byte) /\ Len(c0) = 3 + Len(t1)
    BY <1>6, <1>7, <1>17
  <2> HIDE DEF c0
  <2> QED BY <1>2, <1>17, <2>1
<1>19. /\ Tlv(t0, SEQUENCE, c0) /\ t0 \in Seq(Byte)
       /\ v.long = (t0[2] >= Half /\ t0[3] = 0)
  <2>1. Len(c0) < Limit
    <3> HIDE DEF c0
    <3> QED BY <1>2, <1>18
  <2> HIDE DEF c0
  <2> QED BY <1>4, <1>5, <1>18, <2>1
<1>20. Len(t0) >= 3 /\ Len(t0) \in Nat
  <2>1. Len(c0) + 2 <= Len(t0) /\ Len(c0) \in Nat /\ Len(t0) \in Nat
    BY <1>18, <1>19 DEF Tlv
  <2>2. Len(c0) = 3 + Len(t1)
    BY <1>6, <1>7, <1>17
  <2> HIDE DEF c0, t0
  <2> QED BY <1>17, <2>1, <2>2
<1> HIDE DEF t0
<1>21. Tlv(t3, SEQUENCE, c3) /\ Tlv(t2, SEQUENCE, c2) /\ Tlv(t0, SEQUENCE, c0)
  BY <1>11, <1>16, <1>19
<1> QED BY <1>3, <1>8, <1>9, <1>17, <1>19, <1>20, <1>21 DEF c, value

\* A blob and its padding are read as what they were made of, and only the
\* long lengths are told from the short ones.
LEMMA EncodeIs ==
    ASSUME NEW p \in Parts, NEW v \in Views(p), NEW n \in Nat
    PROVE  LET b == Encode(v) \o Zeros(n)
           IN  /\ Encode(v) \in Seq(Byte) /\ b \in Seq(Byte)
               /\ Len(b) = Len(Encode(v)) + n
               /\ Carries(b, Version(v), FormTag(v.form),
                          FormInner(v.form, p.content), FormValue(v.form, p.content), p.rest)
               /\ v.long = (b[2] >= Half /\ b[3] = 0)
<1> DEFINE t0 == Encode(v)
           b  == t0 \o Zeros(n)
           inner == FormInner(v.form, p.content)
           value == FormValue(v.form, p.content)
           tag   == FormTag(v.form)
<1>1. /\ p.content \in Contents /\ p.rest \in Rests /\ v.parts = p
      /\ v.form \in {"native", "wrapped"} /\ v.version \in {1, 3}
  BY DEF Parts, Views
<1>2. p.rest \in Seq(Byte) /\ AllOk(p.rest, 0, Len(p.rest))
  BY <1>1, EnvelopeAssumption, InputsAssumption DEF AllOk
<1>3. /\ Tlv(value, tag, inner)
      /\ Tlv(EContent(v), CONTEXT_0, value)
      /\ Tlv(Encap(v), SEQUENCE, ContentType \o EContent(v))
      /\ Tlv(Signed(v), SEQUENCE, Version(v) \o Algorithms \o Encap(v) \o p.rest)
      /\ Tlv(Explicit(v), CONTEXT_0, Signed(v))
      /\ Tlv(t0, SEQUENCE, ContentType \o Explicit(v))
      /\ Len(t0) >= 3
      /\ v.long = (t0[2] >= Half /\ t0[3] = 0)
  BY <1>1, ContainersAre DEF EncapIn, SignedIn, ContentInfo
<1>4. /\ Tlv(ContentType, OID, << 2 >>) /\ Tlv(Algorithms, SET, << OID, 0 >>)
      /\ Tlv(Version(v), INTEGER, << v.version >>)
  BY <1>1, FixedTlvs DEF Version
<1>5. tag \in Byte
  BY EnvelopeAssumption DEF FormTag
<1> HIDE DEF t0, inner, value, tag
<1>6. t0 \in Seq(Byte) /\ Zeros(n) \in Seq(Byte) /\ Len(Zeros(n)) = n
  BY <1>3, ZerosIs DEF Tlv
<1>7. b \in Seq(Byte) /\ At(b, 0, t0) /\ Len(b) = Len(t0) + n
  <2>1. b \in Seq(Byte) /\ Len(b) = Len(t0) + Len(Zeros(n))
    BY <1>6, ConcatType
  <2>2. At(b, 0, t0)
    BY <1>6, AtJoin
  <2> HIDE DEF b
  <2> QED BY <1>6, <2>1, <2>2
<1> HIDE DEF b
<1>8. b[2] = t0[2] /\ b[3] = t0[3]
  <2>1. 2 \in 1 .. Len(t0) /\ 3 \in 1 .. Len(t0)
    BY <1>3, <1>6
  <2>2. b[0 + 2] = t0[2] /\ b[0 + 3] = t0[3]
    BY <1>7, <2>1 DEF At
  <2> QED BY <2>2
<1>9. Carries(b, Version(v), tag, inner, value, p.rest)
  BY <1>2, <1>3, <1>4, <1>5, <1>7, Layout
<1> QED BY <1>3, <1>6, <1>7, <1>8, <1>9 DEF b, t0, inner, value, tag

LEMMA PartsApart == \A p \in Parts : p # NoParts
<1> SUFFICES ASSUME NEW p \in Parts, p = NoParts PROVE FALSE
  OBVIOUS
<1>1. "content" \in DOMAIN p
  BY DEF Parts
<1>2. "content" \notin DOMAIN NoParts
  BY DEF NoParts
<1> QED BY <1>1, <1>2

\* No two views of the same parts have the same bytes.
LEMMA SameView ==
    ASSUME NEW p \in Parts, NEW v \in Views(p), NEW w \in Views(p), NEW n \in Nat, NEW m \in Nat,
           Encode(v) \o Zeros(n) = Encode(w) \o Zeros(m)
    PROVE  v = w
<1> DEFINE b == Encode(v) \o Zeros(n)
           s == Spine(b)
<1>1. /\ v.parts = p /\ v.form \in {"native", "wrapped"} /\ v.version \in {1, 3}
      /\ v.pad = 0
      /\ w.parts = p /\ w.form \in {"native", "wrapped"} /\ w.version \in {1, 3}
      /\ w.pad = 0
  BY DEF Views
<1>2. /\ Carries(b, Version(v), FormTag(v.form),
                 FormInner(v.form, p.content), FormValue(v.form, p.content), p.rest)
      /\ v.long = (b[2] >= Half /\ b[3] = 0)
  BY EncodeIs
<1>3. /\ Carries(b, Version(w), FormTag(w.form),
                 FormInner(w.form, p.content), FormValue(w.form, p.content), p.rest)
      /\ w.long = (b[2] >= Half /\ b[3] = 0)
  <2> DEFINE d == Encode(w) \o Zeros(m)
  <2>1. b = d
    OBVIOUS
  <2>2. /\ Carries(d, Version(w), FormTag(w.form),
                   FormInner(w.form, p.content), FormValue(w.form, p.content), p.rest)
        /\ w.long = (d[2] >= Half /\ d[3] = 0)
    BY EncodeIs
  <2> HIDE DEF b, d
  <2> QED BY <2>1, <2>2
<1> HIDE DEF b
<1>4. s.l5.tag = FormTag(v.form) /\ s.l5.tag = FormTag(w.form)
  BY <1>2, <1>3 DEF Carries
<1>5. Version(v) = Version(w)
  BY <1>2, <1>3 DEF Carries
<1> HIDE DEF s
<1>6. v.form = w.form
  <2>1. OCTET_STRING # SEQUENCE
    BY EnvelopeAssumption
  <2> QED BY <1>1, <1>4, <2>1 DEF FormTag
<1>7. v.version = w.version
  <2>1. Version(v)[3] = v.version /\ Version(w)[3] = w.version
    BY DEF Version
  <2> QED BY <1>5, <2>1
<1>8. v.long = w.long
  BY <1>2, <1>3
<1>9. /\ v = [parts |-> v.parts, form |-> v.form, version |-> v.version,
              long |-> v.long, pad |-> v.pad]
      /\ w = [parts |-> w.parts, form |-> w.form, version |-> w.version,
              long |-> w.long, pad |-> w.pad]
  BY DEF Views
<1> QED BY <1>1, <1>6, <1>7, <1>8, <1>9

\* The history variable says what the blob encodes.
LEMMA DecodedIs ==
    ASSUME NEW p \in Parts, NEW v \in Views(p), NEW n \in Nat
    PROVE  Decoded(Encode(v) \o Zeros(n), p) = [v EXCEPT !.pad = n]
<1> DEFINE b == Encode(v) \o Zeros(n)
           Match(e) == Len(e) <= Len(b) /\ b = e \o Zeros(Len(b) - Len(e))
           matching == {w \in Views(p) : Match(Encode(w))}
           w == CHOOSE w \in matching : TRUE
<1>1. /\ Encode(v) \in Seq(Byte) /\ b \in Seq(Byte) /\ Len(b) = Len(Encode(v)) + n
  BY EncodeIs
<1>2. b = Encode(v) \o Zeros(n)
  OBVIOUS
<1> HIDE DEF b
<1>3. Match(Encode(v)) /\ Len(b) - Len(Encode(v)) = n
  BY <1>1, <1>2
<1>4. ASSUME NEW u \in matching PROVE u = v
  <2> DEFINE m == Len(b) - Len(Encode(u))
  <2>1. Encode(u) \in Seq(Byte)
    <3>1. 0 \in Nat
      OBVIOUS
    <3> QED BY <3>1, EncodeIs
  <2>2. Len(Encode(u)) <= Len(b) /\ b = Encode(u) \o Zeros(m)
    OBVIOUS
  <2>3. m \in Nat
    BY <1>1, <2>1, <2>2
  <2> HIDE DEF m
  <2> QED BY <1>2, <2>2, <2>3, SameView, ZenonT(40)
<1>5. matching = {v}
  BY <1>3, <1>4
<1>6. w = v
  <2> HIDE DEF matching
  <2> QED BY <1>5
<1>7. Decoded(b, p) = [w EXCEPT !.pad = Len(b) - Len(Encode(w))]
  <2>1. p # NoParts
    BY PartsApart
  <2>2. matching # {}
    BY <1>5
  <2> QED BY <2>1, <2>2 DEF Decoded
<1> HIDE DEF w
<1>8. Decoded(b, p) = [v EXCEPT !.pad = n]
  BY <1>3, <1>6, <1>7
<1> QED BY <1>8 DEF b

----------------------------------------------------------------------------
(* The rewrites *)

LEMMA VersionType ==
    \A v : v.version \in {1, 3} => Version(v) \in Seq(Byte)
<1>1. INTEGER \in Byte /\ 1 \in Byte /\ 3 \in Byte
  BY EnvelopeAssumption, BaseType
<1> QED BY <1>1 DEF Version

\* Splicing content in a form into a blob gives the blob of that form.
LEMMA SplicedIs ==
    ASSUME NEW p \in Parts, NEW v \in Views(p), NEW t \in Views(p), t.long = FALSE, NEW n \in Nat
    PROVE  LET b == Encode(v) \o Zeros(n)
           IN  Spliced(b, Spine(b), Version(t), FormValue(t.form, p.content)) = Encode(t)
<1> DEFINE b == Encode(v) \o Zeros(n)
           s == Spine(b)
           value == FormValue(t.form, p.content)
<1>1. t.parts = p /\ t.version \in {1, 3}
  BY DEF Views
<1>2. Carries(b, Version(v), FormTag(v.form), FormInner(v.form, p.content),
              FormValue(v.form, p.content), p.rest)
  BY EncodeIs
<1>3. /\ EContent(t) \in Seq(Byte) /\ Signed(t) \in Seq(Byte) /\ Explicit(t) \in Seq(Byte)
  BY ContainersAre DEF Tlv
<1>4. /\ EContent(t) = emit_tlv(CONTEXT_0, value)
      /\ Encap(t) = emit_tlv(SEQUENCE, ContentType \o EContent(t))
      /\ Signed(t) = emit_tlv(SEQUENCE, Version(t) \o Algorithms \o Encap(t) \o p.rest)
      /\ Explicit(t) = emit_tlv(CONTEXT_0, Signed(t))
      /\ Encode(t) = emit_tlv(SEQUENCE, ContentType \o Explicit(t))
  <2>1. \A tag, x : Written(t, tag, x) = emit_tlv(tag, x)
    BY DEF Written
  <2>2. Encode(t) = Written(t, SEQUENCE, ContentInfo(t))
    BY <1>1 DEF Encode, FormValue, Written, Version, EContent, EncapIn, Encap, SignedIn,
                Signed, Explicit, ContentInfo
  <2> QED BY <1>1, <2>1, <2>2
          DEF EContent, EncapIn, Encap, SignedIn, Signed, Explicit, ContentInfo
<1> HIDE DEF b, value
<1>5. Replaced(b, s.l3, s.l4, EContent(t)) = ContentType \o EContent(t)
  BY <1>2, <1>3 DEF Carries
<1>6. Replaced(b, s.l1, s.l2, Signed(t)) = Signed(t)
  BY <1>2, <1>3 DEF Carries
<1>7. Replaced(b, s.l0, s.l1, Explicit(t)) = ContentType \o Explicit(t)
  BY <1>2, <1>3 DEF Carries
<1>8. SignedDataHead(b, s, Version(t)) = Version(t) \o Algorithms
      /\ Slice(b, s.l3.ce, s.l2.ce) = p.rest
  BY <1>2 DEF Carries, SignedDataHead
<1> HIDE DEF s
<1> DEFINE new_l4 == emit_tlv(CONTEXT_0, value)
           new_l3 == emit_tlv(SEQUENCE, Replaced(b, s.l3, s.l4, new_l4))
           new_l2 == emit_tlv(SEQUENCE, SignedDataHead(b, s, Version(t))
                                     \o new_l3 \o Slice(b, s.l3.ce, s.l2.ce))
           new_l1 == emit_tlv(CONTEXT_0, Replaced(b, s.l1, s.l2, new_l2))
           new_l0 == emit_tlv(SEQUENCE, Replaced(b, s.l0, s.l1, new_l1))
<1>9. Spliced(b, s, Version(t), value) = new_l0
  BY DEF Spliced
<1>10. new_l4 = EContent(t)
  BY <1>4
<1>11. new_l3 = Encap(t)
  BY <1>4, <1>5, <1>10
<1> HIDE DEF new_l3, new_l4
<1>12. new_l2 = Signed(t)
  BY <1>4, <1>8, <1>11
<1> HIDE DEF new_l2
<1>13. new_l1 = Explicit(t)
  BY <1>4, <1>6, <1>12
<1> HIDE DEF new_l1
<1>14. new_l0 = Encode(t)
  BY <1>4, <1>7, <1>13
<1> QED BY <1>9, <1>14 DEF b, value, s

\* What normalize_authenticode_signature and wrap_authenticode_content give.
Target(v, wrap) ==
    [v EXCEPT !.form = IF wrap THEN "wrapped" ELSE "native",
              !.version = IF wrap THEN 3 ELSE 1, !.long = FALSE]

Matches(v, wrap) ==
    /\ v.form = IF wrap THEN "wrapped" ELSE "native"
    /\ v.version = IF wrap THEN 3 ELSE 1

LEMMA TargetIs ==
    ASSUME NEW p \in Parts, NEW v \in Views(p), NEW wrap \in BOOLEAN
    PROVE  LET t == Target(v, wrap)
           IN  /\ t \in Views(p) /\ t.long = FALSE
               /\ t.form = IF wrap THEN "wrapped" ELSE "native"
               /\ t.version = IF wrap THEN 3 ELSE 1
  BY DEF Target, Views

LEMMA RewriteIs ==
    ASSUME NEW p \in Parts, NEW v \in Views(p), NEW n \in Nat, NEW wrap \in BOOLEAN
    PROVE  LET b == Encode(v) \o Zeros(n)
           IN  rewrite_authenticode_content(b, wrap) =
                   IF Matches(v, wrap) THEN Result(b) ELSE Result(Encode(Target(v, wrap)))
<1> DEFINE b == Encode(v) \o Zeros(n)
           s == Spine(b)
           t == Target(v, wrap)
           c == p.content
           target_version  == IF wrap THEN CMS_SIGNED_DATA_VERSION
                              ELSE AUTHENTICODE_SIGNED_DATA_VERSION
           version_matches == Slice(b, s.version.full, s.version.ce) = target_version
           wrapped         == s.l5.tag = OCTET_STRING
           content == IF wrap = wrapped THEN Slice(b, s.l4.cs, s.l4.ce)
                      ELSE IF wrap THEN emit_tlv(OCTET_STRING, Slice(b, s.l5.full, s.l5.ce))
                      ELSE Slice(b, s.l5.cs, s.l5.ce)
<1>1. /\ v.form \in {"native", "wrapped"} /\ v.version \in {1, 3}
  BY DEF Views
<1>2. /\ t \in Views(p) /\ t.long = FALSE
      /\ t.form = IF wrap THEN "wrapped" ELSE "native"
      /\ t.version = IF wrap THEN 3 ELSE 1
  BY TargetIs
<1>3. Carries(b, Version(v), FormTag(v.form), FormInner(v.form, c),
              FormValue(v.form, c), p.rest)
  BY EncodeIs
<1>4. Spliced(b, s, Version(t), FormValue(t.form, c)) = Encode(t)
  BY <1>2, SplicedIs
<1> HIDE DEF b, t, c
<1>5. /\ Complete(s)
      /\ s.l5.tag = FormTag(v.form)
      /\ Slice(b, s.l5.full, s.l5.ce) = FormValue(v.form, c)
      /\ Slice(b, s.l5.cs, s.l5.ce) = FormInner(v.form, c)
      /\ Slice(b, s.l4.cs, s.l4.ce) = FormValue(v.form, c)
      /\ Slice(b, s.version.full, s.version.ce) = Version(v)
  BY <1>3 DEF Carries, Readable
<1>6. wrapped = (v.form = "wrapped")
  <2>1. OCTET_STRING # SEQUENCE
    BY EnvelopeAssumption
  <2> HIDE DEF s
  <2> QED BY <1>1, <1>5, <2>1 DEF FormTag
<1>7. target_version = Version(t)
  BY <1>2 DEF CMS_SIGNED_DATA_VERSION, AUTHENTICODE_SIGNED_DATA_VERSION, Version
<1>8. version_matches = (v.version = IF wrap THEN 3 ELSE 1)
  <2>1. Version(v)[3] = v.version /\ Version(t)[3] = t.version
    BY DEF Version
  <2>2. v.version = t.version => Version(v) = Version(t)
    BY DEF Version
  <2> HIDE DEF target_version, s
  <2>3. version_matches <=> v.version = t.version
    BY <1>5, <1>7, <2>1, <2>2
  <2> HIDE DEF version_matches
  <2>4. version_matches \in BOOLEAN
    BY DEF version_matches
  <2> QED BY <1>2, <2>3, <2>4
<1>9. content = FormValue(t.form, c)
  <2> HIDE DEF s, wrapped, target_version, version_matches
  <2>1. CASE wrap /\ v.form = "wrapped"
    <3>1. wrap = wrapped
      BY <1>6, <2>1
    <3> QED BY <1>2, <1>5, <2>1, <3>1
  <2>2. CASE wrap /\ v.form = "native"
    <3>1. wrap # wrapped
      BY <1>6, <2>2
    <3>2. content = emit_tlv(OCTET_STRING, Slice(b, s.l5.full, s.l5.ce))
      BY <2>2, <3>1
    <3> HIDE DEF content
    <3>3. content = emit_tlv(OCTET_STRING, c)
      BY <1>5, <2>2, <3>2 DEF FormValue
    <3> QED BY <1>2, <2>2, <3>3 DEF FormValue
  <2>3. CASE ~wrap /\ v.form = "wrapped"
    <3>1. wrap # wrapped
      BY <1>6, <2>3
    <3>2. content = Slice(b, s.l5.cs, s.l5.ce)
      BY <2>3, <3>1
    <3> HIDE DEF content
    <3>3. content = c
      BY <1>5, <2>3, <3>2 DEF FormInner
    <3> QED BY <1>2, <2>3, <3>3 DEF FormValue
  <2>4. CASE ~wrap /\ v.form = "native"
    <3>1. wrap = wrapped
      BY <1>6, <2>4
    <3> QED BY <1>2, <1>5, <2>4, <3>1
  <2> QED BY <1>1, <2>1, <2>2, <2>3, <2>4
<1>10. rewrite_authenticode_content(b, wrap) =
           IF wrap = wrapped /\ version_matches THEN Result(b)
           ELSE Result(Spliced(b, s, target_version, content))
  BY <1>5 DEF rewrite_authenticode_content, RewriteAlong
<1> HIDE DEF s, wrapped, target_version, version_matches, content
<1>11. Matches(v, wrap) <=> wrap = wrapped /\ version_matches
  <2>1. (wrap = wrapped) <=> v.form = IF wrap THEN "wrapped" ELSE "native"
    <3>1. CASE wrap
      BY <1>1, <1>6, <3>1
    <3>2. CASE ~wrap
      BY <1>1, <1>6, <3>2
    <3> QED BY <3>1, <3>2
  <2>2. version_matches <=> v.version = IF wrap THEN 3 ELSE 1
    BY <1>8
  <2> QED BY <2>1, <2>2 DEF Matches
<1>12. Spliced(b, s, target_version, content) = Encode(t)
  BY <1>4, <1>7, <1>9
<1>13. rewrite_authenticode_content(b, wrap) =
           IF Matches(v, wrap) THEN Result(b) ELSE Result(Encode(t))
  <2>1. CASE Matches(v, wrap)
    BY <1>10, <1>11, <2>1
  <2>2. CASE ~Matches(v, wrap)
    BY <1>10, <1>11, <1>12, <2>2
  <2> QED BY <2>1, <2>2
<1> QED BY <1>13 DEF b, t

\* The content comes out as it went in.
LEMMA ExtractIs ==
    ASSUME NEW p \in Parts, NEW v \in Views(p), NEW n \in Nat
    PROVE  extract_spc_content(Encode(v) \o Zeros(n)) = Result(p.content)
<1> DEFINE b == Encode(v) \o Zeros(n)
           c == p.content
           l5 == Spine(b).l5
<1>1. v.form \in {"native", "wrapped"}
  BY DEF Views
<1>2. Carries(b, Version(v), FormTag(v.form), FormInner(v.form, c),
              FormValue(v.form, c), p.rest)
  BY EncodeIs
<1> HIDE DEF b, c
<1>3. /\ l5.ok /\ l5.tag = FormTag(v.form)
      /\ Slice(b, l5.full, l5.ce) = FormValue(v.form, c)
      /\ Slice(b, l5.cs, l5.ce) = FormInner(v.form, c)
      /\ FirstChild(b, Root(b)).ok /\ FirstChild(b, Root(b)).tag = OID
  BY <1>2 DEF Carries, Readable, Complete
<1>4. OID # SEQUENCE /\ OCTET_STRING # SEQUENCE
  BY EnvelopeAssumption
<1> HIDE DEF l5
<1>5. spc_content_from_pkcs7(b) = Result(c)
  <2>1. CASE v.form = "wrapped"
    <3>1. l5.tag = OCTET_STRING /\ Slice(b, l5.cs, l5.ce) = c
      BY <1>3, <2>1 DEF FormTag, FormInner
    <3> QED BY <1>3, <3>1 DEF spc_content_from_pkcs7, l5
  <2>2. CASE v.form = "native"
    <3>1. l5.tag # OCTET_STRING /\ Slice(b, l5.full, l5.ce) = c
      BY <1>3, <1>4, <2>2 DEF FormTag, FormValue
    <3> QED BY <1>3, <3>1 DEF spc_content_from_pkcs7, l5
  <2> QED BY <1>1, <2>1, <2>2
<1>6. extract_spc_content(b) = Result(c)
  BY <1>3, <1>4, <1>5 DEF extract_spc_content
<1> QED BY <1>6 DEF b, c

----------------------------------------------------------------------------
(* What padding does to a blob that cannot be rewritten *)

LEMMA ChildPadded ==
    ASSUME NEW d, NEW b, At(d, 0, b), NEW outer, outer.ok => outer.cs \in Nat /\ outer.ce \in Nat,
           NEW tags, Child(b, outer, tags).ok
    PROVE  /\ outer.ok
           /\ \A any : Child(d, outer, any) = Child(b, outer, any)
           /\ Child(b, outer, tags).cs \in Nat /\ Child(b, outer, tags).ce \in Nat
<1> DEFINE kids == children(b, outer.cs, outer.ce)
           found == {h \in kids : h.tag \in tags}
           m == Child(b, outer, tags)
<1>1. outer.ok /\ m = First(kids, tags)
  BY DEF Child, Malformed
<1>2. outer.cs \in Nat /\ outer.ce \in Nat /\ b \in Seq(Byte) /\ d \in Seq(Byte) /\ 0 \in Nat
  BY <1>1 DEF At
<1>3. (\A h \in kids : h.ok) /\ found # {}
  <2> SUFFICES ASSUME ~((\A h \in kids : h.ok) /\ found # {}) PROVE FALSE
    OBVIOUS
  <2> HIDE DEF kids
  <2>1. First(kids, tags) = Malformed
    BY DEF First
  <2> QED BY <1>1, <2>1 DEF Malformed
<1>4. ASSUME NEW h \in kids
      PROVE  h.cs \in Nat /\ h.ce \in Nat /\ h.full \in Nat /\ Moved(h, 0) = h
  <2>1. h.ok
    BY <1>3
  <2>2. /\ h.full \in outer.cs .. outer.ce - 1 /\ h.cs \in Nat /\ h.ce \in Nat
        /\ h = read_header(b, h.full)
    BY <1>2, <2>1, ChildrenAfter
  <2>3. h.full \in Nat
    BY <1>2, <2>2
  <2>4. h = Header(b[h.full+1], h.full, h.cs, h.ce) /\ h.tag = b[h.full+1]
    BY <1>2, <2>1, <2>2, <2>3, HeaderType
  <2>5. 0 + h.full = h.full /\ 0 + h.cs = h.cs /\ 0 + h.ce = h.ce
    BY <2>2, <2>3
  <2> QED BY <2>2, <2>3, <2>4, <2>5 DEF Moved
<1>5. children(d, outer.cs, outer.ce) = kids
  <2>1. children(d, 0 + outer.cs, 0 + outer.ce) = {Moved(h, 0) : h \in kids}
    BY <1>2, <1>3, ChildrenWithin
  <2>2. 0 + outer.cs = outer.cs /\ 0 + outer.ce = outer.ce
    BY <1>2
  <2>3. {Moved(h, 0) : h \in kids} = {h : h \in kids}
    BY <1>4
  <2> QED BY <2>1, <2>2, <2>3
<1>6. m \in kids
  <2> DEFINE Least1(h) == \A k \in found : h.full <= k.full
  <2>1. m = CHOOSE h \in found : Least1(h)
    BY <1>1, <1>3 DEF First
  <2>2. \E h \in found : Least1(h)
    <3> DEFINE N == {h.full : h \in found}
    <3>1. N \in SUBSET Nat /\ N # {}
      BY <1>3, <1>4
    <3> HIDE DEF N
    <3>2. PICK i \in N : \A j \in N : i <= j
      BY <3>1, Least
    <3> QED BY <3>2 DEF N
  <2> HIDE DEF Least1, m
  <2>3. m \in found
    BY <2>1, <2>2
  <2> QED BY <2>3
<1>7. \A any : Child(d, outer, any) = Child(b, outer, any)
  BY <1>5 DEF Child
<1>8. m.cs \in Nat /\ m.ce \in Nat
  <2> HIDE DEF m
  <2> QED BY <1>4, <1>6
<1> QED BY <1>1, <1>7, <1>8

\* A blob with content has the same containers with trailing bytes.
LEMMA SpinePadded ==
    ASSUME NEW d, NEW b, At(d, 0, b), Spine(b).l5.ok
    PROVE  Spine(d) = Spine(b)
<1> DEFINE l0 == Root(b)
           l1 == Child(b, l0, {CONTEXT_0})
           l2 == Child(b, l1, {SEQUENCE})
           l3 == Child(b, l2, {SEQUENCE})
           l4 == Child(b, l3, {CONTEXT_0})
           l5 == Child(b, l4, Byte)
           Same(l) == \A any : Child(d, l, any) = Child(b, l, any)
           Typed(l) == l.cs \in Nat /\ l.ce \in Nat
<1>0. b \in Seq(Byte)
  BY DEF At
<1>1. l5.ok
  BY SpineIs DEF FirstChild
<1>2. l4.ok /\ l3.ok /\ l2.ok /\ l1.ok /\ l0.ok
  BY <1>1 DEF Child, Malformed
<1>3. Root(d) = l0 /\ Typed(l0)
  <2> DEFINE h == read_header(b, 0)
  <2>1. h.ok /\ h.tag = SEQUENCE /\ l0 = h
    BY <1>2 DEF Root, Malformed
  <2>2. /\ h = Header(b[0+1], 0, h.cs, h.ce) /\ h.tag = b[0+1]
        /\ h.cs \in Nat /\ h.ce \in Nat
    BY <1>0, <2>1, HeaderType
  <2>3. read_header(d, 0 + 0) = Header(h.tag, 0 + 0, 0 + h.cs, 0 + h.ce)
    BY <2>1, HeaderWithin
  <2>4. read_header(d, 0) = h
    <3>1. 0 + 0 = 0 /\ 0 + h.cs = h.cs /\ 0 + h.ce = h.ce
      BY <2>2
    <3> HIDE DEF h
    <3> QED BY <2>2, <2>3, <3>1
  <2>5. Root(d) = h
    BY <2>1, <2>4 DEF Root
  <2> HIDE DEF l0, h
  <2> QED BY <2>1, <2>2, <2>5
<1> HIDE DEF l0
<1>4. Same(l0) /\ Typed(l1)
  BY <1>2, <1>3, ChildPadded
<1> HIDE DEF l1
<1>5. Same(l1) /\ Typed(l2)
  BY <1>2, <1>4, ChildPadded DEF l2
<1> HIDE DEF l2
<1>6. Same(l2) /\ Typed(l3)
  BY <1>2, <1>5, ChildPadded DEF l3
<1> HIDE DEF l3
<1>7. Same(l3) /\ Typed(l4)
  BY <1>2, <1>6, ChildPadded DEF l4
<1> HIDE DEF l4
<1>8. Same(l4)
  BY <1>1, <1>7, ChildPadded DEF l5
<1>9. /\ Child(d, l0, {CONTEXT_0}) = l1 /\ Child(d, l1, {SEQUENCE}) = l2
      /\ Child(d, l2, {SEQUENCE}) = l3 /\ Child(d, l2, Byte) = Child(b, l2, Byte)
      /\ Child(d, l3, {CONTEXT_0}) = l4 /\ Child(d, l4, Byte) = l5
  BY <1>4, <1>5, <1>6, <1>7, <1>8 DEF l1, l2, l3, l4
<1>10. Spine(d) = [l0 |-> l0, l1 |-> l1, l2 |-> l2, version |-> Child(b, l2, Byte),
                   l3 |-> l3, l4 |-> l4, l5 |-> l5]
  BY <1>3, <1>9, SpineIs DEF FirstChild
<1>11. Spine(b) = [l0 |-> l0, l1 |-> l1, l2 |-> l2, version |-> Child(b, l2, Byte),
                   l3 |-> l3, l4 |-> l4, l5 |-> l5]
  BY SpineIs DEF FirstChild, l0, l1, l2, l3, l4
<1> QED BY <1>10, <1>11

----------------------------------------------------------------------------
(* The inductive invariant: view is what the bytes encode *)

\* Either the bytes are those of Encode for this view and its padding, or they
\* have no content; only then has an operation failed.
EnvelopeInv ==
    \/ /\ parts = NoParts /\ view = Promise!Unreadable
       /\ blob \in Seq(Byte) /\ ~Readable(blob)
    \/ /\ parts \in Parts /\ failed = FALSE
       /\ \E v \in Views(parts), n \in Nat : /\ blob = Encode(v) \o Zeros(n)
                                             /\ view = [v EXCEPT !.pad = n]

LEMMA UnreadableIs ==
    /\ \A b : Decoded(b, NoParts) = Promise!Unreadable
    /\ \A b, wrap : ~Readable(b) => rewrite_authenticode_content(b, wrap) = Malformed
    /\ \A der : Result(der).ok = TRUE /\ Result(der).der = der /\ Result(der) # Malformed
    /\ Malformed.ok = FALSE
  BY DEF Decoded, Promise!Unreadable, rewrite_authenticode_content, RewriteAlong, Readable,
         Malformed, Result

LEMMA NoPadding ==
    ASSUME NEW p \in Parts, NEW v \in Views(p)
    PROVE  /\ Encode(v) \o Zeros(0) = Encode(v)
           /\ Decoded(Encode(v), p) = v
           /\ v = [v EXCEPT !.pad = 0]
<1>1. 0 \in Nat /\ Encode(v) \in Seq(Byte)
  <2>1. 0 \in Nat
    OBVIOUS
  <2> QED BY <2>1, EncodeIs
<1>2. Zeros(0) = << >>
  BY DEF Zeros
<1>3. Encode(v) \o Zeros(0) = Encode(v)
  BY <1>1, <1>2, Alone
<1>4. v = [v EXCEPT !.pad = 0]
  BY DEF Views
<1>5. Decoded(Encode(v) \o Zeros(0), p) = [v EXCEPT !.pad = 0]
  BY <1>1, DecodedIs
<1> QED BY <1>3, <1>4, <1>5

\* The fields of a view with padding are those of the view.
LEMMA PaddedView ==
    ASSUME NEW p, NEW v \in Views(p), NEW n \in Nat, NEW w, w = [v EXCEPT !.pad = n]
    PROVE  /\ w.parts = p /\ w.form = v.form /\ w.version = v.version
           /\ w.pad = n /\ w # Promise!Unreadable
           /\ \A m : [w EXCEPT !.pad = m] = [v EXCEPT !.pad = m]
<1>1. v.form \in {"native", "wrapped"}
  BY DEF Views
<1>2. w.form = v.form
  BY DEF Views
<1>3. Promise!Unreadable.form = "unreadable"
  BY DEF Promise!Unreadable
<1> QED BY <1>1, <1>2, <1>3 DEF Views

\* Zeros after zeros are zeros.
LEMMA ZerosTwice ==
    ASSUME NEW e \in Seq(Byte), NEW n \in Nat, NEW m \in Nat
    PROVE  (e \o Zeros(n)) \o Zeros(m) = e \o Zeros(n + m)
<1> DEFINE x == (e \o Zeros(n)) \o Zeros(m)
           y == e \o Zeros(n + m)
           en == e \o Zeros(n)
           k == Len(e)
<1>1. /\ Zeros(n) \in Seq(Byte) /\ Len(Zeros(n)) = n /\ \A i \in 1 .. n : Zeros(n)[i] = 0
      /\ Zeros(m) \in Seq(Byte) /\ Len(Zeros(m)) = m /\ \A i \in 1 .. m : Zeros(m)[i] = 0
  BY ZerosIs
<1>2. /\ Zeros(n + m) \in Seq(Byte) /\ Len(Zeros(n + m)) = n + m
      /\ \A i \in 1 .. n + m : Zeros(n + m)[i] = 0
  <2> DEFINE l == n + m
  <2>1. l \in Nat
    OBVIOUS
  <2> HIDE DEF l
  <2>2. Zeros(l) \in Seq(Byte) /\ Len(Zeros(l)) = l /\ \A i \in 1 .. l : Zeros(l)[i] = 0
    BY <2>1, ZerosIs
  <2> QED BY <2>2 DEF l
<1>3. k \in Nat
  OBVIOUS
<1>4. /\ en \in Seq(Byte) /\ Len(en) = k + n
      /\ \A i \in 1 .. k : en[i] = e[i]
      /\ \A i \in 1 .. n : en[k + i] = 0
  <2>1. /\ en \in Seq(Byte) /\ Len(en) = Len(e) + Len(Zeros(n))
        /\ \A i \in 1 .. Len(e) : en[i] = e[i]
        /\ \A i \in 1 .. Len(Zeros(n)) : en[Len(e) + i] = Zeros(n)[i]
    <3>1. Zeros(n) \in Seq(Byte)
      BY <1>1
    <3> QED BY <3>1, ConcatType
  <2> HIDE DEF en
  <2> QED BY <1>1, <2>1
<1> HIDE DEF en
<1>5. /\ x \in Seq(Byte) /\ Len(x) = (k + n) + m
      /\ \A i \in 1 .. k + n : x[i] = en[i]
      /\ \A i \in 1 .. m : x[(k + n) + i] = 0
  <2> DEFINE z == en \o Zeros(m)
  <2>1. x = z
    BY DEF en
  <2>2. /\ z \in Seq(Byte) /\ Len(z) = Len(en) + Len(Zeros(m))
        /\ \A i \in 1 .. Len(en) : z[i] = en[i]
        /\ \A i \in 1 .. Len(Zeros(m)) : z[Len(en) + i] = Zeros(m)[i]
    <3>1. en \in Seq(Byte) /\ Zeros(m) \in Seq(Byte)
      BY <1>1, <1>4
    <3> QED BY <3>1, ConcatType
  <2> HIDE DEF x, z
  <2> QED BY <1>1, <1>4, <2>1, <2>2
<1>6. /\ y \in Seq(Byte) /\ Len(y) = k + (n + m)
      /\ \A i \in 1 .. k : y[i] = e[i]
      /\ \A i \in 1 .. n + m : y[k + i] = 0
  <2>1. /\ y \in Seq(Byte) /\ Len(y) = Len(e) + Len(Zeros(n + m))
        /\ \A i \in 1 .. Len(e) : y[i] = e[i]
        /\ \A i \in 1 .. Len(Zeros(n + m)) : y[Len(e) + i] = Zeros(n + m)[i]
    BY <1>2, ConcatType
  <2> HIDE DEF y
  <2> QED BY <1>2, <2>1
<1> HIDE DEF x, y, k
<1>7. ASSUME NEW i \in 1 .. Len(x) PROVE x[i] = y[i]
  <2>1. i \in Nat /\ 1 <= i /\ i <= (k + n) + m
    BY <1>5
  <2>2. CASE i <= k
    <3>1. i \in 1 .. k /\ i \in 1 .. k + n
      BY <1>3, <2>1, <2>2
    <3> QED BY <1>4, <1>5, <1>6, <3>1
  <2>3. CASE i > k /\ i <= k + n
    <3> DEFINE j == i - k
    <3>1. j \in 1 .. n /\ j \in 1 .. n + m /\ i \in 1 .. k + n /\ k + j = i
      BY <1>3, <2>1, <2>3
    <3> HIDE DEF j
    <3>2. x[i] = en[i] /\ en[k + j] = 0 /\ y[k + j] = 0
      BY <1>4, <1>5, <1>6, <3>1
    <3> QED BY <3>1, <3>2
  <2>4. CASE i > k + n
    <3> DEFINE j == i - (k + n)
               l == i - k
    <3>1. j \in 1 .. m /\ (k + n) + j = i /\ l \in 1 .. n + m /\ k + l = i
      BY <1>3, <2>1, <2>4
    <3> HIDE DEF j, l
    <3>2. x[(k + n) + j] = 0 /\ y[k + l] = 0
      BY <1>5, <1>6, <3>1
    <3> QED BY <3>1, <3>2
  <2> QED BY <1>3, <2>1, <2>2, <2>3, <2>4
<1>8. Len(x) = Len(y)
  BY <1>3, <1>5, <1>6
<1>9. x = y
  BY <1>5, <1>6, <1>7, <1>8, SeqEqual
<1> QED BY <1>9 DEF x, y

LEMMA InitHolds == Init => EnvelopeInv
<1> SUFFICES ASSUME Init PROVE EnvelopeInv
  OBVIOUS
<1>1. CASE parts \in Parts /\ view \in Views(parts) /\ blob = Encode(view)
  <2>1. blob = Encode(view) \o Zeros(0) /\ view = [view EXCEPT !.pad = 0] /\ 0 \in Nat
    BY <1>1, NoPadding
  <2>2. failed = FALSE
    BY DEF Init
  <2> QED BY <1>1, <2>1, <2>2 DEF EnvelopeInv
<1>2. CASE parts = NoParts /\ blob \in Others /\ view = Decoded(blob, parts)
  <2>1. blob \in Seq(Byte) /\ ~Readable(blob)
    BY <1>2, EnvelopeAssumption, InputsAssumption
  <2>2. view = Promise!Unreadable
    BY <1>2, UnreadableIs
  <2> QED BY <1>2, <2>1, <2>2 DEF EnvelopeInv
<1> QED BY <1>1, <1>2 DEF Init, Parts

\* A rewrite goes as Blob says, or fails for want of content.
LEMMA ApplyKeeps ==
    ASSUME EnvelopeInv, NEW wrap \in BOOLEAN, Apply(rewrite_authenticode_content(blob, wrap))
    PROVE  /\ EnvelopeInv'
           /\ \/ view' = view
              \/ Promise!Rewrite(IF wrap THEN "wrapped" ELSE "native", IF wrap THEN 3 ELSE 1)
<1> DEFINE result == rewrite_authenticode_content(blob, wrap)
<1>1. /\ failed = FALSE \/ failed # TRUE
      /\ blob' = IF result.ok THEN result.der ELSE blob
      /\ view' = IF result.ok THEN Decoded(result.der, parts) ELSE view
      /\ failed' = ~result.ok
      /\ parts' = parts
  BY DEF Apply
<1>2. CASE parts = NoParts /\ view = Promise!Unreadable /\ blob \in Seq(Byte) /\ ~Readable(blob)
  <2>1. result = Malformed /\ result.ok = FALSE
    BY <1>2, UnreadableIs
  <2> HIDE DEF result
  <2>2. blob' = blob /\ view' = view /\ parts' = parts
    BY <1>1, <2>1
  <2>3. EnvelopeInv'
    BY <1>2, <2>2 DEF EnvelopeInv
  <2> QED BY <2>2, <2>3
<1>3. CASE /\ parts \in Parts /\ failed = FALSE
           /\ \E v \in Views(parts), n \in Nat : /\ blob = Encode(v) \o Zeros(n)
                                                 /\ view = [v EXCEPT !.pad = n]
  <2>1. PICK v \in Views(parts), n \in Nat : /\ blob = Encode(v) \o Zeros(n)
                                             /\ view = [v EXCEPT !.pad = n]
    BY <1>3
  <2> DEFINE t == Target(v, wrap)
  <2>2. result = IF Matches(v, wrap) THEN Result(blob) ELSE Result(Encode(t))
    BY <1>3, <2>1, RewriteIs
  <2>3. /\ t \in Views(parts) /\ t.long = FALSE
        /\ t.form = IF wrap THEN "wrapped" ELSE "native"
        /\ t.version = IF wrap THEN 3 ELSE 1
    BY <1>3, TargetIs
  <2>4. /\ view.parts = parts /\ view.form = v.form /\ view.version = v.version
        /\ view # Promise!Unreadable
    <3>1. view.parts = v.parts /\ view.form = v.form /\ view.version = v.version
      BY <2>1 DEF Views
    <3>3. v.parts = parts
      BY DEF Views
    <3>2. view # Promise!Unreadable
      BY <2>1, PaddedView
    <3> QED BY <3>1, <3>2, <3>3
  <2>5. result.ok = TRUE /\ result.der = IF Matches(v, wrap) THEN blob ELSE Encode(t)
    BY <2>2, UnreadableIs
  <2> HIDE DEF result
  <2>6. CASE Matches(v, wrap)
    <3>1. blob' = blob /\ view' = Decoded(blob, parts) /\ failed' = FALSE /\ parts' = parts
      BY <1>1, <2>5, <2>6
    <3>2. view' = view
      BY <1>3, <2>1, <3>1, DecodedIs
    <3>3. EnvelopeInv'
      BY <1>3, <3>1, <3>2 DEF EnvelopeInv
    <3> QED BY <3>2, <3>3
  <2>7. CASE ~Matches(v, wrap)
    <3>1. /\ blob' = Encode(t) /\ view' = Decoded(Encode(t), parts) /\ failed' = FALSE
          /\ parts' = parts
      BY <1>1, <2>5, <2>7
    <3> HIDE DEF t
    <3>2. /\ Encode(t) \o Zeros(0) = Encode(t) /\ Decoded(Encode(t), parts) = t
          /\ t = [t EXCEPT !.pad = 0]
      BY <1>3, <2>3, NoPadding
    <3>3. view' = t
      BY <3>1, <3>2
    <3>4. EnvelopeInv'
      <4>1. blob' = Encode(t) \o Zeros(0) /\ view' = [t EXCEPT !.pad = 0] /\ 0 \in Nat
        BY <3>1, <3>2, <3>3
      <4>2. parts' \in Parts /\ t \in Views(parts') /\ failed' = FALSE
        BY <1>3, <2>3, <3>1
      <4> QED BY <4>1, <4>2 DEF EnvelopeInv
    <3>5. t = [parts |-> view.parts, form |-> IF wrap THEN "wrapped" ELSE "native",
               version |-> IF wrap THEN 3 ELSE 1, long |-> FALSE, pad |-> 0]
      BY <2>3, <2>4 DEF Views
    <3>6. ~(/\ view.form = (IF wrap THEN "wrapped" ELSE "native")
            /\ view.version = (IF wrap THEN 3 ELSE 1))
      BY <2>4, <2>7 DEF Matches
    <3>7. Promise!Rewrite(IF wrap THEN "wrapped" ELSE "native", IF wrap THEN 3 ELSE 1)
      BY <2>4, <3>3, <3>5, <3>6 DEF Promise!Rewrite, Promise!Unreadable
    <3> QED BY <3>4, <3>7
  <2> QED BY <2>6, <2>7
<1> QED BY <1>2, <1>3 DEF EnvelopeInv

LEMMA EmbedKeeps ==
    ASSUME EnvelopeInv, EmbedExtract
    PROVE  EnvelopeInv' /\ (view' = view \/ Promise!Embed)
<1> DEFINE m == (8 - (Len(blob) % 8)) % 8
           padded == blob \o Zeros(m)
<1>1. /\ Spine(blob).l5.ok /\ blob' = padded /\ view' = Decoded(padded, parts)
      /\ parts' = parts /\ failed' = failed
  BY DEF EmbedExtract
<1>2. CASE parts = NoParts /\ view = Promise!Unreadable /\ blob \in Seq(Byte) /\ ~Readable(blob)
  <2>1. m \in Nat
    <3>1. Len(blob) \in Nat
      BY <1>2
    <3> QED BY <3>1
  <2> HIDE DEF m
  <2>2. Zeros(m) \in Seq(Byte)
    BY <2>1, ZerosIs
  <2>3. padded \in Seq(Byte) /\ At(padded, 0, blob)
    BY <1>2, <2>2, ConcatType, AtJoin
  <2> HIDE DEF padded
  <2>4. ~Readable(padded)
    <3>1. Spine(padded) = Spine(blob)
      BY <1>1, <2>3, SpinePadded
    <3> QED BY <1>2, <3>1 DEF Readable, Complete
  <2>5. view' = Promise!Unreadable
    BY <1>1, <1>2, UnreadableIs
  <2>6. EnvelopeInv'
    BY <1>1, <1>2, <2>3, <2>4, <2>5 DEF EnvelopeInv, Promise!Unreadable
  <2> QED BY <1>2, <2>5, <2>6
<1>3. CASE /\ parts \in Parts /\ failed = FALSE
           /\ \E v \in Views(parts), n \in Nat : /\ blob = Encode(v) \o Zeros(n)
                                                 /\ view = [v EXCEPT !.pad = n]
  <2>1. PICK v \in Views(parts), n \in Nat : /\ blob = Encode(v) \o Zeros(n)
                                             /\ view = [v EXCEPT !.pad = n]
    BY <1>3
  <2>2. Encode(v) \in Seq(Byte) /\ blob \in Seq(Byte)
    BY <1>3, <2>1, EncodeIs
  <2>3. m \in 0 .. 7 /\ m \in Nat
    <3>1. Len(blob) \in Nat
      BY <2>2
    <3> QED BY <3>1
  <2> HIDE DEF m
  <2>4. padded = Encode(v) \o Zeros(n + m) /\ n + m \in Nat
    <3>1. (Encode(v) \o Zeros(n)) \o Zeros(m) = Encode(v) \o Zeros(n + m)
      BY <2>2, <2>3, ZerosTwice
    <3>2. n + m \in Nat
      BY <2>3
    <3> QED BY <2>1, <3>1, <3>2
  <2> HIDE DEF padded
  <2>5. view' = [v EXCEPT !.pad = n + m]
    BY <1>1, <1>3, <2>4, DecodedIs
  <2>6. EnvelopeInv'
    <3>1. parts' \in Parts /\ failed' = FALSE /\ v \in Views(parts')
      BY <1>1, <1>3
    <3> DEFINE k == n + m
    <3>2. k \in Nat /\ blob' = Encode(v) \o Zeros(k) /\ view' = [v EXCEPT !.pad = k]
      BY <1>1, <2>4, <2>5
    <3> HIDE DEF k
    <3> QED BY <3>1, <3>2 DEF EnvelopeInv
  <2>7. /\ view.pad = n /\ view # Promise!Unreadable
        /\ [view EXCEPT !.pad = n + m] = [v EXCEPT !.pad = n + m]
    <3>1. view.pad = n
      BY <2>1, PaddedView
    <3>2. view # Promise!Unreadable
      BY <2>1, PaddedView
    <3>3. \A k : [view EXCEPT !.pad = k] = [v EXCEPT !.pad = k]
      BY <2>1, PaddedView
    <3> QED BY <3>1, <3>2, <3>3
  <2>8. view' = [view EXCEPT !.pad = view.pad + m]
    BY <2>5, <2>7
  <2>9. Promise!Embed
    BY <2>3, <2>7, <2>8 DEF Promise!Embed
  <2> QED BY <2>6, <2>9
<1> QED BY <1>2, <1>3 DEF EnvelopeInv

LEMMA StepKeeps ==
    EnvelopeInv /\ [Next]_vars => EnvelopeInv' /\ [Promise!Next]_view
<1> SUFFICES ASSUME EnvelopeInv, [Next]_vars PROVE EnvelopeInv' /\ [Promise!Next]_view
  OBVIOUS
<1>1. CASE Normalize
  <2>1. Apply(rewrite_authenticode_content(blob, FALSE)) /\ FALSE \in BOOLEAN
    BY <1>1 DEF Normalize, normalize_authenticode_signature
  <2>2. EnvelopeInv' /\ (view' = view \/ Promise!Rewrite("native", 1))
    BY <2>1, ApplyKeeps
  <2> QED BY <2>2 DEF Promise!Next, Promise!Normalize
<1>2. CASE Wrap
  <2>1. Apply(rewrite_authenticode_content(blob, TRUE)) /\ TRUE \in BOOLEAN
    BY <1>2 DEF Wrap, wrap_authenticode_content
  <2>2. EnvelopeInv' /\ (view' = view \/ Promise!Rewrite("wrapped", 3))
    BY <2>1, ApplyKeeps
  <2> QED BY <2>2 DEF Promise!Next, Promise!Wrap
<1>3. CASE EmbedExtract
  BY <1>3, EmbedKeeps DEF Promise!Next
<1>4. CASE UNCHANGED vars
  BY <1>4 DEF vars, EnvelopeInv, Promise!Unreadable
<1> QED BY <1>1, <1>2, <1>3, <1>4 DEF Next

----------------------------------------------------------------------------
(* Theorems *)

\* The history variable is the truth about the bytes after every sequence of
\* rewrites, embeddings and extractions (Init, Apply, EmbedExtract).
THEOREM EnvelopeInvariant == Spec => []EnvelopeInv
<1>1. Init => EnvelopeInv
  BY InitHolds
<1>2. EnvelopeInv /\ [Next]_vars => EnvelopeInv'
  BY StepKeeps
<1> QED BY <1>1, <1>2, PTL DEF Spec

\* rewrite_authenticode_content implements the promise of Blob: each call of
\* normalize and wrap gives the one form and version it is for and keeps the
\* parts, for every length a container may have.
THEOREM EnvelopeImplementsBlob == Spec => PromiseKept
<1>1. Init => Promise!Init
  <2> SUFFICES ASSUME Init PROVE Promise!Init
    OBVIOUS
  <2>1. CASE view \in Views(parts)
    BY <2>1 DEF Views, Promise!Init
  <2>2. CASE parts = NoParts /\ view = Decoded(blob, parts)
    BY <2>2, UnreadableIs DEF Promise!Init
  <2> QED BY <2>1, <2>2 DEF Init
<1>2. EnvelopeInv /\ [Next]_vars => [Promise!Next]_view
  BY StepKeeps
<1> QED BY <1>1, <1>2, EnvelopeInvariant, PTL DEF Spec, PromiseKept, Promise!Spec

\* parse_spc_indirect_data gives back the content, byte for byte, from every
\* envelope a blob goes through and from the bare content.
THEOREM ContentIsRecovered == Spec => []ContentRecovered
<1>1. EnvelopeInv => ContentRecovered
  <2> SUFFICES ASSUME EnvelopeInv, parts # NoParts
               PROVE  /\ extract_spc_content(blob) = Result(parts.content)
                      /\ extract_spc_content(parts.content) = Result(parts.content)
    BY DEF ContentRecovered
  <2>1. PICK v \in Views(parts), n \in Nat : blob = Encode(v) \o Zeros(n)
    BY DEF EnvelopeInv
  <2>2. parts \in Parts /\ parts.content \in Contents
    BY DEF EnvelopeInv, Parts
  <2> QED BY <2>1, <2>2, ExtractIs, ContentIs
<1> QED BY <1>1, EnvelopeInvariant, PTL

\* check_authenticode_envelope accepts version 1 with native content, and
\* nothing else, with and without padding.
THEOREM CheckIsExactAlways == Spec => []CheckIsExact
<1>1. EnvelopeInv => CheckIsExact
  <2> SUFFICES ASSUME EnvelopeInv
               PROVE  check_authenticode_envelope(blob) <=>
                          parts # NoParts /\ view.form = "native" /\ view.version = 1
    BY DEF CheckIsExact
  <2>1. CASE parts = NoParts /\ ~Readable(blob)
    <3>1. normalize_authenticode_signature(blob) = Malformed
      BY <2>1, UnreadableIs DEF normalize_authenticode_signature
    <3> QED BY <2>1, <3>1, UnreadableIs DEF check_authenticode_envelope
  <2>2. CASE /\ parts \in Parts
             /\ \E v \in Views(parts), n \in Nat : /\ blob = Encode(v) \o Zeros(n)
                                                   /\ view = [v EXCEPT !.pad = n]
    <3>1. PICK v \in Views(parts), n \in Nat : /\ blob = Encode(v) \o Zeros(n)
                                               /\ view = [v EXCEPT !.pad = n]
      BY <2>2
    <3> DEFINE t == Target(v, FALSE)
    <3>2. normalize_authenticode_signature(blob) =
              IF Matches(v, FALSE) THEN Result(blob) ELSE Result(Encode(t))
      <4>1. FALSE \in BOOLEAN
        OBVIOUS
      <4> QED BY <2>2, <3>1, <4>1, RewriteIs DEF normalize_authenticode_signature
    <3>3. t \in Views(parts) /\ t.form = "native" /\ t.version = 1
      <4>1. FALSE \in BOOLEAN
        OBVIOUS
      <4> QED BY <2>2, <4>1, TargetIs
    <3>4. Matches(v, FALSE) <=> view.form = "native" /\ view.version = 1
      <4>1. view.form = v.form /\ view.version = v.version
        BY <3>1, PaddedView
      <4> QED BY <4>1 DEF Matches
    <3>5. parts # NoParts
      BY <2>2, PartsApart
    <3> HIDE DEF t
    <3>6. ASSUME ~Matches(v, FALSE) PROVE Encode(t) # blob
      <4> SUFFICES ASSUME Encode(t) = blob PROVE FALSE
        OBVIOUS
      <4>1. Encode(v) \o Zeros(n) = Encode(t) \o Zeros(0) /\ 0 \in Nat
        BY <2>2, <3>1, <3>3, NoPadding
      <4>2. v = t
        <5>1. parts \in Parts /\ t \in Views(parts) /\ 0 \in Nat
          BY <2>2, <3>3
        <5> DEFINE zero == 0
        <5>2. zero \in Nat /\ Encode(v) \o Zeros(n) = Encode(t) \o Zeros(zero)
          BY <4>1
        <5> HIDE DEF zero
        <5> QED BY <5>1, <5>2, SameView
      <4> QED BY <3>3, <3>6, <4>2 DEF Matches
    <3>7. normalize_authenticode_signature(blob) = Result(blob) <=> Matches(v, FALSE)
      <4>1. CASE Matches(v, FALSE)
        BY <3>2, <4>1
      <4>2. CASE ~Matches(v, FALSE)
        <5>1. normalize_authenticode_signature(blob) = Result(Encode(t))
          BY <3>2, <4>2
        <5>2. Result(Encode(t)) # Result(blob)
          BY <3>6, <4>2, UnreadableIs
        <5> QED BY <4>2, <5>1, <5>2
      <4> QED BY <4>1, <4>2
    <3> QED BY <3>4, <3>5, <3>7 DEF check_authenticode_envelope
  <2> QED BY <2>1, <2>2 DEF EnvelopeInv
<1> QED BY <1>1, EnvelopeInvariant, PTL

\* A rewrite fails for what has no content and for nothing else.
THEOREM OnlyUnreadableFails == Spec => []FailsOnlyUnreadable
<1>1. EnvelopeInv => FailsOnlyUnreadable
  BY DEF EnvelopeInv, FailsOnlyUnreadable
<1> QED BY <1>1, EnvelopeInvariant, PTL

\* normalize undoes wrap, as the test authenticode_content_wrapper_round_trip
\* wants it: whatever blob went in, with its trailing zeros and with the lengths of
\* whoever wrote it, what comes back is the one native encoding of its parts with
\* minimal lengths.  Both rewrites leave their own results alone.
THEOREM NormalizeUndoesWrap ==
    ASSUME NEW p \in Parts, NEW v \in Views(p), NEW n \in Nat
    PROVE  LET b          == Encode(v) \o Zeros(n)
               wrapped    == wrap_authenticode_content(b).der
               normalized == normalize_authenticode_signature(b).der
           IN  /\ normalize_authenticode_signature(wrapped) = Result(Encode(Target(v, FALSE)))
               /\ wrap_authenticode_content(wrapped) = Result(wrapped)
               /\ normalize_authenticode_signature(normalized) = Result(normalized)
<1> DEFINE b == Encode(v) \o Zeros(n)
           rewritten(wrap) == rewrite_authenticode_content(b, wrap).der
<1>1. ASSUME NEW x PROVE Result(x).der = x
  BY DEF Result
<1>2. ASSUME NEW wrap \in BOOLEAN
      PROVE  \E w \in Views(p), m \in Nat : /\ rewritten(wrap) = Encode(w) \o Zeros(m)
                                            /\ Matches(w, wrap)
                                            /\ Target(w, FALSE) = Target(v, FALSE)
  <2>1. rewrite_authenticode_content(b, wrap) =
            IF Matches(v, wrap) THEN Result(b) ELSE Result(Encode(Target(v, wrap)))
    BY RewriteIs
  <2>2. CASE Matches(v, wrap)
    <3>1. rewritten(wrap) = Encode(v) \o Zeros(n)
      BY <2>1, <2>2, <1>1
    <3> QED BY <2>2, <3>1
  <2>3. CASE ~Matches(v, wrap)
    <3> DEFINE t == Target(v, wrap)
    <3>1. /\ t \in Views(p) /\ Matches(t, wrap)
      BY TargetIs DEF Matches
    <3>2. Target(t, FALSE) = Target(v, FALSE)
      BY DEF Target, Views
    <3>3. rewritten(wrap) = Encode(t) \o Zeros(0)
      BY <2>1, <2>3, <1>1, <3>1, NoPadding
    <3>4. 0 \in Nat
      OBVIOUS
    <3> QED BY <3>1, <3>2, <3>3, <3>4
  <2> QED BY <2>2, <2>3
<1>3. ASSUME NEW wrap \in BOOLEAN
      PROVE  rewrite_authenticode_content(rewritten(wrap), wrap) = Result(rewritten(wrap))
  <2>1. PICK w \in Views(p), m \in Nat :
            rewritten(wrap) = Encode(w) \o Zeros(m) /\ Matches(w, wrap)
    BY <1>2
  <2> HIDE DEF rewritten
  <2> QED BY <2>1, RewriteIs
<1>4. rewrite_authenticode_content(rewritten(TRUE), FALSE) = Result(Encode(Target(v, FALSE)))
  <2>1. PICK w \in Views(p), m \in Nat : /\ rewritten(TRUE) = Encode(w) \o Zeros(m)
                                         /\ Matches(w, TRUE)
                                         /\ Target(w, FALSE) = Target(v, FALSE)
    BY <1>2
  <2> HIDE DEF rewritten
  <2>2. ~Matches(w, FALSE)
    BY <2>1 DEF Matches
  <2>3. rewrite_authenticode_content(rewritten(TRUE), FALSE) = Result(Encode(Target(w, FALSE)))
    BY <2>1, <2>2, RewriteIs
  <2> QED BY <2>1, <2>3
<1>5. /\ rewrite_authenticode_content(rewritten(TRUE), TRUE) = Result(rewritten(TRUE))
      /\ rewrite_authenticode_content(rewritten(FALSE), FALSE) = Result(rewritten(FALSE))
  BY <1>3
<1> QED BY <1>4, <1>5 DEF normalize_authenticode_signature, wrap_authenticode_content

=============================================================================

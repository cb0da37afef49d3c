---------------------------- MODULE BasicLemmas ----------------------------
(***************************************************************************)
(* Numbers, sequences, and induction and primitive recursion in a form the *)
(* provers can use: about sets and functions, where the library's theorems *)
(* are about operators.                                                    *)
(***************************************************************************)
EXTENDS Integers, Sequences, WellFoundedInduction, TLAPS

----------------------------------------------------------------------------
(* Division *)

\* A digit below B in front of a number below m gives one below B * m.
LEMMA Horner ==
    ASSUME NEW B \in Nat, NEW m \in Nat, NEW a \in 0 .. B - 1, NEW n \in 0 .. m - 1
    PROVE  a + B * n \in 0 .. B * m - 1
<1>1. B * n \in Nat /\ B * m \in Nat
  OBVIOUS
<1>2. B * (n + 1) <= B * m
  OBVIOUS
<1>3. B * (n + 1) = B * n + B
  OBVIOUS
<1> QED BY <1>1, <1>2, <1>3

LEMMA DivMod ==
    ASSUME NEW B \in Nat \ {0}, NEW n \in Nat
    PROVE  /\ n % B \in 0 .. B - 1
           /\ n \div B \in Nat
           /\ n = (n % B) + (B * (n \div B))
  OBVIOUS

\* A digit and a rest are told apart by division.
LEMMA DivModUnique ==
    ASSUME NEW B \in Nat \ {0}, NEW a \in 0 .. B - 1, NEW m \in Nat
    PROVE  (a + B * m) % B = a /\ (a + B * m) \div B = m
<1> DEFINE x == a + B * m
           q == x \div B
           r == x % B
<1>1. B * m \in Nat /\ x \in Nat
  OBVIOUS
<1>2. r \in 0 .. B - 1 /\ q \in Nat /\ x = r + (B * q)
  <2> HIDE DEF x
  <2> QED BY <1>1, DivMod
<1> HIDE DEF q, r
<1>3. q <= m
  <2> SUFFICES ASSUME q >= m + 1 PROVE FALSE
    BY <1>2
  <2>1. B * q >= B * (m + 1) /\ B * (m + 1) = B * m + B
    BY <1>2
  <2> QED BY <1>1, <1>2, <2>1
<1>4. m <= q
  <2> SUFFICES ASSUME m >= q + 1 PROVE FALSE
    BY <1>2
  <2>1. B * m >= B * (q + 1) /\ B * (q + 1) = B * q + B /\ B * q \in Nat
    BY <1>2
  <2> QED BY <1>1, <1>2, <2>1
<1>5. q = m
  BY <1>2, <1>3, <1>4
<1>6. r = a
  BY <1>1, <1>2, <1>5
<1> QED BY <1>5, <1>6 DEF q, r

LEMMA ModSmall ==
    ASSUME NEW B \in Nat, NEW n \in Nat, n < B
    PROVE  n % B = n
  OBVIOUS

LEMMA DivBound ==
    ASSUME NEW B \in Nat \ {0}, NEW m \in Nat, NEW n \in Nat, n < B * m
    PROVE  n \div B < m
<1>1. n \div B \in Nat /\ B * (n \div B) <= n
  OBVIOUS
<1>2. SUFFICES ASSUME n \div B >= m PROVE FALSE
  BY <1>1
<1>3. B * (n \div B) >= B * m
  BY <1>1, <1>2
<1> QED BY <1>1, <1>3

----------------------------------------------------------------------------
(* Sequences *)

LEMMA ConcatType ==
    ASSUME NEW S, NEW s \in Seq(S), NEW t \in Seq(S)
    PROVE  /\ s \o t \in Seq(S)
           /\ Len(s \o t) = Len(s) + Len(t)
           /\ \A i \in 1 .. Len(s) : (s \o t)[i] = s[i]
           /\ \A i \in 1 .. Len(t) : (s \o t)[Len(s) + i] = t[i]
  OBVIOUS

LEMMA SeqEqual ==
    ASSUME NEW S, NEW s \in Seq(S), NEW t \in Seq(S), Len(s) = Len(t),
           \A i \in 1 .. Len(s) : s[i] = t[i]
    PROVE  s = t
  OBVIOUS

----------------------------------------------------------------------------
(* Induction *)

\* A set of numbers that is not empty has a least one.
LEMMA Least ==
    ASSUME NEW S \in SUBSET Nat, S # {}
    PROVE  \E i \in S : \A j \in S : i <= j
<1> DEFINE R == OpToRel(<, Nat)
<1>1. IsWellFoundedOn(R, Nat)
  BY NatLessThanWellFounded
<1>2. \A i, j \in Nat : i < j => << i, j >> \in R
  BY DEF OpToRel
<1> HIDE DEF R
<1>3. PICK i \in S : \A j \in S : ~ (<< j, i >> \in R)
  BY <1>1, WFMin, Zenon
<1>4. ASSUME NEW j \in S PROVE i <= j
  <2>1. i \in Nat /\ j \in Nat
    OBVIOUS
  <2>2. ~ (j < i)
    BY <1>2, <1>3, <2>1, Zenon
  <2> QED BY <2>1, <2>2
<1> QED BY <1>4

\* What holds of 0 and of each number up to n after one it holds of, holds of
\* all the numbers up to n.
LEMMA UpTo ==
    ASSUME NEW n \in Nat, NEW S, 0 \in S,
           \A k \in 1 .. n : k - 1 \in S => k \in S
    PROVE  0 .. n \subseteq S
<1> SUFFICES ASSUME NEW x \in 0 .. n, x \notin S PROVE FALSE
  OBVIOUS
<1> DEFINE U == (0 .. n) \ S
<1>1. U \in SUBSET Nat /\ U # {}
  OBVIOUS
<1> HIDE DEF U
<1>2. PICK k \in U : \A j \in U : k <= j
  BY <1>1, Least
<1> USE DEF U
<1>3. k \in 1 .. n /\ k \notin S
  BY <1>2
<1>4. k - 1 \in 0 .. n /\ k - 1 \notin U
  BY <1>2, <1>3
<1> QED BY <1>3, <1>4

\* The equations of a primitive recursion with this start and this step.
Recursion(s, n, start, step) ==
    /\ s[0] = start
    /\ \A i \in 1 .. n : s[i] = step[<< s[i-1], i >>]

\* They have a solution.
LEMMA RecursionExists ==
    ASSUME NEW n \in Nat, NEW S, NEW start \in S, NEW step \in [S \X (1 .. n) -> S]
    PROVE  \E s \in [0 .. n -> S] : Recursion(s, n, start, step)
<1> DEFINE K == {k \in 0 .. n : \E s \in [0 .. k -> S] : Recursion(s, k, start, step)}
<1>1. 0 \in K
  <2> DEFINE z == [i \in 0 .. 0 |-> start]
  <2>1. z \in [0 .. 0 -> S] /\ Recursion(z, 0, start, step)
    BY DEF Recursion
  <2> QED BY <2>1
<1>2. ASSUME NEW k \in 1 .. n, k - 1 \in K PROVE k \in K
  <2>1. PICK s \in [0 .. k - 1 -> S] : Recursion(s, k - 1, start, step)
    BY <1>2
  <2>2. k \in Nat /\ k - 1 \in 0 .. n /\ k - 1 \in 0 .. k - 1
    BY <1>2
  <2> DEFINE x == step[<< s[k-1], k >>]
             cell(i) == IF i = k THEN x ELSE s[i]
             t == [i \in 0 .. k |-> cell(i)]
  <2>3. x \in S
    BY <2>2
  <2>4. \A i \in 0 .. k - 1 : s[i] \in S
    OBVIOUS
  <2> HIDE DEF x
  <2>5. t \in [0 .. k -> S]
    <3>1. \A i \in 0 .. k : cell(i) \in S
      BY <2>2, <2>3, <2>4
    <3> HIDE DEF cell
    <3> QED BY <3>1
  <2>6. t[k] = x /\ \A i \in 0 .. k - 1 : t[i] = s[i]
    BY <2>2
  <2> HIDE DEF t
  <2>7. t[0] = start
    <3>1. 0 \in 0 .. k - 1
      BY <2>2
    <3>2. s[0] = start
      BY <2>1 DEF Recursion
    <3> QED BY <2>6, <3>1, <3>2
  <2>8. ASSUME NEW i \in 1 .. k PROVE t[i] = step[<< t[i-1], i >>]
    <3>1. i - 1 \in 0 .. k - 1 /\ t[i-1] = s[i-1]
      BY <2>2, <2>6
    <3>2. CASE i = k
      BY <2>6, <3>1, <3>2 DEF x
    <3>3. CASE i # k
      <4>1. i \in 1 .. k - 1 /\ i \in 0 .. k - 1
        BY <2>2, <3>3
      <4>2. s[i] = step[<< s[i-1], i >>]
        BY <2>1, <4>1 DEF Recursion
      <4> QED BY <2>6, <3>1, <4>1, <4>2
    <3> QED BY <3>2, <3>3
  <2>9. Recursion(t, k, start, step)
    BY <2>7, <2>8 DEF Recursion
  <2> QED BY <2>2, <2>5, <2>9
<1> HIDE DEF K
<1>3. n \in K
  BY <1>1, <1>2, UpTo
<1> QED BY <1>3 DEF K

=============================================================================

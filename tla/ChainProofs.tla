----------------------------- MODULE ChainProofs -----------------------------
(***************************************************************************)
(* The walk of Chain is sound for any certificates, keys and depth: the    *)
(* path it climbs is itself the trust path.                                *)
(***************************************************************************)
EXTENDS Chain, BasicLemmas

\* The certificates climbed so far, each the issuer of the one before.
Climbed(p) ==
    /\ p \in [0 .. rounds -> Certs]
    /\ p[0] = signer /\ p[rounds] = current
    /\ \A i \in 1 .. rounds : /\ p[i] \in Range(all_certs)
                              /\ verify_signed_by_certificate(p[i-1], p[i])

\* Sound is not inductive: it says nothing of a walk that has not ended.  While
\* it walks there is a path up to the current certificate.
IInv == TypeOK /\ (\E p : Climbed(p)) /\ Sound

\* find_issuer returns one of the candidates, and one whose key verifies.
LEMMA IssuerFound ==
    ASSUME NEW cert \in Certs, cert_bag \in Seq(Certs), ca_certs \in Seq(Certs),
           Issuers(cert) # {}
    PROVE  /\ find_issuer(cert) \in Certs
           /\ find_issuer(cert) \in Range(all_certs)
           /\ verify_signed_by_certificate(cert, find_issuer(cert))
<1>1. all_certs \in Seq(Certs)
  BY DEF all_certs
<1>2. Issuers(cert) \in SUBSET Nat /\ Issuers(cert) \subseteq DOMAIN all_certs
  BY <1>1 DEF Issuers
<1>3. \E i \in Issuers(cert) : \A j \in Issuers(cert) : i <= j
  BY <1>2, Least
<1> DEFINE k == CHOOSE i \in Issuers(cert) : \A j \in Issuers(cert) : i <= j
<1>4. k \in Issuers(cert)
  BY <1>3
<1>5. find_issuer(cert) = all_certs[k]
  BY DEF find_issuer
<1>6. k \in DOMAIN all_certs /\ verify_signed_by_certificate(cert, all_certs[k])
  BY <1>4 DEF Issuers
<1> HIDE DEF k
<1> QED BY <1>1, <1>5, <1>6 DEF Range

LEMMA InitInv == Init => IInv
<1> SUFFICES ASSUME Init PROVE IInv
  OBVIOUS
<1>1. cert_bag \in Seq(Certs)
  BY ChainAssumption DEF Init
<1>2. signer \in Certs
  BY <1>1 DEF Init, Range
<1>3. TypeOK
  BY <1>2, ChainAssumption DEF Init, TypeOK
<1>4. Climbed([i \in 0 .. 0 |-> signer])
  BY <1>2 DEF Init, Climbed
<1> QED BY <1>3, <1>4 DEF Init, IInv, Sound

\* A return leaves the path as it is, and the answer "trusted" needs its end
\* among the trusted.
LEMMA ReturnInv ==
    ASSUME IInv, NEW answer \in {"trusted", "untrusted"}, Return(answer),
           answer = "trusted" => rounds < Depth /\ current \in Range(ca_certs)
    PROVE  IInv'
<1> USE DEF Return, arguments
<1>1. TypeOK'
  BY DEF IInv, TypeOK
<1>2. PICK p : Climbed(p)
  BY DEF IInv
<1>3. Climbed(p)'
  BY <1>2 DEF Climbed, all_certs, verify_signed_by_certificate
<1>4. ASSUME answer = "trusted" PROVE Near'
  <2>1. rounds \in 0 .. Depth - 1
    BY <1>4, ChainAssumption DEF IInv, TypeOK
  <2>2. TrustPath(rounds)
    BY <1>2, <1>4 DEF TrustPath, Climbed, all_certs
  <2>3. Near
    BY <2>1, <2>2 DEF Near
  <2> QED BY <2>3 DEF Near, TrustPath, all_certs, verify_signed_by_certificate
<1>5. Sound'
  BY <1>4 DEF Sound
<1> QED BY <1>1, <1>3, <1>5 DEF IInv

\* A climb makes the path one longer.
LEMMA ClimbInv == IInv /\ Climb => IInv'
<1> SUFFICES ASSUME IInv, Climb PROVE IInv'
  OBVIOUS
<1>1. TypeOK /\ rounds \in 0 .. Depth /\ rounds < Depth
  BY DEF IInv, TypeOK, Climb, Climbs, Fresh
<1>2. cert_bag \in Seq(Certs) /\ ca_certs \in Seq(Certs) /\ current \in Certs
  BY ChainAssumption DEF IInv, TypeOK
<1> DEFINE issuer == find_issuer(current)
<1>3. /\ issuer \in Certs /\ issuer \in Range(all_certs)
      /\ verify_signed_by_certificate(current, issuer)
  BY <1>2, IssuerFound DEF Climb
<1>4. /\ current' = issuer /\ rounds' = rounds + 1
      /\ visited' = visited \cup {current}
      /\ UNCHANGED << arguments, verdict >>
  BY DEF Climb
<1> HIDE DEF issuer
<1>5. TypeOK'
  BY <1>1, <1>3, <1>4, ChainAssumption DEF TypeOK, arguments
<1>6. PICK p : Climbed(p)
  BY DEF IInv
<1> DEFINE q == [i \in 0 .. rounds + 1 |-> IF i = rounds + 1 THEN issuer ELSE p[i]]
<1>7. q \in [0 .. rounds + 1 -> Certs] /\ q[0] = signer /\ q[rounds + 1] = issuer
  BY <1>1, <1>3, <1>6 DEF Climbed
<1>8. ASSUME NEW i \in 1 .. rounds + 1
      PROVE  q[i] \in Range(all_certs) /\ verify_signed_by_certificate(q[i-1], q[i])
  <2>1. CASE i = rounds + 1
    <3>1. q[i] = issuer /\ q[i-1] = current
      BY <2>1, <1>1, <1>6 DEF Climbed
    <3> HIDE DEF q
    <3> QED BY <3>1, <1>3
  <2>2. CASE i \in 1 .. rounds
    <3>1. q[i] = p[i] /\ q[i-1] = p[i-1]
      BY <2>2, <1>1
    <3> HIDE DEF q
    <3> QED BY <3>1, <2>2, <1>6 DEF Climbed
  <2> QED BY <2>1, <2>2, <1>1
<1>9. PICK r : r = q
  OBVIOUS
<1> HIDE DEF q
<1>10. Climbed(r)'
  BY <1>4, <1>7, <1>8, <1>9 DEF Climbed, arguments, all_certs, verify_signed_by_certificate
<1>11. verdict' = "walking"
  BY <1>4 DEF Climb, Climbs, Fresh, Walking
<1> QED BY <1>5, <1>10, <1>11 DEF IInv, Sound

LEMMA NextInv == IInv /\ [Next]_vars => IInv'
<1> SUFFICES ASSUME IInv, [Next]_vars PROVE IInv'
  OBVIOUS
<1>1. CASE Exhausted
  BY <1>1, ReturnInv DEF Exhausted
<1>2. CASE Cycle
  BY <1>2, ReturnInv DEF Cycle
<1>3. CASE Trusted
  BY <1>3, ReturnInv DEF Trusted, Fresh, is_cert_in_set
<1>4. CASE Root
  BY <1>4, ReturnInv DEF Root
<1>5. CASE Orphan
  BY <1>5, ReturnInv DEF Orphan
<1>6. CASE Climb
  BY <1>6, ClimbInv
<1>7. CASE UNCHANGED vars
  <2> USE <1>7 DEF vars, arguments
  <2>1. TypeOK'
    BY DEF IInv, TypeOK
  <2>2. \E p : Climbed(p)'
    BY DEF IInv, Climbed, all_certs, verify_signed_by_certificate
  <2>3. Sound'
    BY DEF IInv, Sound, Near, TrustPath, all_certs, verify_signed_by_certificate
  <2> QED BY <2>1, <2>2, <2>3 DEF IInv
<1> QED BY <1>1, <1>2, <1>3, <1>4, <1>5, <1>6, <1>7 DEF Next

\* The walk of any depth over any certificates trusts only a signer from whom a
\* path of issuers shorter than the depth leads to a trusted certificate.
THEOREM ChainSound == Spec => []Sound
<1>1. IInv => Sound
  BY DEF IInv
<1> QED BY <1>1, InitInv, NextInv, PTL DEF Spec

\* Types of the walk's variables, and at most Depth rounds of it.
THEOREM WalkTypeCorrect == Spec => []TypeOK
<1>1. IInv => TypeOK
  BY DEF IInv
<1> QED BY <1>1, InitInv, NextInv, PTL DEF Spec

----------------------------------------------------------------------------
(* Completeness: when no two certificates hold the same key, the walk has no *)
(* choice, and follows the shortest trust path to its end.                   *)

UniqueKeys == \A c, d \in Range(all_certs) : key[c] = key[d] => c = d

IsTrustPath(p, n) ==
    /\ p \in [0 .. n -> Certs]
    /\ p[0] = signer
    /\ \A i \in 1 .. n : /\ p[i] \in Range(all_certs)
                         /\ verify_signed_by_certificate(p[i-1], p[i])
    /\ p[n] \in Range(ca_certs)

Shortest(p, n) ==
    /\ IsTrustPath(p, n)
    /\ \A m \in Nat : \A q : IsTrustPath(q, m) => n <= m

\* What the walk has to do with a trust path: it is on it, and has been nowhere else.
On(p, n) ==
    /\ rounds \in 0 .. n
    /\ current = p[rounds]
    /\ \A c \in visited : \E i \in 0 .. rounds - 1 : c = p[i]

Follows ==
    UniqueKeys => \A n \in 0 .. Depth - 1 : \A p : Shortest(p, n) =>
        verdict # "untrusted" /\ (verdict = "walking" => On(p, n))

CompleteInv == TypeOK /\ signer \in Range(cert_bag) /\ Follows

\* A shortest path does not come to a certificate twice: the round trip could
\* be left out.
LEMMA NoRoundTrip ==
    ASSUME NEW n \in Nat, NEW p, Shortest(p, n), NEW i \in 0 .. n, NEW j \in 0 .. n, i < j
    PROVE  p[i] # p[j]
<1> SUFFICES ASSUME p[i] = p[j] PROVE FALSE
  OBVIOUS
<1>1. IsTrustPath(p, n)
  BY DEF Shortest
<1> DEFINE m == n - (j - i)
           q == [k \in 0 .. m |-> IF k <= i THEN p[k] ELSE p[k + (j - i)]]
<1>2. m \in Nat /\ m < n /\ i <= m
  OBVIOUS
<1>3. q \in [0 .. m -> Certs]
  <2>1. ASSUME NEW k \in 0 .. m PROVE (IF k <= i THEN p[k] ELSE p[k + (j - i)]) \in Certs
    BY <1>1 DEF IsTrustPath
  <2> QED BY <2>1
<1>4. q[0] = signer
  BY <1>1, <1>2 DEF IsTrustPath
<1>5. q[m] = p[n]
  <2>1. CASE m <= i
    BY <2>1, <1>2
  <2>2. CASE ~ (m <= i)
    BY <2>2, <1>2
  <2> QED BY <2>1, <2>2
<1>6. ASSUME NEW k \in 1 .. m
      PROVE  q[k] \in Range(all_certs) /\ verify_signed_by_certificate(q[k-1], q[k])
  <2>1. CASE k <= i
    <3>1. q[k] = p[k] /\ q[k-1] = p[k-1] /\ k \in 1 .. n
      BY <2>1, <1>2
    <3> HIDE DEF q
    <3> QED BY <3>1, <1>1 DEF IsTrustPath
  <2>2. CASE k = i + 1
    <3>1. q[k] = p[j + 1] /\ q[k-1] = p[j] /\ j + 1 \in 1 .. n
      BY <2>2, <1>2
    <3>2. p[j + 1] \in Range(all_certs) /\ verify_signed_by_certificate(p[(j + 1) - 1], p[j + 1])
      BY <3>1, <1>1 DEF IsTrustPath
    <3>3. (j + 1) - 1 = j
      OBVIOUS
    <3> HIDE DEF q
    <3> QED BY <3>1, <3>2, <3>3
  <2>3. CASE k > i + 1
    <3> DEFINE l == k + (j - i)
    <3>1. q[k] = p[l] /\ q[k-1] = p[l-1] /\ l \in 1 .. n
      BY <2>3, <1>2
    <3>2. p[l] \in Range(all_certs) /\ verify_signed_by_certificate(p[l-1], p[l])
      BY <3>1, <1>1 DEF IsTrustPath
    <3> HIDE DEF q, l
    <3> QED BY <3>1, <3>2
  <2> QED BY <2>1, <2>2, <2>3, <1>2
<1>7. PICK r : r = q
  OBVIOUS
<1> HIDE DEF q
<1>8. p[n] \in Range(ca_certs)
  BY <1>1 DEF IsTrustPath
<1>9. IsTrustPath(r, m)
  BY <1>3, <1>4, <1>5, <1>6, <1>7, <1>8 DEF IsTrustPath
<1>10. n <= m
  BY <1>2, <1>9 DEF Shortest
<1> QED BY <1>2, <1>10

\* Where keys are unique, whatever passes for the issuer of a certificate on
\* the path is the next one on it.
LEMMA NextOnPath ==
    ASSUME UniqueKeys, NEW n \in Nat, NEW p, Shortest(p, n), NEW i \in 0 .. n - 1,
           NEW c \in Range(all_certs), verify_signed_by_certificate(p[i], c)
    PROVE  c = p[i+1]
<1>1. i + 1 \in 1 .. n /\ (i + 1) - 1 = i
  OBVIOUS
<1>2. p[i+1] \in Range(all_certs) /\ verify_signed_by_certificate(p[(i+1)-1], p[i+1])
  BY <1>1 DEF Shortest, IsTrustPath
<1>3. verify_signed_by_certificate(p[i], p[i+1])
  BY <1>1, <1>2
<1> QED BY <1>2, <1>3 DEF UniqueKeys, verify_signed_by_certificate

\* The certificates of the walk are among those it searches.
LEMMA PathSearched ==
    ASSUME CompleteInv, NEW n \in Nat, NEW p, Shortest(p, n), NEW i \in 0 .. n
    PROVE  p[i] \in Range(all_certs)
<1>1. cert_bag \in Seq(Certs) /\ ca_certs \in Seq(Certs)
  BY ChainAssumption DEF CompleteInv, TypeOK
<1>2. Range(cert_bag) \subseteq Range(all_certs)
  BY <1>1 DEF Range, all_certs
<1>3. CASE i = 0
  BY <1>2, <1>3 DEF CompleteInv, Shortest, IsTrustPath
<1>4. CASE i \in 1 .. n
  BY <1>4 DEF Shortest, IsTrustPath
<1> QED BY <1>3, <1>4

LEMMA InitComplete == Init => CompleteInv
<1> SUFFICES ASSUME Init PROVE CompleteInv
  OBVIOUS
<1>1. TypeOK /\ signer \in Range(cert_bag)
  BY InitInv DEF IInv, Init
<1>2. ASSUME NEW n \in 0 .. Depth - 1, NEW p, Shortest(p, n) PROVE On(p, n)
  <2>1. p[0] = signer /\ n \in Nat
    BY <1>2 DEF Shortest, IsTrustPath
  <2> QED BY <2>1 DEF Init, On
<1> QED BY <1>1, <1>2 DEF CompleteInv, Follows, Init

\* As long as it walks on a shortest path, the walk does not end in "untrusted",
\* and a climb leads to the next certificate of the path.
LEMMA StaysOn ==
    ASSUME CompleteInv, Next, UniqueKeys, NEW n \in 0 .. Depth - 1, NEW p, Shortest(p, n)
    PROVE  verdict' # "untrusted" /\ (verdict' = "walking" => On(p, n)')
<1>1. n \in Nat /\ n < Depth /\ rounds \in Nat
  BY ChainAssumption DEF CompleteInv, TypeOK
<1>2. Walking => On(p, n)
  BY DEF CompleteInv, Follows, Walking
<1>3. p[n] \in Range(ca_certs)
  BY DEF Shortest, IsTrustPath
<1>4. Walking /\ ~is_cert_in_set(current, ca_certs) => rounds \in 0 .. n - 1
  BY <1>1, <1>2, <1>3 DEF is_cert_in_set, On
<1>5. ~Exhausted
  BY <1>1, <1>2 DEF Exhausted, On
<1>6. ~Cycle
  <2> SUFFICES ASSUME Cycle PROVE FALSE
    OBVIOUS
  <2>1. On(p, n) /\ current \in visited
    BY <1>2 DEF Cycle
  <2>2. PICK i \in 0 .. rounds - 1 : current = p[i]
    BY <2>1 DEF On
  <2>3. i \in 0 .. n /\ rounds \in 0 .. n /\ i < rounds /\ p[i] = p[rounds]
    BY <2>1, <2>2, <1>1 DEF On
  <2> QED BY <2>3, <1>1, NoRoundTrip
<1>7. ~Root
  <2> SUFFICES ASSUME Root PROVE FALSE
    OBVIOUS
  <2>1. On(p, n) /\ rounds \in 0 .. n - 1
    BY <1>2, <1>4 DEF Root, Fresh
  <2>2. current = p[rounds] /\ current \in Range(all_certs)
    BY <2>1, <1>1, PathSearched DEF On
  <2>3. current = p[rounds + 1]
    BY <2>1, <2>2, <1>1, NextOnPath DEF Root
  <2>4. rounds \in 0 .. n /\ rounds + 1 \in 0 .. n /\ rounds < rounds + 1
    BY <2>1, <1>1
  <2>5. p[rounds] # p[rounds + 1]
    BY <2>4, <1>1, NoRoundTrip
  <2> QED BY <2>2, <2>3, <2>5
<1>8. Climbs => /\ rounds \in 0 .. n - 1 /\ current = p[rounds]
                /\ p[rounds + 1] \in Range(all_certs)
                /\ verify_signed_by_certificate(current, p[rounds + 1])
  <2> SUFFICES ASSUME Climbs PROVE /\ rounds \in 0 .. n - 1 /\ current = p[rounds]
                /\ p[rounds + 1] \in Range(all_certs)
                /\ verify_signed_by_certificate(current, p[rounds + 1])
    OBVIOUS
  <2>1. rounds \in 0 .. n - 1 /\ current = p[rounds]
    BY <1>2, <1>4 DEF Climbs, Fresh, On
  <2>2. rounds + 1 \in 1 .. n /\ (rounds + 1) - 1 = rounds
    BY <2>1, <1>1
  <2>3. /\ p[rounds + 1] \in Range(all_certs)
        /\ verify_signed_by_certificate(p[(rounds + 1) - 1], p[rounds + 1])
    BY <2>2 DEF Shortest, IsTrustPath
  <2> QED BY <2>1, <2>2, <2>3
<1>9. ~Orphan
  <2> SUFFICES ASSUME Orphan PROVE FALSE
    OBVIOUS
  <2>1. PICK k \in DOMAIN all_certs : all_certs[k] = p[rounds + 1]
    BY <1>8 DEF Orphan, Range
  <2>2. k \in Issuers(current)
    BY <1>8, <2>1 DEF Orphan, Issuers
  <2> QED BY <2>2 DEF Orphan
<1>10. CASE Trusted
  BY <1>10 DEF Trusted, Return
<1>11. CASE Climb
  <2>1. rounds \in 0 .. n - 1 /\ current = p[rounds]
    BY <1>8, <1>11 DEF Climb
  <2>2. cert_bag \in Seq(Certs) /\ ca_certs \in Seq(Certs) /\ current \in Certs
    BY ChainAssumption DEF CompleteInv, TypeOK
  <2>3. /\ find_issuer(current) \in Range(all_certs)
        /\ verify_signed_by_certificate(current, find_issuer(current))
    BY <1>11, <2>2, IssuerFound DEF Climb
  <2>4. find_issuer(current) = p[rounds + 1]
    BY <2>1, <2>3, <1>1, NextOnPath
  <2>5. /\ current' = p[rounds + 1] /\ rounds' = rounds + 1
        /\ visited' = visited \cup {p[rounds]} /\ verdict' = verdict
    BY <1>11, <2>1, <2>4 DEF Climb
  <2>6. \A c \in visited : \E i \in 0 .. rounds - 1 : c = p[i]
    BY <1>2, <1>11 DEF Climb, Climbs, Fresh, On
  <2>7. \A c \in visited' : \E i \in 0 .. rounds' - 1 : c = p[i]
    BY <2>1, <2>5, <2>6, <1>1
  <2>8. On(p, n)'
    BY <2>1, <2>5, <2>7, <1>1 DEF On
  <2> QED BY <2>5, <2>8, <1>11 DEF Climb, Climbs, Fresh, Walking
<1> QED BY <1>5, <1>6, <1>7, <1>9, <1>10, <1>11 DEF Next

LEMMA NextComplete == CompleteInv /\ TypeOK' /\ [Next]_vars => CompleteInv'
<1> SUFFICES ASSUME CompleteInv, TypeOK', [Next]_vars PROVE CompleteInv'
  OBVIOUS
<1>1. UNCHANGED arguments
  BY DEF Next, Exhausted, Cycle, Trusted, Root, Orphan, Climb, Return, vars
<1>2. signer' \in Range(cert_bag')
  BY <1>1 DEF CompleteInv, arguments
<1>3. ASSUME UniqueKeys', NEW n \in 0 .. Depth - 1, NEW p, Shortest(p, n)'
      PROVE  verdict' # "untrusted" /\ (verdict' = "walking" => On(p, n)')
  <2>1. UniqueKeys
    BY <1>1, <1>3 DEF arguments, UniqueKeys, all_certs
  <2>2. \A q, m : IsTrustPath(q, m)' <=> IsTrustPath(q, m)
    BY <1>1 DEF arguments, IsTrustPath, all_certs, verify_signed_by_certificate
  <2>3. Shortest(p, n)
    BY <1>3, <2>2 DEF Shortest
  <2>4. CASE Next
    BY <2>1, <2>3, <2>4, StaysOn
  <2>5. CASE UNCHANGED vars
    BY <2>1, <2>3, <2>5 DEF CompleteInv, Follows, On, vars
  <2> QED BY <2>4, <2>5
<1> QED BY <1>2, <1>3 DEF CompleteInv, Follows

\* There is a shortest one among the trust paths within the limit.
LEMMA FollowsComplete == CompleteInv => Complete
<1> SUFFICES ASSUME CompleteInv, verdict = "untrusted", UniqueKeys, Near PROVE FALSE
  BY DEF Complete, UniqueKeys, all_certs
<1>1. PICK n \in 0 .. Depth - 1 : TrustPath(n)
  BY DEF Near
<1> DEFINE S == {m \in Nat : TrustPath(m)}
<1>2. n \in S /\ S \in SUBSET Nat
  BY <1>1
<1>3. PICK m \in S : \A l \in S : m <= l
  BY <1>2, Least
<1>4. m \in 0 .. Depth - 1
  BY <1>2, <1>3, ChainAssumption
<1>5. PICK p : IsTrustPath(p, m)
  BY <1>3 DEF TrustPath, IsTrustPath, all_certs
<1>6. ASSUME NEW l \in Nat, NEW q, IsTrustPath(q, l) PROVE m <= l
  <2>1. TrustPath(l)
    BY <1>6 DEF TrustPath, IsTrustPath, all_certs
  <2> QED BY <2>1, <1>3
<1>7. Shortest(p, m)
  BY <1>5, <1>6 DEF Shortest
<1> QED BY <1>4, <1>7 DEF CompleteInv, Follows

\* A walk of any depth over certificates of which no two hold the same key
\* finds every trust path that is shorter than the depth.
THEOREM ChainComplete == Spec => []Complete
<1>1. CompleteInv => TypeOK
  BY DEF CompleteInv
<1> QED BY <1>1, WalkTypeCorrect, InitComplete, NextComplete, FollowsComplete, PTL DEF Spec

=============================================================================

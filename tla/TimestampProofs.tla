-------------------------- MODULE TimestampProofs --------------------------
(***************************************************************************)
(* One call of add_timestamps, for any lists of URLs, any blob, any number *)
(* of attempts and of faults.                                              *)
(***************************************************************************)
EXTENDS Timestamp, BasicLemmas

States == {"start", "rfc3161", "authenticode", "encode", "done", "failed"}

\* The signers with some stamps more on the first of them.
With(signers, added) == [signers EXCEPT ![1].unsigned = @ \o added]

\* How many stamps the call has made by now.
One(urls) == IF urls # << >> THEN 1 ELSE 0
Due == IF pc \in {"start", "rfc3161"} \/ ~Asked THEN 0
       ELSE IF pc = "authenticode" THEN One(rfc3161_urls)
       ELSE One(rfc3161_urls) + One(authenticode_urls)

Fits(attr) ==
    /\ attr.token \in issued
    /\ attr.token.covers = input.signers[1].signature
    /\ attr.token.at \in Entries /\ tries[attr.token.at] = attr.token.nth
    /\ attr.typ = "PKCS9_COUNTER_SIGNATURE" => attr.token.content # "tst_info"

\* Every stamp so far is of a loop that is over: its entry is not asked again.
Past(attr) == Requesting => attr.token.at[1] # pc

Stamping ==
    input.signers # << >> /\ pc # "failed" =>
        \E added : /\ IsSequence(added) /\ Len(added) = Due
                   /\ signed_data.signers = With(input.signers, added)
                   /\ \A k \in DOMAIN added : Fits(added[k]) /\ Past(added[k])

Control ==
    /\ IsSignedData(input) /\ IsSequence(rfc3161_urls) /\ IsSequence(authenticode_urls)
    /\ pc \in States
    /\ pc \notin {"start", "failed"} /\ Asked => input.signers # << >>
    /\ Requesting => /\ Asked /\ url \in DOMAIN Urls(pc)
                     /\ attempt \in 1 .. Attempts(pc)
    /\ pc = "start" => url = 1 /\ attempt = 1
    /\ pc = "encode" => Asked
    /\ resets \in 0 .. Resets /\ refusals \in 0 .. Refusals

Data ==
    /\ signed_data = [content |-> signed_data.content, signers |-> signed_data.signers,
                      certs |-> signed_data.certs]
    /\ signed_data.content \in {"native", "wrapped"}
    /\ pc = "start" => signed_data = input
    /\ result = IF pc = "done" THEN signed_data ELSE None
    /\ pc = "done" /\ Asked => signed_data.content = "native"

Wire ==
    /\ wire \in {Idle, Sent, Error} \/ (wire = Answer(wire.token) /\ wire.token \in issued)
    /\ pc \in {"start", "encode", "done"} => wire = Idle
    /\ Requesting /\ HasAnswer =>
          /\ wire.token.at = entry /\ wire.token.nth = tries[entry]
          /\ wire.token.covers = input.signers[1].signature

\* How often the entries of the list that a loop is at were asked.
Counted(e) ==
    tries[e] = IF e[2] < url THEN Attempts(pc)
               ELSE IF e[2] > url THEN 0
               ELSE IF wire = Idle THEN attempt - 1 ELSE attempt

Counts ==
    /\ tries \in [Entries -> 0 .. TIMESTAMP_ATTEMPTS]
    /\ pc = "start" => \A e \in Entries : tries[e] = 0
    /\ pc = "rfc3161" => \A e \in Entries : e[1] = "authenticode" => tries[e] = 0
    /\ Requesting => \A e \in Entries : e[1] = pc => Counted(e)

InOrder ==
    \A d, e \in Entries :
        d[1] = e[1] /\ d[2] < e[2] /\ tries[e] > 0 => tries[d] = Attempts(d[1])

IInv == Control /\ Data /\ Stamping /\ Wire /\ Counts /\ InOrder /\ Rfc3161Survives

----------------------------------------------------------------------------
(* Signers and stamps *)

LEMMA FirstSigner ==
    ASSUME IsSignedData(input), input.signers # << >>
    PROVE  /\ 1 \in DOMAIN input.signers /\ IsSequence(input.signers)
           /\ input.signers[1] = [signature |-> input.signers[1].signature,
                                  unsigned |-> input.signers[1].unsigned]
           /\ IsSequence(input.signers[1].unsigned)
<1>1. 1 \in DOMAIN input.signers
  BY DEF IsSignedData, IsSequence
<1> QED BY <1>1 DEF IsSignedData

LEMMA Appended ==
    ASSUME NEW s, IsSequence(s), NEW a
    PROVE  /\ IsSequence(Append(s, a)) /\ Len(Append(s, a)) = Len(s) + 1
           /\ \A k \in DOMAIN Append(s, a) :
                 Append(s, a)[k] = a \/ (k \in DOMAIN s /\ Append(s, a)[k] = s[k])
<1> DEFINE S == SeqRange(s) \cup {a}
<1>1. s \in Seq(S) /\ a \in S
  BY DEF IsSequence, SeqRange
<1> HIDE DEF S
<1> DEFINE t == Append(s, a)
<1>2. t \in Seq(S) /\ Len(t) = Len(s) + 1
  BY <1>1
<1>3. \A k \in DOMAIN t : t[k] = a \/ (k \in DOMAIN s /\ t[k] = s[k])
  BY <1>1
<1> HIDE DEF t
<1>4. t \in Seq(SeqRange(t))
  BY <1>2 DEF SeqRange
<1> QED BY <1>2, <1>3, <1>4 DEF t, IsSequence

\* Joining is associative, as far as it is needed here.
LEMMA JoinedAppended ==
    ASSUME NEW s, IsSequence(s), NEW t, IsSequence(t), NEW a
    PROVE  Append(s \o t, a) = s \o Append(t, a)
<1> DEFINE S == SeqRange(s) \cup SeqRange(t) \cup {a}
<1>1. s \in Seq(S) /\ t \in Seq(S) /\ a \in S
  BY DEF IsSequence, SeqRange
<1> HIDE DEF S
<1> QED BY <1>1

LEMMA StartsWithNone ==
    ASSUME IsSignedData(input), input.signers # << >>
    PROVE  input.signers = With(input.signers, << >>)
<1> DEFINE u == input.signers[1].unsigned
<1>1. u = u \o << >>
  BY FirstSigner DEF IsSequence
<1>2. [input.signers[1] EXCEPT !.unsigned = u] = input.signers[1]
  BY FirstSigner
<1>3. [input.signers EXCEPT ![1] = input.signers[1]] = input.signers
  BY FirstSigner DEF IsSequence
<1> QED BY <1>1, <1>2, <1>3 DEF With

LEMMA PushedWith ==
    ASSUME IsSignedData(input), input.signers # << >>, NEW added, IsSequence(added), NEW attr,
           NEW sd, sd = [content |-> sd.content, signers |-> sd.signers, certs |-> sd.certs],
           sd.signers = With(input.signers, added)
    PROVE  LET p == Pushed(sd, attr)
           IN  /\ p.signers = With(input.signers, Append(added, attr))
               /\ p = [content |-> p.content, signers |-> p.signers, certs |-> p.certs]
               /\ p.content = sd.content
<1> DEFINE ss == input.signers
           u  == ss[1].unsigned
           p  == Pushed(sd, attr)
<1>1. /\ 1 \in DOMAIN ss /\ IsSequence(u)
      /\ ss[1] = [signature |-> ss[1].signature, unsigned |-> u]
  BY FirstSigner
<1>2. sd.signers = [ss EXCEPT ![1] = [ss[1] EXCEPT !.unsigned = u \o added]]
  BY DEF With
<1>3. sd.signers[1].unsigned = u \o added
  BY <1>1, <1>2
<1>4. /\ p.signers = [sd.signers EXCEPT ![1] =
                         [sd.signers[1] EXCEPT !.unsigned = Append(u \o added, attr)]]
      /\ p.content = sd.content
      /\ p = [content |-> p.content, signers |-> p.signers, certs |-> p.certs]
  <2> DEFINE new == [sd.signers EXCEPT ![1] =
                        [sd.signers[1] EXCEPT !.unsigned = Append(u \o added, attr)]]
  <2>1. p = [sd EXCEPT !.signers = new]
    BY <1>3 DEF Pushed
  <2> HIDE DEF new, p
  <2>2. p = [content |-> sd.content, signers |-> new, certs |-> sd.certs]
    BY <2>1
  <2>3. p.signers = new /\ p.content = sd.content /\ p.certs = sd.certs
    BY <2>2
  <2> QED BY <2>2, <2>3 DEF new
<1>5. [sd.signers[1] EXCEPT !.unsigned = Append(u \o added, attr)]
          = [ss[1] EXCEPT !.unsigned = Append(u \o added, attr)]
  BY <1>1, <1>2
<1>6. p.signers = [ss EXCEPT ![1] = [ss[1] EXCEPT !.unsigned = Append(u \o added, attr)]]
  <2> DEFINE r == [ss[1] EXCEPT !.unsigned = Append(u \o added, attr)]
  <2>1. p.signers = [sd.signers EXCEPT ![1] = r]
    BY <1>4, <1>5
  <2> HIDE DEF r, p
  <2>2. [sd.signers EXCEPT ![1] = r] = [ss EXCEPT ![1] = r]
    BY <1>1, <1>2
  <2> QED BY <2>1, <2>2 DEF r
<1>7. Append(u \o added, attr) = u \o Append(added, attr)
  <2> HIDE DEF u
  <2> QED BY <1>1, JoinedAppended
<1> QED BY <1>4, <1>6, <1>7 DEF With

LEMMA SignatureKept ==
    ASSUME IsSignedData(input), input.signers # << >>, NEW added,
           signed_data.signers = With(input.signers, added)
    PROVE  signature_bytes = input.signers[1].signature
<1>1. /\ 1 \in DOMAIN input.signers
      /\ input.signers[1] = [signature |-> input.signers[1].signature,
                             unsigned |-> input.signers[1].unsigned]
  BY FirstSigner
<1> QED BY <1>1 DEF With, signature_bytes

\* What a call has added can be read off its result.
LEMMA AddedIs ==
    ASSUME IsSignedData(input), input.signers # << >>, NEW added, IsSequence(added),
           NEW sd, sd.signers = With(input.signers, added)
    PROVE  Added(sd) = added
<1> DEFINE u == input.signers[1].unsigned
           S == SeqRange(u) \cup SeqRange(added)
<1>1. /\ 1 \in DOMAIN input.signers /\ IsSequence(u)
      /\ input.signers[1] = [signature |-> input.signers[1].signature, unsigned |-> u]
  BY FirstSigner
<1>2. sd.signers[1].unsigned = u \o added
  BY <1>1 DEF With
<1>3. u \in Seq(S) /\ added \in Seq(S)
  BY <1>1 DEF IsSequence, SeqRange
<1>4. Added(sd) = SubSeq(u \o added, Len(u) + 1, Len(u \o added))
  BY <1>2 DEF Added
<1> HIDE DEF u, S
<1>5. SubSeq(u \o added, Len(u) + 1, Len(u \o added)) = added
  BY <1>3
<1> QED BY <1>4, <1>5

----------------------------------------------------------------------------
(* Requests *)

LEMMA WireKinds ==
    /\ Idle.is = "idle" /\ Sent.is = "sent" /\ Error.is = "error"
    /\ Idle # Sent /\ Idle # Error /\ Sent # Error
    /\ \A t : /\ Answer(t).is = "answer" /\ Answer(t).token = t
              /\ Answer(t) # Idle /\ Answer(t) # Sent /\ Answer(t) # Error
BY DEF Idle, Sent, Error, Answer

LEMMA Frame ==
    ASSUME UNCHANGED args
    PROVE  /\ Entries' = Entries /\ Asked' = Asked /\ \A l : Urls(l)' = Urls(l)
           /\ rfc3161_urls' = rfc3161_urls /\ authenticode_urls' = authenticode_urls
           /\ input' = input
BY DEF args, Entries, Asked, Urls

LEMMA EntryIsOne ==
    ASSUME Control, Requesting
    PROVE  /\ entry \in Entries /\ entry[1] = pc /\ entry[2] = url
           /\ url \in Nat /\ Attempts(pc) \in Nat /\ attempt \in Nat
           /\ Attempts(pc) <= TIMESTAMP_ATTEMPTS
           /\ \A e \in Entries : e[2] \in Nat /\ e = << e[1], e[2] >>
<1>1. url \in DOMAIN Urls(pc) /\ pc \in {"rfc3161", "authenticode"}
  BY DEF Control, Requesting
<1>2. DOMAIN rfc3161_urls \subseteq Nat /\ DOMAIN authenticode_urls \subseteq Nat
  BY DEF Control, IsSequence
<1>3. entry \in Entries /\ url \in Nat
  BY <1>1, <1>2 DEF entry, Entries, Urls
<1>4. Attempts(pc) \in Nat /\ attempt \in Nat /\ Attempts(pc) <= TIMESTAMP_ATTEMPTS
  BY TimestampAssumption DEF Control, Attempts
<1>5. \A e \in Entries : e[2] \in Nat /\ e = << e[1], e[2] >>
  BY <1>2 DEF Entries
<1> QED BY <1>3, <1>4, <1>5 DEF entry

\* A step within a loop: the request, the answer, the next attempt.
LEMMA LoopStep ==
    ASSUME IInv, Requesting, UNCHANGED << args, pc, signed_data, result >>,
           issued \subseteq issued',
           resets' \in 0 .. Resets, refusals' \in 0 .. Refusals,
           url' \in DOMAIN Urls(pc), attempt' \in 1 .. Attempts(pc), Wire',
           tries' \in [Entries -> 0 .. TIMESTAMP_ATTEMPTS],
           \A e \in Entries : e # entry => tries'[e] = tries[e],
           \A e \in Entries : e[1] = pc => Counted(e)'
    PROVE  IInv'
<1> USE Frame
<1>1. Control'
  BY DEF IInv, Control, Requesting, Attempts, Urls
<1>2. Data'
  BY DEF IInv, Data
<1>3. ASSUME NEW added, IsSequence(added), Len(added) = Due,
             signed_data.signers = With(input.signers, added),
             NEW k \in DOMAIN added, Fits(added[k]), Past(added[k])
      PROVE  Fits(added[k])' /\ Past(added[k])'
  <2>1. added[k].token.at # entry /\ added[k].token.at \in Entries
    BY <1>3 DEF Past, Fits, entry
  <2>2. tries'[added[k].token.at] = added[k].token.nth
    BY <1>3, <2>1 DEF Fits
  <2>3. Fits(added[k])'
    BY <1>3, <2>1, <2>2 DEF Fits
  <2> QED BY <1>3, <2>3 DEF Past, Requesting
<1>4. Due' = Due
  BY DEF Due, One
<1>5. Stamping'
  <2> SUFFICES ASSUME input.signers # << >>, pc # "failed" PROVE Stamping'
    BY DEF Stamping
  <2>1. PICK added : /\ IsSequence(added) /\ Len(added) = Due
                     /\ signed_data.signers = With(input.signers, added)
                     /\ \A k \in DOMAIN added : Fits(added[k]) /\ Past(added[k])
    BY DEF IInv, Stamping
  <2>2. \A k \in DOMAIN added : Fits(added[k])' /\ Past(added[k])'
    BY <1>3, <2>1
  <2>3. With(input.signers, added)' = With(input.signers, added)
    BY DEF With
  <2> QED BY <1>4, <2>1, <2>2, <2>3 DEF Stamping
<1>6. Counts'
  <2>1. pc = "rfc3161" => \A e \in Entries : e[1] = "authenticode" => tries'[e] = 0
    BY DEF IInv, Counts, entry
  <2> QED BY <2>1 DEF Counts, Requesting
<1>7. InOrder'
  <2> SUFFICES ASSUME NEW d \in Entries, NEW e \in Entries,
                      d[1] = e[1], d[2] < e[2], tries'[e] > 0
               PROVE  tries'[d] = Attempts(d[1])
    BY DEF InOrder, Attempts
  <2>1. CASE d[1] = pc
    <3>1. Counted(d)' /\ Counted(e)'
      BY <2>1
    <3>2. IsSequence(Urls(pc))
      BY DEF IInv, Control, Urls
    <3>3. url' \in Nat /\ d[2] \in Nat /\ e[2] \in Nat
      BY <3>2, EntryIsOne DEF IInv, IsSequence
    <3>4. ASSUME e[2] > url' PROVE FALSE
      <4>1. tries'[e] = 0
        BY <3>1, <3>3, <3>4 DEF Counted
      <4> QED BY <4>1
    <3>5. d[2] < url'
      BY <3>3, <3>4
    <3>6. tries'[d] = Attempts(pc)'
      BY <3>1, <3>5 DEF Counted
    <3> QED BY <2>1, <3>6 DEF Attempts
  <2>2. CASE d[1] # pc
    BY <2>2 DEF IInv, InOrder, entry
  <2> QED BY <2>1, <2>2
<1>8. Rfc3161Survives'
  BY DEF Requesting, Rfc3161Survives
<1> QED BY <1>1, <1>2, <1>5, <1>6, <1>7, <1>8 DEF IInv

LEMMA SendInv == ASSUME IInv, Send PROVE IInv'
<1>1. /\ Requesting /\ wire = Idle /\ wire' = Sent /\ tries' = [tries EXCEPT ![entry] = @ + 1]
      /\ UNCHANGED << pc, signed_data, url, attempt, result, resets, refusals, issued, args >>
  BY DEF Send
<1>2. /\ entry \in Entries /\ entry[1] = pc /\ entry[2] = url /\ url \in Nat
      /\ attempt \in 1 .. Attempts(pc) /\ Attempts(pc) \in Nat
      /\ Attempts(pc) <= TIMESTAMP_ATTEMPTS
      /\ \A e \in Entries : e[2] \in Nat /\ e = << e[1], e[2] >>
  BY <1>1, EntryIsOne DEF IInv, Control
<1>3. tries \in [Entries -> 0 .. TIMESTAMP_ATTEMPTS] /\ Counted(entry)
  BY <1>1, <1>2 DEF IInv, Counts
<1>4. tries[entry] = attempt - 1
  BY <1>1, <1>2, <1>3 DEF Counted
<1>5. /\ tries' \in [Entries -> 0 .. TIMESTAMP_ATTEMPTS] /\ tries'[entry] = attempt
      /\ \A e \in Entries : e # entry => tries'[e] = tries[e]
  BY <1>1, <1>2, <1>3, <1>4, TimestampAssumption
<1>6. ASSUME NEW e \in Entries, e[1] = pc PROVE Counted(e)'
  <2>1. Counted(e)
    BY <1>1, <1>6 DEF IInv, Counts
  <2>2. CASE e = entry
    BY <1>1, <1>2, <1>5, <2>2, WireKinds DEF Counted
  <2>3. CASE e # entry
    <3>1. e[2] # url
      BY <1>2, <1>6, <2>3 DEF entry
    <3> QED BY <1>1, <1>2, <1>5, <2>1, <2>3, <3>1 DEF Counted, Attempts
  <2> QED BY <2>2, <2>3
<1>7. Wire'
  BY <1>1, WireKinds DEF Wire, Requesting, HasAnswer
<1>8. resets \in 0 .. Resets /\ refusals \in 0 .. Refusals /\ url \in DOMAIN Urls(pc)
  BY <1>1 DEF IInv, Control
<1> QED BY <1>1, <1>2, <1>5, <1>6, <1>7, <1>8, LoopStep

\* The wire changes and no request is sent or repeated.
LEMMA WireStep ==
    ASSUME IInv, Requesting, wire # Idle, wire' # Idle, Wire',
           UNCHANGED << args, pc, signed_data, url, attempt, result, tries >>,
           issued \subseteq issued', resets' \in 0 .. Resets, refusals' \in 0 .. Refusals
    PROVE  IInv'
<1>1. ASSUME NEW e \in Entries, e[1] = pc PROVE Counted(e)'
  <2>1. Counted(e)
    BY <1>1 DEF IInv, Counts
  <2> QED BY <2>1 DEF Counted, Attempts
<1>2. /\ url \in DOMAIN Urls(pc) /\ attempt \in 1 .. Attempts(pc)
      /\ tries \in [Entries -> 0 .. TIMESTAMP_ATTEMPTS]
  BY DEF IInv, Control, Counts
<1> QED BY <1>1, <1>2, LoopStep

\* Only a call that failed has a request left when no loop runs.
LEMMA OnTheWire ==
    ASSUME IInv, wire # Idle, pc # "failed"
    PROVE  Requesting
BY DEF IInv, Control, Wire, States, Requesting

\* A call that has failed claims nothing of its blob or its wire.
LEMMA FailedStep ==
    ASSUME IInv, pc' = "failed", UNCHANGED << args, signed_data, tries >>,
           result' = None, Rfc3161Survives',
           resets' \in 0 .. Resets, refusals' \in 0 .. Refusals,
           wire' \in {Idle, Sent, Error} \/ (wire' = Answer(wire'.token) /\ wire'.token \in issued')
    PROVE  IInv'
<1> USE Frame
<1>1. Control'
  BY DEF IInv, Control, Requesting, States
<1>2. Data' /\ Stamping' /\ Wire'
  BY DEF IInv, Data, Stamping, Wire, Requesting
<1>3. Counts' /\ InOrder'
  BY DEF IInv, Counts, InOrder, Requesting, Attempts
<1> QED BY <1>1, <1>2, <1>3 DEF IInv

\* What the TSA does once the call has failed is of no consequence, if anything.
LEMMA TsaAfterFailure ==
    ASSUME IInv, Tsa, pc = "failed"
    PROVE  IInv'
<1>1. /\ pc' = "failed" /\ UNCHANGED << args, signed_data, tries, result >>
      /\ result = None
  BY DEF Tsa, Grant, Reset, Refuse, IInv, Data
<1>2. resets' \in 0 .. Resets /\ refusals' \in 0 .. Refusals
  BY TimestampAssumption DEF Tsa, Grant, Reset, Refuse, IInv, Control
<1>3. wire' \in {Idle, Sent, Error} \/ (wire' = Answer(wire'.token) /\ wire'.token \in issued')
  BY WireKinds DEF Tsa, Grant, Reset, Refuse
<1>4. Rfc3161Survives'
  BY <1>1, Frame DEF IInv, Rfc3161Survives
<1> QED BY <1>1, <1>2, <1>3, <1>4, FailedStep

LEMMA SignatureSent ==
    ASSUME IInv, Requesting
    PROVE  signature_bytes = input.signers[1].signature
<1>1. IsSignedData(input) /\ input.signers # << >>
  BY DEF IInv, Control, Requesting
<1>2. PICK added : signed_data.signers = With(input.signers, added)
  BY <1>1 DEF IInv, Stamping, Requesting
<1> QED BY <1>1, <1>2, SignatureKept

LEMMA TsaInv == ASSUME IInv, Tsa PROVE IInv'
<1>1. wire = Sent
  BY DEF Tsa, Grant, Reset, Refuse
<1>2. CASE pc = "failed"
  BY <1>2, TsaAfterFailure
<1>3. CASE pc # "failed"
  <2>1. Requesting /\ wire # Idle
    BY <1>1, <1>3, OnTheWire, WireKinds
  <2>2. UNCHANGED << args, pc, signed_data, url, attempt, result, tries >>
    BY DEF Tsa, Grant, Reset, Refuse
  <2>3. /\ resets' \in 0 .. Resets /\ refusals' \in 0 .. Refusals
        /\ issued \subseteq issued'
    BY TimestampAssumption DEF Tsa, Grant, Reset, Refuse, IInv, Control
  <2>4. wire' # Idle /\ Wire'
    <3>1. CASE Grant
      <4>1. PICK t \in Tokens : wire' = Answer(t) /\ issued' = issued \cup {t}
        BY <3>1 DEF Grant
      <4>2. t.at = entry /\ t.nth = tries[entry] /\ t.covers = input.signers[1].signature
        <5>1. t.at = entry /\ t.nth = tries[entry] /\ t.covers = signature_bytes
          BY <4>1 DEF Tokens
        <5> QED BY <5>1, <2>1, SignatureSent
      <4>3. wire'.token = t /\ wire' # Idle
        BY <4>1, WireKinds
      <4>4. entry' = entry /\ tries' = tries /\ input' = input /\ pc' = pc
        BY <2>2 DEF entry, args
      <4> QED BY <2>1, <4>1, <4>2, <4>3, <4>4 DEF Wire, Requesting
    <3>2. CASE Reset \/ Refuse
      <4>1. wire' = Error
        BY <3>2 DEF Reset, Refuse
      <4> QED BY <2>1, <2>2, <4>1, WireKinds DEF Wire, Requesting, HasAnswer
    <3> QED BY <3>1, <3>2 DEF Tsa
  <2> QED BY <2>1, <2>2, <2>3, <2>4, WireStep
<1> QED BY <1>2, <1>3

LEMMA RetryInv == ASSUME IInv, Retry PROVE IInv'
<1>1. /\ Requesting /\ wire = Error /\ attempt < Attempts(pc) /\ attempt' = attempt + 1
      /\ wire' = Idle
      /\ UNCHANGED << pc, signed_data, url, result, resets, refusals, tries, issued, args >>
  BY DEF Retry
<1>2. /\ url \in DOMAIN Urls(pc) /\ attempt \in 1 .. Attempts(pc)
      /\ tries \in [Entries -> 0 .. TIMESTAMP_ATTEMPTS] /\ Attempts(pc) \in Nat
      /\ resets \in 0 .. Resets /\ refusals \in 0 .. Refusals
  BY <1>1, EntryIsOne DEF IInv, Control, Counts
<1>3. attempt' \in 1 .. Attempts(pc)
  BY <1>1, <1>2
<1>4. ASSUME NEW e \in Entries, e[1] = pc PROVE Counted(e)'
  <2>1. Counted(e)
    BY <1>1, <1>4 DEF IInv, Counts
  <2>2. attempt' - 1 = attempt
    BY <1>1, <1>2
  <2> QED BY <1>1, <2>1, <2>2, WireKinds DEF Counted, Attempts
<1>5. Wire'
  BY <1>1, WireKinds DEF Wire, Requesting, HasAnswer
<1> QED BY <1>1, <1>2, <1>3, <1>4, <1>5, LoopStep

LEMMA NextUrlInv == ASSUME IInv, NextUrl PROVE IInv'
<1>1. /\ Requesting /\ wire = Error /\ attempt = Attempts(pc) /\ url < Len(Urls(pc))
      /\ url' = url + 1 /\ attempt' = 1 /\ wire' = Idle
      /\ UNCHANGED << pc, signed_data, result, resets, refusals, tries, issued, args >>
  BY DEF NextUrl
<1>2. IsSequence(Urls(pc)) /\ url \in DOMAIN Urls(pc)
  BY <1>1 DEF IInv, Control, Urls
<1>3. url' \in DOMAIN Urls(pc) /\ url \in Nat
  BY <1>1, <1>2 DEF IsSequence
<1>4. /\ tries \in [Entries -> 0 .. TIMESTAMP_ATTEMPTS] /\ attempt' \in 1 .. Attempts(pc)
      /\ resets \in 0 .. Resets /\ refusals \in 0 .. Refusals
      /\ \A e \in Entries : e[2] \in Nat
  BY <1>1, EntryIsOne DEF IInv, Control, Counts
<1>5. ASSUME NEW e \in Entries, e[1] = pc PROVE Counted(e)'
  <2>1. Counted(e)
    BY <1>1, <1>5 DEF IInv, Counts
  <2>2. CASE e[2] < url
    BY <1>1, <1>3, <1>4, <2>1, <2>2 DEF Counted, Attempts
  <2>3. CASE e[2] = url
    BY <1>1, <1>3, <1>4, <2>1, <2>3, WireKinds DEF Counted, Attempts
  <2>4. CASE e[2] > url
    <3>1. tries[e] = 0 /\ ~ (e[2] < url')
      BY <1>1, <1>3, <1>4, <2>1, <2>4 DEF Counted
    <3> QED BY <1>1, <3>1 DEF Counted
  <2> QED BY <1>3, <1>4, <2>2, <2>3, <2>4
<1>6. Wire'
  BY <1>1, WireKinds DEF Wire, Requesting, HasAnswer
<1> QED BY <1>1, <1>3, <1>4, <1>5, <1>6, LoopStep

\* The last URL has failed for the last time.
LEMMA GiveUpInv == ASSUME IInv, GiveUp PROVE IInv'
<1>1. /\ Requesting /\ wire = Error /\ attempt = Attempts(pc) /\ url = Len(Urls(pc))
      /\ pc' = "failed"
      /\ UNCHANGED << signed_data, url, attempt, wire, result, resets, refusals, tries,
                      issued, args >>
  BY DEF GiveUp
<1>2. /\ entry \in Entries /\ entry[1] = pc /\ entry[2] = url /\ Attempts(pc) \in Nat \ {0}
  BY <1>1, EntryIsOne, TimestampAssumption DEF IInv, Attempts
<1>3. ASSUME NEW e \in Entries, e[1] = pc PROVE tries[e] = Attempts(pc)
  <2>1. Counted(e)
    BY <1>1, <1>3 DEF IInv, Counts
  <2>2. IsSequence(Urls(pc)) /\ e[2] \in DOMAIN Urls(pc)
    BY <1>1, <1>3 DEF IInv, Control, Urls, Entries, Requesting
  <2>3. e[2] \in Nat /\ url \in Nat /\ e[2] <= url
    BY <1>1, <2>2 DEF IsSequence
  <2> QED BY <1>1, <2>1, <2>3, WireKinds DEF Counted
<1>4. Rfc3161Survives'
  <2>1. CASE pc = "rfc3161"
    BY <1>1, <1>3, <2>1, Frame DEF Rfc3161Survives, Attempts
  <2>2. CASE pc = "authenticode"
    <3>1. tries[entry] > 0 /\ entry[1] = "authenticode"
      BY <1>2, <1>3, <2>2
    <3> QED BY <1>1, <1>2, <3>1, Frame DEF Rfc3161Survives
  <2> QED BY <1>1, <2>1, <2>2 DEF Requesting
<1>5. /\ resets \in 0 .. Resets /\ refusals \in 0 .. Refusals /\ result = None
  BY <1>1 DEF IInv, Control, Data, Requesting
<1> QED BY <1>1, <1>4, <1>5, FailedStep

LEMMA AttachNothingInv == ASSUME IInv, AttachNothing PROVE IInv'
<1>1. /\ pc = "authenticode" /\ HasAnswer /\ pc' = "failed"
      /\ UNCHANGED << signed_data, url, attempt, wire, result, resets, refusals, tries,
                      issued, args >>
  BY DEF AttachNothing
<1>2. Requesting /\ wire # Idle
  BY <1>1, WireKinds DEF Requesting, HasAnswer
<1>3. /\ entry \in Entries /\ entry[1] = pc /\ entry[2] = url /\ url \in Nat
      /\ attempt \in 1 .. Attempts(pc)
  BY <1>2, EntryIsOne DEF IInv, Control
<1>4. tries[entry] > 0
  <2>1. Counted(entry)
    BY <1>2, <1>3 DEF IInv, Counts
  <2> QED BY <1>2, <1>3, <2>1 DEF Counted
<1>5. Rfc3161Survives'
  BY <1>1, <1>3, <1>4, Frame DEF Rfc3161Survives
<1>6. /\ resets \in 0 .. Resets /\ refusals \in 0 .. Refusals /\ result = None
      /\ wire \in {Idle, Sent, Error} \/ (wire = Answer(wire.token) /\ wire.token \in issued)
  BY <1>1 DEF IInv, Control, Data, Wire
<1> QED BY <1>1, <1>5, <1>6, FailedStep

----------------------------------------------------------------------------
(* Stamping *)

\* A loop that got its answer: the blob has one stamp more, and the entries of
\* the loop's list are done with.
LEMMA AttachStep ==
    ASSUME IInv, Requesting, HasAnswer, NEW attr,
           attr.token = wire.token,
           attr.typ = "PKCS9_COUNTER_SIGNATURE" => attr.token.content # "tst_info",
           UNCHANGED << args, result, resets, refusals, tries, issued >>,
           signed_data' = [content |-> signed_data'.content, signers |-> signed_data'.signers,
                           certs |-> signed_data'.certs],
           signed_data'.content = signed_data.content,
           \A added : IsSequence(added) /\ signed_data.signers = With(input.signers, added) =>
               signed_data'.signers = With(input.signers, Append(added, attr)),
           wire' = Idle,
           \/ pc' = "encode"
           \/ pc = "rfc3161" /\ pc' = "authenticode" /\ authenticode_urls # << >>
              /\ url' = 1 /\ attempt' = 1,
           pc = "rfc3161" /\ pc' = "encode" => authenticode_urls = << >>
    PROVE  IInv'
<1> USE Frame
<1>1. /\ Asked /\ input.signers # << >> /\ pc \in {"rfc3161", "authenticode"}
      /\ IsSequence(rfc3161_urls) /\ IsSequence(authenticode_urls)
  BY DEF IInv, Control, Requesting
<1>2. Control'
  <2>1. pc' = "authenticode" =>
           url' \in DOMAIN authenticode_urls /\ attempt' \in 1 .. 1
    BY <1>1 DEF IsSequence
  <2> QED BY <1>1, <2>1 DEF IInv, Control, Requesting, States, Urls, Attempts, Asked
<1>3. Data'
  BY <1>1 DEF IInv, Data
<1>4. Wire'
  BY WireKinds DEF Wire, HasAnswer
<1>5. Stamping'
  <2>1. PICK added : /\ IsSequence(added) /\ Len(added) = Due
                     /\ signed_data.signers = With(input.signers, added)
                     /\ \A k \in DOMAIN added : Fits(added[k]) /\ Past(added[k])
    BY <1>1 DEF IInv, Stamping
  <2> DEFINE more == Append(added, attr)
  <2>2. /\ IsSequence(more) /\ Len(more) = Len(added) + 1
        /\ \A k \in DOMAIN more :
              more[k] = attr \/ (k \in DOMAIN added /\ more[k] = added[k])
    BY <2>1, Appended
  <2>3. signed_data'.signers = With(input.signers, more)
    BY <2>1
  <2>4. Due' = Due + 1
    <3>1. CASE pc = "rfc3161"
      <4>1. rfc3161_urls # << >>
        BY <1>1, <3>1 DEF IInv, Control, Requesting, Urls
      <4> QED BY <1>1, <3>1, <4>1 DEF Due, One
    <3>2. CASE pc = "authenticode"
      <4>1. authenticode_urls # << >>
        BY <1>1, <3>2 DEF IInv, Control, Requesting, Urls
      <4> QED BY <1>1, <3>2, <4>1 DEF Due, One
    <3> QED BY <1>1, <3>1, <3>2
  <2>5. Fits(attr)' /\ Past(attr)'
    <3>1. /\ wire.token.at = entry /\ wire.token.nth = tries[entry]
          /\ wire.token.covers = input.signers[1].signature /\ wire.token \in issued
      BY WireKinds DEF IInv, Wire, HasAnswer
    <3>2. entry \in Entries /\ entry[1] = pc
      BY EntryIsOne DEF IInv
    <3>3. Fits(attr)'
      BY <3>1, <3>2 DEF Fits
    <3>4. Past(attr)'
      BY <1>1, <3>1, <3>2 DEF Past, Requesting
    <3> QED BY <3>3, <3>4
  <2>6. ASSUME NEW k \in DOMAIN added PROVE Fits(added[k])' /\ Past(added[k])'
    <3>1. Fits(added[k]) /\ Past(added[k])
      BY <2>1, <2>6
    <3>2. Fits(added[k])'
      BY <3>1 DEF Fits
    <3>3. Past(added[k])'
      <4>1. pc' = "authenticode" => added[k].token.at[1] # "authenticode"
        <5>1. SUFFICES ASSUME pc = "rfc3161", added[k].token.at[1] = "authenticode",
                              pc' = "authenticode"
                       PROVE FALSE
          BY <1>1
        <5>2. added[k].token.at \in Entries /\ Len(added) = 0
          BY <2>1, <3>1, <5>1 DEF Fits, Due
        <5>3. DOMAIN added = {}
          BY <2>1, <5>2 DEF IsSequence
        <5> QED BY <2>6, <5>3
      <4> QED BY <4>1, <1>1 DEF Past, Requesting
    <3> QED BY <3>2, <3>3
  <2>7. \A k \in DOMAIN more : Fits(more[k])' /\ Past(more[k])'
    BY <2>2, <2>5, <2>6
  <2>8. Len(more) = Due'
    BY <2>1, <2>2, <2>4
  <2> HIDE DEF more
  <2>9. With(input.signers, more)' = With(input.signers, more)
    BY DEF With
  <2> QED BY <2>2, <2>3, <2>7, <2>8, <2>9 DEF Stamping
<1>6. Counts'
  <2>1. ASSUME pc' = "authenticode", NEW e \in Entries, e[1] = "authenticode"
        PROVE  Counted(e)'
    <3>1. pc = "rfc3161" /\ url' = 1 /\ attempt' = 1
      BY <1>1, <2>1
    <3>2. tries[e] = 0 /\ e[2] \in Nat /\ e[2] \in DOMAIN authenticode_urls
      BY <2>1, <3>1, EntryIsOne DEF IInv, Counts, Entries
    <3>3. e[2] >= 1
      BY <1>1, <3>2 DEF IsSequence
    <3> QED BY <3>1, <3>2, <3>3 DEF Counted
  <2> QED BY <1>1, <2>1 DEF IInv, Counts, Requesting
<1>7. InOrder' /\ Rfc3161Survives'
  BY <1>1 DEF IInv, InOrder, Attempts, Rfc3161Survives
<1> QED BY <1>2, <1>3, <1>4, <1>5, <1>6, <1>7 DEF IInv

\* What push_unsigned_attribute does to whatever stamps there are.
LEMMA PushedAll ==
    ASSUME IInv, Requesting, NEW attr, NEW sd,
           sd = [content |-> sd.content, signers |-> sd.signers, certs |-> sd.certs],
           sd.signers = signed_data.signers, sd.content = signed_data.content
    PROVE  LET p == Pushed(sd, attr)
           IN  /\ p = [content |-> p.content, signers |-> p.signers, certs |-> p.certs]
               /\ p.content = signed_data.content
               /\ \A added : IsSequence(added)
                        /\ signed_data.signers = With(input.signers, added) =>
                      p.signers = With(input.signers, Append(added, attr))
<1>1. IsSignedData(input) /\ input.signers # << >>
  BY DEF IInv, Control, Requesting
<1>2. PICK some : IsSequence(some) /\ signed_data.signers = With(input.signers, some)
  BY <1>1 DEF IInv, Stamping, Requesting
<1> DEFINE p == Pushed(sd, attr)
<1>3. /\ p = [content |-> p.content, signers |-> p.signers, certs |-> p.certs]
      /\ p.content = sd.content
  BY <1>1, <1>2, PushedWith
<1>4. ASSUME NEW added, IsSequence(added), signed_data.signers = With(input.signers, added)
      PROVE  p.signers = With(input.signers, Append(added, attr))
  BY <1>1, <1>4, PushedWith
<1> QED BY <1>3, <1>4

LEMMA AttachInv ==
    ASSUME IInv, AttachRfc3161 \/ AttachToken \/ AttachCounterSignature PROVE IInv'
<1>1. Requesting /\ HasAnswer /\ wire' = Idle
      /\ UNCHANGED << args, result, resets, refusals, tries, issued >>
  BY DEF AttachRfc3161, AttachToken, AttachCounterSignature, Requesting
<1>2. CASE AttachRfc3161 \/ AttachToken
  <2> DEFINE attr == SpcRfc3161(wire.token)
  <2>1. signed_data' = Pushed(signed_data, attr)
    BY <1>2 DEF AttachRfc3161, AttachToken
  <2>2. attr.token = wire.token /\ attr.typ # "PKCS9_COUNTER_SIGNATURE"
    BY DEF SpcRfc3161
  <2>3. signed_data = [content |-> signed_data.content, signers |-> signed_data.signers,
                       certs |-> signed_data.certs]
    BY DEF IInv, Data
  <2>4. /\ \/ pc' = "encode"
           \/ pc = "rfc3161" /\ pc' = "authenticode" /\ authenticode_urls # << >>
              /\ url' = 1 /\ attempt' = 1
        /\ pc = "rfc3161" /\ pc' = "encode" => authenticode_urls = << >>
    BY <1>2 DEF AttachRfc3161, AttachToken, AfterRfc3161
  <2> HIDE DEF attr
  <2>5. /\ signed_data' = [content |-> signed_data'.content, signers |-> signed_data'.signers,
                           certs |-> signed_data'.certs]
        /\ signed_data'.content = signed_data.content
        /\ \A added : IsSequence(added) /\ signed_data.signers = With(input.signers, added) =>
               signed_data'.signers = With(input.signers, Append(added, attr))
    BY <1>1, <2>1, <2>3, PushedAll
  <2> QED BY <1>1, <2>2, <2>4, <2>5, AttachStep
<1>3. CASE AttachCounterSignature
  <2> DEFINE attr  == CounterSig(wire.token)
             certs == Hoisted(signed_data.certs, wire.token.certs)
             sd    == [signed_data EXCEPT !.certs = certs]
  <2>1. signed_data' = Pushed(sd, attr)
    BY <1>3 DEF AttachCounterSignature
  <2>2. attr.token = wire.token /\ wire.token.content # "tst_info"
    BY <1>3 DEF CounterSig, AttachCounterSignature
  <2>3. signed_data = [content |-> signed_data.content, signers |-> signed_data.signers,
                       certs |-> signed_data.certs]
    BY DEF IInv, Data
  <2> HIDE DEF attr, certs
  <2>4. /\ sd = [content |-> sd.content, signers |-> sd.signers, certs |-> sd.certs]
        /\ sd.signers = signed_data.signers /\ sd.content = signed_data.content
    BY <2>3
  <2> HIDE DEF sd
  <2>5. /\ signed_data' = [content |-> signed_data'.content, signers |-> signed_data'.signers,
                           certs |-> signed_data'.certs]
        /\ signed_data'.content = signed_data.content
        /\ \A added : IsSequence(added) /\ signed_data.signers = With(input.signers, added) =>
               signed_data'.signers = With(input.signers, Append(added, attr))
    BY <1>1, <2>1, <2>4, PushedAll
  <2>6. pc' = "encode" /\ pc # "rfc3161"
    BY <1>3 DEF AttachCounterSignature
  <2> QED BY <1>1, <2>2, <2>5, <2>6, AttachStep
<1> QED BY <1>2, <1>3

----------------------------------------------------------------------------
(* Entry and exit *)

LEMMA InitInv == Init => IInv
<1> SUFFICES ASSUME Init PROVE IInv
  OBVIOUS
<1>1. /\ IsSignedData(input) /\ IsSequence(rfc3161_urls) /\ IsSequence(authenticode_urls)
  BY TimestampAssumption DEF Init
<1>2. Control
  BY <1>1, TimestampAssumption DEF Init, Control, States, Requesting
<1>3. Data /\ Wire
  BY <1>1 DEF Init, Data, Wire, IsSignedData, Requesting
<1>4. Stamping
  <2>1. ASSUME input.signers # << >> PROVE input.signers = With(input.signers, << >>)
    BY <1>1, <2>1, StartsWithNone
  <2>2. IsSequence(<< >>) /\ Len(<< >>) = 0
    BY DEF IsSequence, SeqRange
  <2>3. Due = 0 /\ signed_data = input
    BY DEF Init, Due
  <2> QED BY <2>1, <2>2, <2>3 DEF Stamping
<1>5. Counts /\ InOrder /\ Rfc3161Survives
  BY TimestampAssumption DEF Init, Counts, InOrder, Rfc3161Survives, Requesting
<1> QED BY <1>2, <1>3, <1>4, <1>5 DEF IInv

LEMMA NothingToDoInv == ASSUME IInv, NothingToDo PROVE IInv'
<1> USE Frame
<1>1. /\ pc = "start" /\ ~Asked /\ result' = signed_data /\ pc' = "done"
      /\ UNCHANGED << signed_data, url, attempt, wire, resets, refusals, tries, issued, args >>
  BY DEF NothingToDo
<1>2. Control' /\ Data' /\ Wire'
  BY <1>1 DEF IInv, Control, Data, Wire, Requesting, States
<1>3. Stamping'
  <2> SUFFICES ASSUME input.signers # << >> PROVE Stamping'
    BY <1>1 DEF Stamping
  <2>1. PICK added : /\ IsSequence(added) /\ Len(added) = Due
                     /\ signed_data.signers = With(input.signers, added)
    BY <1>1 DEF IInv, Stamping
  <2>2. Due = 0 /\ Due' = 0
    BY <1>1 DEF Due
  <2>3. DOMAIN added = {}
    BY <2>1, <2>2 DEF IsSequence
  <2>4. With(input.signers, added)' = With(input.signers, added)
    BY <1>1 DEF With
  <2> QED BY <1>1, <2>1, <2>2, <2>3, <2>4 DEF Stamping
<1>4. Counts' /\ InOrder' /\ Rfc3161Survives'
  BY <1>1 DEF IInv, Counts, InOrder, Rfc3161Survives, Requesting, Attempts
<1> QED BY <1>2, <1>3, <1>4 DEF IInv

LEMMA ParseInv == ASSUME IInv, Parse PROVE IInv'
<1> USE Frame
<1>1. /\ pc = "start" /\ Asked /\ signed_data' = [signed_data EXCEPT !.content = "wrapped"]
      /\ pc' = IF signed_data.signers = << >> THEN "failed" ELSE FirstList
      /\ UNCHANGED << url, attempt, wire, result, resets, refusals, tries, issued, args >>
  BY DEF Parse
<1>2. /\ signed_data = input /\ url = 1 /\ attempt = 1 /\ wire = Idle
      /\ signed_data = [content |-> signed_data.content, signers |-> signed_data.signers,
                        certs |-> signed_data.certs]
      /\ IsSequence(rfc3161_urls) /\ IsSequence(authenticode_urls)
  BY <1>1 DEF IInv, Control, Data, Wire
<1>3. /\ signed_data'.signers = input.signers /\ signed_data'.content = "wrapped"
      /\ signed_data' = [content |-> signed_data'.content, signers |-> signed_data'.signers,
                         certs |-> signed_data'.certs]
  BY <1>1, <1>2
<1>4. \/ pc' = "failed" /\ input.signers = << >>
      \/ pc' \in {"rfc3161", "authenticode"} /\ input.signers # << >>
         /\ (pc' = "rfc3161" <=> rfc3161_urls # << >>)
         /\ (pc' = "authenticode" => authenticode_urls # << >>)
  BY <1>1, <1>2 DEF FirstList, AfterRfc3161, Asked
<1>5. Control'
  <2>1. Attempts("rfc3161") \in Nat \ {0} /\ Attempts("authenticode") \in Nat \ {0}
    BY TimestampAssumption DEF Attempts
  <2>2. /\ rfc3161_urls # << >> => 1 \in DOMAIN rfc3161_urls
        /\ authenticode_urls # << >> => 1 \in DOMAIN authenticode_urls
    BY <1>2 DEF IsSequence
  <2>3. \A l : Attempts(l)' = Attempts(l)
    BY DEF Attempts
  <2>4. Requesting' => Asked' /\ url' \in DOMAIN Urls(pc)' /\ attempt' \in 1 .. Attempts(pc)'
    <3>1. CASE pc' = "rfc3161"
      BY <1>1, <1>2, <1>4, <2>1, <2>2, <3>1 DEF Urls, Attempts
    <3>2. CASE pc' = "authenticode"
      BY <1>1, <1>2, <1>4, <2>1, <2>2, <3>2 DEF Urls, Attempts
    <3> QED BY <3>1, <3>2 DEF Requesting
  <2> QED BY <1>1, <1>4, <2>4 DEF IInv, Control, States
<1>6. Data' /\ Wire'
  BY <1>1, <1>2, <1>3, <1>4, WireKinds DEF IInv, Data, Wire, HasAnswer
<1>7. Stamping'
  <2> SUFFICES ASSUME input.signers # << >> PROVE Stamping'
    BY <1>1 DEF Stamping
  <2>1. input.signers = With(input.signers, << >>)
    BY StartsWithNone DEF IInv, Control
  <2>2. IsSequence(<< >>) /\ Len(<< >>) = 0
    BY DEF IsSequence, SeqRange
  <2>3. Due' = 0
    BY <1>1, <1>4 DEF Due, One
  <2>4. With(input.signers, << >>)' = With(input.signers, << >>)
    BY <1>1 DEF With
  <2>5. /\ IsSequence(<< >>) /\ Len(<< >>) = Due'
        /\ signed_data'.signers = With(input.signers, << >>)'
        /\ \A k \in DOMAIN << >> : Fits(<< >>[k])' /\ Past(<< >>[k])'
    BY <1>3, <2>1, <2>2, <2>3, <2>4
  <2> QED BY <2>5 DEF Stamping
<1>8. Counts'
  <2>1. \A e \in Entries : tries[e] = 0 /\ e[2] \in Nat /\ e[2] >= 1
    BY <1>1, <1>2 DEF IInv, Counts, Entries, IsSequence
  <2>2. \A e \in Entries : Counted(e)'
    BY <1>1, <1>2, <2>1 DEF Counted
  <2> QED BY <1>1, <1>4, <2>1, <2>2 DEF IInv, Counts
<1>9. InOrder' /\ Rfc3161Survives'
  BY <1>1, <1>4 DEF IInv, InOrder, Rfc3161Survives, Attempts
<1> QED BY <1>5, <1>6, <1>7, <1>8, <1>9 DEF IInv

LEMMA EncodeInv == ASSUME IInv, Encode PROVE IInv'
<1> USE Frame
<1>1. /\ pc = "encode" /\ signed_data' = [signed_data EXCEPT !.content = "native"]
      /\ result' = signed_data' /\ pc' = "done"
      /\ UNCHANGED << url, attempt, wire, resets, refusals, tries, issued, args >>
  BY DEF Encode
<1>2. /\ signed_data = [content |-> signed_data.content, signers |-> signed_data.signers,
                        certs |-> signed_data.certs]
      /\ Asked /\ input.signers # << >>
  BY <1>1 DEF IInv, Control, Data
<1>3. /\ signed_data'.signers = signed_data.signers /\ signed_data'.content = "native"
      /\ signed_data' = [content |-> signed_data'.content, signers |-> signed_data'.signers,
                         certs |-> signed_data'.certs]
  BY <1>1, <1>2
<1>4. Control' /\ Data' /\ Wire'
  BY <1>1, <1>2, <1>3 DEF IInv, Control, Data, Wire, Requesting, States
<1>5. Stamping'
  <2>1. PICK added : /\ IsSequence(added) /\ Len(added) = Due
                     /\ signed_data.signers = With(input.signers, added)
                     /\ \A k \in DOMAIN added : Fits(added[k]) /\ Past(added[k])
    BY <1>1, <1>2 DEF IInv, Stamping
  <2>2. Due' = Due
    BY <1>1, <1>2 DEF Due, One
  <2>3. \A k \in DOMAIN added : Fits(added[k])' /\ Past(added[k])'
    BY <1>1, <2>1 DEF Fits, Past, Requesting
  <2>4. With(input.signers, added)' = With(input.signers, added)
    BY <1>1 DEF With
  <2> QED BY <1>3, <2>1, <2>2, <2>3, <2>4 DEF Stamping
<1>6. Counts' /\ InOrder' /\ Rfc3161Survives'
  BY <1>1 DEF IInv, Counts, InOrder, Rfc3161Survives, Requesting, Attempts
<1> QED BY <1>4, <1>5, <1>6 DEF IInv

----------------------------------------------------------------------------
(* The theorems *)

LEMMA NextInv == IInv /\ [Next]_vars => IInv'
<1> SUFFICES ASSUME IInv, [Next]_vars PROVE IInv'
  OBVIOUS
<1>1. CASE UNCHANGED vars
  <2> USE Frame
  <2>1. UNCHANGED args
    BY <1>1 DEF vars
  <2>2. Control' /\ Data' /\ Wire'
    BY <1>1, <2>1 DEF vars, IInv, Control, Data, Wire, Requesting, HasAnswer, entry, Attempts
  <2>3. Counts' /\ InOrder' /\ Rfc3161Survives'
    BY <1>1, <2>1 DEF vars, IInv, Counts, Counted, InOrder, Rfc3161Survives, Requesting, Attempts
  <2>4. Stamping'
    <3>1. UNCHANGED << pc, signed_data, tries, issued, input, rfc3161_urls, authenticode_urls >>
      BY <1>1 DEF vars, args
    <3>2. Due' = Due /\ \A added : With(input.signers, added)' = With(input.signers, added)
      BY <2>1, <3>1 DEF Due, One, With
    <3>3. \A attr : (Fits(attr) => Fits(attr)') /\ (Past(attr) => Past(attr)')
      BY <2>1, <3>1 DEF Fits, Past, Requesting
    <3> QED BY <3>1, <3>2, <3>3 DEF IInv, Stamping
  <2> QED BY <2>2, <2>3, <2>4 DEF IInv
<1>2. CASE Tsa
  BY <1>2, TsaInv
<1>3. CASE Program
  <2>1. CASE NothingToDo
    BY <2>1, NothingToDoInv
  <2>2. CASE Parse
    BY <2>2, ParseInv
  <2>3. CASE Send
    BY <2>3, SendInv
  <2>4. CASE Encode
    BY <2>4, EncodeInv
  <2>5. CASE AttachRfc3161 \/ AttachToken \/ AttachCounterSignature
    BY <2>5, AttachInv
  <2>6. CASE AttachNothing
    BY <2>6, AttachNothingInv
  <2>7. CASE Retry
    BY <2>7, RetryInv
  <2>8. CASE NextUrl
    BY <2>8, NextUrlInv
  <2>9. CASE GiveUp
    BY <2>9, GiveUpInv
  <2> QED BY <1>3, <2>1, <2>2, <2>3, <2>4, <2>5, <2>6, <2>7, <2>8, <2>9 DEF Program
<1> QED BY <1>1, <1>2, <1>3 DEF Next

\* The invariant on which the theorems rest.
LEMMA TimestampInvariant == Spec => []IInv
BY InitInv, NextInv, PTL DEF Spec

\* Types; the loops stay within their lists and their attempts.
THEOREM TypeCorrect == Spec => []TypeOK
<1>1. IInv => TypeOK
  <2> SUFFICES ASSUME IInv PROVE TypeOK
    OBVIOUS
  <2>1. Requesting => url \in 1 .. Len(Urls(pc))
    <3>1. IsSequence(Urls(pc))
      BY DEF IInv, Control, Urls
    <3> QED BY <3>1 DEF IInv, Control, IsSequence
  <2>2. result = None <=> pc # "done"
    <3>1. pc = "done" => result # None
      <4>1. DOMAIN None = {"none"}
        BY DEF None
      <4>2. DOMAIN signed_data = {"content", "signers", "certs"}
        <5> DEFINE c == signed_data.content
                   g == signed_data.signers
                   t == signed_data.certs
        <5>1. signed_data = [content |-> c, signers |-> g, certs |-> t]
          BY DEF IInv, Data
        <5> HIDE DEF c, g, t
        <5> QED BY <5>1
      <4> QED BY <4>1, <4>2 DEF IInv, Data
    <3> QED BY <3>1 DEF IInv, Data
  <2> QED BY <2>1, <2>2 DEF IInv, Control, Data, Wire, Counts, TypeOK, States
<1> QED BY <1>1, TimestampInvariant, PTL

\* The stamps that a successful call has added.
LEMMA Successful ==
    ASSUME IInv, pc = "done", Asked
    PROVE  /\ result = signed_data /\ result.content = "native"
           /\ result.signers = With(input.signers, Added(result))
           /\ Len(Added(result)) = One(rfc3161_urls) + One(authenticode_urls)
           /\ \A k \in DOMAIN Added(result) : Fits(Added(result)[k])
<1>1. /\ result = signed_data /\ signed_data.content = "native"
      /\ IsSignedData(input) /\ input.signers # << >>
  BY DEF IInv, Control, Data
<1>2. PICK added : /\ IsSequence(added) /\ Len(added) = Due
                   /\ signed_data.signers = With(input.signers, added)
                   /\ \A k \in DOMAIN added : Fits(added[k]) /\ Past(added[k])
  BY <1>1 DEF IInv, Stamping
<1>3. Added(result) = added
  BY <1>1, <1>2, AddedIs
<1>4. Due = One(rfc3161_urls) + One(authenticode_urls)
  BY DEF Due
<1> QED BY <1>1, <1>2, <1>3, <1>4

\* A success stamps the first signer exactly once per list, whatever was lost,
\* retried or issued in vain.
THEOREM StampsOnce == Spec => []StampedOnce
<1>1. IInv => StampedOnce
  BY Successful DEF StampedOnce, With, One
<1> QED BY <1>1, TimestampInvariant, PTL

\* The URLs of a list are asked in order and no longer than it takes, and what
\* is attached is the answer to the last request.
THEOREM FallsBackInOrder == Spec => []FallbackInOrder
<1>1. IInv => FallbackInOrder
  <2> SUFFICES ASSUME IInv PROVE FallbackInOrder
    OBVIOUS
  <2>1. ASSUME pc = "done", Asked, NEW attr \in SeqRange(Added(result))
        PROVE  tries[attr.token.at] = attr.token.nth
    BY <2>1, Successful DEF SeqRange, Fits
  <2> QED BY <2>1 DEF IInv, InOrder, FallbackInOrder
<1> QED BY <1>1, TimestampInvariant, PTL

\* No RFC 3161 list is given up while an attempt at one of its URLs is left.
THEOREM NoUrlGivenUpEarly == Spec => []Rfc3161Survives
<1>1. IInv => Rfc3161Survives
  BY DEF IInv
<1> QED BY <1>1, TimestampInvariant, PTL

----------------------------------------------------------------------------
(* Certificates *)

\* The TSA's certificates are added after those that were there, each once.
LEMMA HoistedIs ==
    ASSUME NEW certs, IsSequence(certs), NEW more, IsSequence(more)
    PROVE  LET h == Hoisted(certs, more)
           IN  /\ IsSequence(h)
               /\ SeqRange(certs) \subseteq SeqRange(h)
               /\ SeqRange(more) \subseteq SeqRange(h)
               /\ Len(certs) <= Len(h)
               /\ \A i \in 1 .. Len(certs) : h[i] = certs[i]
               /\ NoDuplicates(certs) => NoDuplicates(h)
<1> DEFINE C    == SeqRange(certs) \cup SeqRange(more)
           S    == Seq(C)
           n    == Len(more)
           add(s, i) == IF more[i] \in SeqRange(s) THEN s ELSE Append(s, more[i])
           step == [p \in S \X (1 .. n) |-> add(p[1], p[2])]
           Loop(g) == g = [i \in 0 .. n |->
                              IF i = 0 THEN certs
                              ELSE IF more[i] \in SeqRange(g[i-1]) THEN g[i-1]
                              ELSE Append(g[i-1], more[i])]
           merged == CHOOSE g : Loop(g)
<1>1. n \in Nat /\ certs \in S /\ \A i \in 1 .. n : more[i] \in C
  BY DEF IsSequence, SeqRange
<1>2. ASSUME NEW x \in S, NEW i \in 1 .. n PROVE add(x, i) \in S
  <2>1. more[i] \in C
    BY <1>1
  <2> HIDE DEF C, n
  <2>2. Append(x, more[i]) \in S
    BY <2>1
  <2> HIDE DEF S
  <2> QED BY <2>2
<1>3. step \in [S \X (1 .. n) -> S]
  <2> HIDE DEF S, n, add
  <2> QED BY <1>2
<1>4. \A x \in S, i \in 1 .. n : step[<< x, i >>] = add(x, i)
  <2> HIDE DEF S, n, add
  <2> QED OBVIOUS
<1> HIDE DEF step, S, n
<1>5. PICK loop \in [0 .. n -> S] : Recursion(loop, n, certs, step)
  BY <1>1, <1>3, RecursionExists
<1>6. Loop(loop)
  <2>1. loop[0] = certs /\ \A i \in 1 .. n : loop[i] = step[<< loop[i-1], i >>]
    BY <1>5 DEF Recursion
  <2>2. ASSUME NEW i \in 0 .. n
        PROVE  loop[i] = IF i = 0 THEN certs
                      ELSE IF more[i] \in SeqRange(loop[i-1]) THEN loop[i-1]
                      ELSE Append(loop[i-1], more[i])
    <3>1. CASE i = 0
      BY <2>1, <3>1
    <3>2. CASE i # 0
      <4>1. i \in 1 .. n /\ i - 1 \in 0 .. n
        BY <1>1, <3>2
      <4>2. loop[i-1] \in S
        BY <4>1
      <4>3. loop[i] = add(loop[i-1], i)
        BY <1>4, <2>1, <4>1, <4>2
      <4> QED BY <3>2, <4>3
    <3> QED BY <3>1, <3>2
  <2> QED BY <2>2
<1>7. Loop(merged)
  <2> HIDE DEF Loop
  <2> QED BY <1>6
<1> HIDE DEF merged
<1> DEFINE Good(s, k) == /\ s \in Seq(C)
                         /\ Len(certs) <= Len(s)
                         /\ \A i \in 1 .. Len(certs) : s[i] = certs[i]
                         /\ \A j \in 1 .. k : more[j] \in SeqRange(s)
                         /\ NoDuplicates(certs) => NoDuplicates(s)
<1>8. Good(certs, 0)
  BY <1>1 DEF S, SeqRange
<1>9. ASSUME NEW k \in 1 .. n, NEW s, Good(s, k - 1) PROVE Good(add(s, k), k)
  <2>1. more[k] \in C /\ k \in Nat
    BY <1>1
  <2>2. CASE more[k] \in SeqRange(s)
    <3>1. \A j \in 1 .. k : j \in 1 .. k - 1 \/ j = k
      BY <2>1
    <3>2. \A j \in 1 .. k : more[j] \in SeqRange(s)
      BY <1>9, <2>2, <3>1, Zenon
    <3>3. add(s, k) = s
      BY <2>2, Zenon
    <3> HIDE DEF add
    <3> QED BY <1>9, <3>2, <3>3, Zenon
  <2>3. CASE more[k] \notin SeqRange(s)
    <3> DEFINE t == Append(s, more[k])
               x == more[k]
    <3>1. s \in Seq(C) /\ x \in C /\ Len(certs) \in Nat /\ Len(s) \in Nat
      BY <1>1, <1>9, <2>1 DEF IsSequence
    <3> HIDE DEF C, x
    <3>2. /\ Append(s, x) \in Seq(C) /\ Len(Append(s, x)) = Len(s) + 1
          /\ Append(s, x)[Len(s) + 1] = x
          /\ \A i \in 1 .. Len(s) : Append(s, x)[i] = s[i]
          /\ DOMAIN Append(s, x) = 1 .. Len(s) + 1
          /\ DOMAIN s = 1 .. Len(s)
      BY <3>1
    <3>3. t = Append(s, x)
      BY DEF x
    <3> HIDE DEF t
    <3>4. /\ t \in Seq(C) /\ Len(t) = Len(s) + 1 /\ t[Len(s) + 1] = x
          /\ \A i \in 1 .. Len(s) : t[i] = s[i]
          /\ DOMAIN t = 1 .. Len(s) + 1 /\ DOMAIN s = 1 .. Len(s)
      BY <3>2, <3>3, Zenon
    <3> DEFINE m == Len(s)
               c == Len(certs)
    <3>5. m \in Nat /\ c \in Nat /\ c <= m
      BY <1>9, <3>1, Zenon
    <3>6. \A i \in 1 .. c : t[i] = certs[i]
      <4> HIDE DEF m, c
      <4>1. \A i \in 1 .. c : i \in 1 .. m
        BY <3>5
      <4> QED BY <1>9, <3>4, <4>1, Zenon DEF m, c
    <3>7. SeqRange(s) \subseteq SeqRange(t) /\ x \in SeqRange(t)
      <4> HIDE DEF m
      <4>1. DOMAIN t = 1 .. m + 1 /\ DOMAIN s = 1 .. m /\ t[m + 1] = x
            /\ \A i \in 1 .. m : t[i] = s[i]
        BY <3>4 DEF m
      <4>2. \A i \in 1 .. m : i \in 1 .. m + 1
        BY <3>5
      <4>3. m + 1 \in 1 .. m + 1
        BY <3>5
      <4> QED BY <4>1, <4>2, <4>3, Zenon DEF SeqRange
    <3>8. \A j \in 1 .. k : more[j] \in SeqRange(t)
      <4>1. \A j \in 1 .. k : j \in 1 .. k - 1 \/ j = k
        BY <2>1
      <4> QED BY <1>9, <3>7, <4>1, Zenon DEF x
    <3>9. ASSUME NoDuplicates(s) PROVE NoDuplicates(t)
      <4> HIDE DEF m
      <4>1. DOMAIN t = 1 .. m + 1 /\ DOMAIN s = 1 .. m /\ t[m + 1] = x
            /\ \A i \in 1 .. m : t[i] = s[i]
        BY <3>4 DEF m
      <4>2. \A i \in 1 .. m : s[i] # x
        BY <2>3, <4>1 DEF SeqRange, x
      <4>3. \A i \in 1 .. m + 1 : i \in 1 .. m \/ i = m + 1
        BY <3>5
      <4>4. \A i, j \in 1 .. m : s[i] = s[j] => i = j
        BY <3>9, <4>1 DEF NoDuplicates
      <4> QED BY <4>1, <4>2, <4>3, <4>4, Zenon DEF NoDuplicates
    <3>10. c <= Len(t)
      <4> HIDE DEF m, c
      <4>1. c <= m + 1
        BY <3>5
      <4> QED BY <3>4, <4>1 DEF m
    <3>11. Good(t, k)
      BY <1>9, <3>4, <3>6, <3>8, <3>9, <3>10, Zenon
    <3>12. add(s, k) = t
      BY <2>3, <3>3, Zenon DEF x
    <3> HIDE DEF add, Good
    <3> QED BY <3>11, <3>12
  <2> QED BY <2>2, <2>3
<1> HIDE DEF Good
<1>10. Good(merged[n], n)
  <2> DEFINE K == {k \in 0 .. n : Good(merged[k], k)}
  <2>1. 0 \in K
    <3>1. merged[0] = certs /\ 0 \in 0 .. n
      BY <1>1, <1>7
    <3> QED BY <1>8, <3>1
  <2>2. ASSUME NEW k \in 1 .. n, k - 1 \in K PROVE k \in K
    <3>1. k \in 0 .. n /\ k # 0
      BY <1>1
    <3>2. merged[k] = add(merged[k-1], k)
      BY <1>7, <3>1
    <3> HIDE DEF add
    <3> QED BY <1>9, <2>2, <3>1, <3>2
  <2> HIDE DEF K
  <2>3. 0 .. n \subseteq K
    BY <1>1, <2>1, <2>2, UpTo
  <2>4. n \in 0 .. n
    BY <1>1
  <2> QED BY <2>3, <2>4 DEF K
<1>11. Hoisted(certs, more) = merged[n]
  BY DEF Hoisted, merged, n
<1> DEFINE h == merged[n]
<1>12. /\ h \in Seq(C) /\ Len(certs) <= Len(h)
       /\ \A i \in 1 .. Len(certs) : h[i] = certs[i]
       /\ \A j \in 1 .. n : more[j] \in SeqRange(h)
       /\ NoDuplicates(certs) => NoDuplicates(h)
  BY <1>10 DEF Good
<1> HIDE DEF h, C
<1>13. IsSequence(h)
  BY <1>12 DEF IsSequence, SeqRange
<1>14. DOMAIN h = 1 .. Len(h) /\ DOMAIN certs = 1 .. Len(certs) /\ DOMAIN more = 1 .. n
       /\ Len(h) \in Nat /\ Len(certs) \in Nat
  BY <1>12 DEF IsSequence, n
<1>15. SeqRange(more) \subseteq SeqRange(h)
  BY <1>12, <1>14 DEF SeqRange
<1>16. SeqRange(certs) \subseteq SeqRange(h)
  <2>1. \A i \in 1 .. Len(certs) : i \in 1 .. Len(h)
    BY <1>12, <1>14
  <2> QED BY <1>12, <1>14, <2>1, Zenon DEF SeqRange
<1>17. Hoisted(certs, more) = h
  BY <1>11 DEF h
<1> QED BY <1>12, <1>13, <1>15, <1>16, <1>17, Zenon

LEMMA PrefixIs ==
    ASSUME NEW s, IsSequence(s), NEW t, IsSequence(t), Len(t) <= Len(s),
           \A i \in 1 .. Len(t) : s[i] = t[i]
    PROVE  SubSeq(s, 1, Len(t)) = t
<1> DEFINE S == SeqRange(s) \cup SeqRange(t)
<1>1. s \in Seq(S) /\ t \in Seq(S)
  BY DEF IsSequence, SeqRange
<1> HIDE DEF S
<1> QED BY <1>1

\* The stamps that were added, and what is in the list for them.
CertInv ==
    /\ IsSequence(signed_data.certs)
    /\ \A t \in issued : IsSequence(t.certs)
    /\ Len(input.certs) <= Len(signed_data.certs)
    /\ \A i \in 1 .. Len(input.certs) : signed_data.certs[i] = input.certs[i]
    /\ NoDuplicates(input.certs) => NoDuplicates(signed_data.certs)
    /\ input.signers # << >> /\ pc # "failed" =>
           \A attr \in SeqRange(Added(signed_data)) :
               attr.typ = "PKCS9_COUNTER_SIGNATURE" =>
                   SeqRange(attr.token.certs) \subseteq SeqRange(signed_data.certs)

LEMMA CertInit == Init => CertInv
<1> SUFFICES ASSUME Init PROVE CertInv
  OBVIOUS
<1>1. signed_data = input /\ IsSignedData(input) /\ issued = {}
  BY TimestampAssumption DEF Init
<1>2. IsSequence(input.certs)
  BY <1>1 DEF IsSignedData
<1>3. Len(input.certs) \in Nat
  BY <1>2 DEF IsSequence
<1>4. ASSUME input.signers # << >> PROVE SeqRange(Added(signed_data)) = {}
  <2>1. input.signers = With(input.signers, << >>)
    BY <1>1, <1>4, StartsWithNone
  <2>2. IsSequence(<< >>)
    BY DEF IsSequence, SeqRange
  <2>3. Added(signed_data) = << >>
    BY <1>1, <1>4, <2>1, <2>2, AddedIs
  <2> QED BY <2>3 DEF SeqRange
<1> QED BY <1>1, <1>2, <1>3, <1>4 DEF CertInv

\* A step that touches neither the signers nor the certificates.
LEMMA CertsKept ==
    ASSUME CertInv, input' = input, issued' = issued,
           signed_data'.signers = signed_data.signers,
           signed_data'.certs = signed_data.certs,
           pc' = "failed" \/ pc # "failed" \/ input.signers = << >>
    PROVE  CertInv'
<1>1. Added(signed_data)' = Added(signed_data)
  BY DEF Added
<1> QED BY <1>1 DEF CertInv

\* The stamps after an attribute has been pushed.
LEMMA StampAdded ==
    ASSUME IInv, Requesting, NEW attr, NEW sd,
           sd = [content |-> sd.content, signers |-> sd.signers, certs |-> sd.certs],
           sd.signers = signed_data.signers, sd.content = signed_data.content,
           signed_data' = Pushed(sd, attr), input' = input
    PROVE  /\ signed_data'.certs = sd.certs
           /\ \A a \in SeqRange(Added(signed_data)') :
                  a = attr \/ a \in SeqRange(Added(signed_data))
<1>1. IsSignedData(input) /\ input.signers # << >>
  BY DEF IInv, Control, Requesting
<1>2. PICK added : IsSequence(added) /\ signed_data.signers = With(input.signers, added)
  BY <1>1 DEF IInv, Stamping, Requesting
<1>3. Added(signed_data) = added
  BY <1>1, <1>2, AddedIs
<1>4. signed_data'.signers = With(input.signers, Append(added, attr))
  BY <1>2, PushedAll
<1>5. /\ IsSequence(Append(added, attr))
      /\ \A k \in DOMAIN Append(added, attr) :
             Append(added, attr)[k] = attr
             \/ (k \in DOMAIN added /\ Append(added, attr)[k] = added[k])
  BY <1>2, Appended
<1> DEFINE more == Append(added, attr)
<1> HIDE DEF more
<1>6. Added(signed_data') = more
  BY <1>1, <1>4, <1>5, AddedIs DEF more
<1>7. Added(signed_data)' = Added(signed_data')
  BY DEF Added
<1>8. signed_data'.certs = sd.certs
  <2> DEFINE new == [sd.signers EXCEPT ![1].unsigned = Append(@, attr)]
  <2>1. signed_data' = [sd EXCEPT !.signers = new]
    BY DEF Pushed
  <2> HIDE DEF new
  <2>2. signed_data' = [content |-> sd.content, signers |-> new, certs |-> sd.certs]
    BY <2>1
  <2> QED BY <2>2
<1>9. \A a \in SeqRange(more) : a = attr \/ a \in SeqRange(added)
  BY <1>5, Zenon DEF SeqRange, more
<1> QED BY <1>3, <1>6, <1>7, <1>8, <1>9

LEMMA CertStep == IInv /\ CertInv /\ [Next]_vars => CertInv'
<1> SUFFICES ASSUME IInv, CertInv, [Next]_vars PROVE CertInv'
  OBVIOUS
<1>1. signed_data = [content |-> signed_data.content, signers |-> signed_data.signers,
                     certs |-> signed_data.certs]
  BY DEF IInv, Data
<1>2. CASE UNCHANGED vars
  BY <1>2, CertsKept DEF vars, args
<1>3. CASE Tsa
  <2>1. UNCHANGED << input, pc, signed_data >>
    BY <1>3 DEF Tsa, Grant, Reset, Refuse, args
  <2>2. \A t \in issued' : IsSequence(t.certs)
    <3>1. \A t \in Tokens : IsSequence(t.certs)
      <4>1. IsSequence(<< >>) /\ \A certs \in TsaCerts : IsSequence(certs)
        BY TimestampAssumption DEF IsSequence, SeqRange
      <4> QED BY <4>1 DEF Tokens
    <3>2. issued' = issued \/ \E t \in Tokens : issued' = issued \cup {t}
      BY <1>3 DEF Tsa, Grant, Reset, Refuse
    <3> QED BY <3>1, <3>2 DEF CertInv
  <2>3. Added(signed_data)' = Added(signed_data)
    BY <2>1 DEF Added
  <2> QED BY <2>1, <2>2, <2>3 DEF CertInv
<1>4. CASE NothingToDo \/ Send \/ AttachNothing \/ Retry \/ NextUrl \/ GiveUp
  <2>1. UNCHANGED << input, issued, signed_data >>
    BY <1>4 DEF NothingToDo, Send, AttachNothing, Retry, NextUrl, GiveUp, args
  <2>2. pc # "failed"
    BY <1>4 DEF NothingToDo, Send, AttachNothing, Retry, NextUrl, GiveUp, Requesting
  <2> QED BY <2>1, <2>2, CertsKept
<1>5. CASE Parse \/ Encode
  <2>1. /\ UNCHANGED << input, issued >> /\ pc # "failed"
        /\ \E c : signed_data' = [signed_data EXCEPT !.content = c]
    BY <1>5 DEF Parse, Encode, args
  <2>2. signed_data'.signers = signed_data.signers /\ signed_data'.certs = signed_data.certs
    BY <1>1, <2>1
  <2> QED BY <2>1, <2>2, CertsKept
<1>6. CASE AttachRfc3161 \/ AttachToken
  <2> DEFINE attr == SpcRfc3161(wire.token)
  <2>1. /\ Requesting /\ UNCHANGED << input, issued >> /\ pc # "failed"
        /\ signed_data' = Pushed(signed_data, attr)
    BY <1>6 DEF AttachRfc3161, AttachToken, Requesting, args
  <2>2. attr.typ # "PKCS9_COUNTER_SIGNATURE"
    BY DEF SpcRfc3161
  <2> HIDE DEF attr
  <2>3. /\ signed_data'.certs = signed_data.certs
        /\ \A a \in SeqRange(Added(signed_data)') :
               a = attr \/ a \in SeqRange(Added(signed_data))
    BY <1>1, <2>1, StampAdded
  <2> QED BY <2>1, <2>2, <2>3 DEF CertInv
<1>7. CASE AttachCounterSignature
  <2> DEFINE attr  == CounterSig(wire.token)
             certs == Hoisted(signed_data.certs, wire.token.certs)
             sd    == [signed_data EXCEPT !.certs = certs]
  <2>1. /\ Requesting /\ HasAnswer /\ UNCHANGED << input, issued >> /\ pc # "failed"
        /\ signed_data' = Pushed(sd, attr)
    BY <1>7 DEF AttachCounterSignature, Requesting, args
  <2>2. attr.token = wire.token
    BY DEF CounterSig
  <2>3. IsSequence(signed_data.certs) /\ IsSequence(wire.token.certs)
    <3>1. wire.token \in issued
      BY <2>1, WireKinds DEF IInv, Wire, HasAnswer
    <3> QED BY <3>1 DEF CertInv
  <2>4. /\ IsSequence(certs)
        /\ SeqRange(signed_data.certs) \subseteq SeqRange(certs)
        /\ SeqRange(wire.token.certs) \subseteq SeqRange(certs)
        /\ Len(signed_data.certs) <= Len(certs)
        /\ \A i \in 1 .. Len(signed_data.certs) : certs[i] = signed_data.certs[i]
        /\ NoDuplicates(signed_data.certs) => NoDuplicates(certs)
    BY <2>3, HoistedIs, Zenon
  <2> HIDE DEF attr, certs
  <2>5. /\ sd = [content |-> sd.content, signers |-> sd.signers, certs |-> sd.certs]
        /\ sd.signers = signed_data.signers /\ sd.content = signed_data.content
        /\ sd.certs = certs
    BY <1>1
  <2> HIDE DEF sd
  <2>6. /\ signed_data'.certs = sd.certs
        /\ \A a \in SeqRange(Added(signed_data)') :
               a = attr \/ a \in SeqRange(Added(signed_data))
    BY <2>1, <2>5, StampAdded
  <2>7. signed_data'.certs = certs
    BY <2>5, <2>6
  <2>8. \A i \in 1 .. Len(input.certs) : certs[i] = input.certs[i]
    <3> DEFINE m == Len(signed_data.certs)
               k == Len(input.certs)
    <3>1. m \in Nat /\ k \in Nat
      BY <2>3 DEF IInv, Control, IsSignedData, IsSequence
    <3>2. k <= m
      BY DEF CertInv
    <3> HIDE DEF m, k
    <3>3. \A i \in 1 .. k : i \in 1 .. m
      BY <3>1, <3>2
    <3> QED BY <2>4, <3>3, Zenon DEF CertInv, m, k
  <2>9. Len(input.certs) <= Len(certs)
    <3> DEFINE m == Len(signed_data.certs)
               k == Len(input.certs)
               n == Len(certs)
    <3>1. m \in Nat /\ k \in Nat /\ n \in Nat
      BY <2>3, <2>4 DEF IInv, Control, IsSignedData, IsSequence
    <3>2. k <= m /\ m <= n
      BY <2>4 DEF CertInv
    <3> HIDE DEF m, k, n
    <3>3. k <= n
      BY <3>1, <3>2
    <3> QED BY <3>3 DEF k, n
  <2>10. \A a \in SeqRange(Added(signed_data)') :
             a.typ = "PKCS9_COUNTER_SIGNATURE" =>
                 SeqRange(a.token.certs) \subseteq SeqRange(certs)
    <3>1. \A a \in SeqRange(Added(signed_data)) :
              a.typ = "PKCS9_COUNTER_SIGNATURE" =>
                  SeqRange(a.token.certs) \subseteq SeqRange(signed_data.certs)
      <4>1. input.signers # << >> /\ pc # "failed"
        <5>1. pc \notin {"start", "failed"}
          BY <2>1 DEF Requesting
        <5>2. Asked
          BY <2>1, Zenon DEF IInv, Control
        <5>3. input.signers # << >>
          BY <5>1, <5>2, Zenon DEF IInv, Control
        <5> QED BY <5>1, <5>3
      <4> QED BY <4>1, Zenon DEF CertInv
    <3>2. ASSUME NEW a \in SeqRange(Added(signed_data)'),
                 a.typ = "PKCS9_COUNTER_SIGNATURE"
          PROVE  SeqRange(a.token.certs) \subseteq SeqRange(certs)
      <4>1. CASE a = attr
        BY <2>2, <2>4, <4>1
      <4>2. CASE a \in SeqRange(Added(signed_data))
        BY <2>4, <3>1, <3>2, <4>2
      <4> QED BY <2>6, <4>1, <4>2
    <3> QED BY <3>2
  <2>11. NoDuplicates(input.certs) => NoDuplicates(certs)
    BY <2>4 DEF CertInv
  <2> QED BY <2>1, <2>4, <2>7, <2>8, <2>9, <2>10, <2>11 DEF CertInv
<1> QED BY <1>2, <1>3, <1>4, <1>5, <1>6, <1>7 DEF Next, Program

LEMMA CertInvariant == Spec => [](IInv /\ CertInv)
BY InitInv, NextInv, CertInit, CertStep, PTL DEF Spec

\* Every stamp of a success was issued for the first signer's signature, if the
\* authorities stamp what they were sent; a counter-signature is never a token, and its certificates, which came with it
\* and not with the blob, are in the outer list.
THEOREM StampsFitTheirSigner == Spec => []StampsFit
<1>1. IInv /\ CertInv => StampsFit
  <2> SUFFICES ASSUME IInv, CertInv, pc = "done", Asked,
                      NEW attr \in SeqRange(Added(result))
               PROVE  /\ attr.token \in issued
                      /\ attr.token.covers = input.signers[1].signature
                      /\ attr.typ = "PKCS9_COUNTER_SIGNATURE" =>
                             /\ attr.token.content # "tst_info"
                             /\ SeqRange(attr.token.certs) \subseteq SeqRange(result.certs)
    BY DEF StampsFit
  <2>1. result = signed_data /\ Fits(attr)
    BY Successful DEF SeqRange
  <2>2. input.signers # << >>
    BY DEF IInv, Control
  <2>3. attr.typ = "PKCS9_COUNTER_SIGNATURE" =>
            SeqRange(attr.token.certs) \subseteq SeqRange(signed_data.certs)
    BY <2>1, <2>2 DEF CertInv
  <2> QED BY <2>1, <2>3 DEF Fits
<1> QED BY <1>1, CertInvariant, PTL

\* The certificates of a legacy TSA are added behind those of the blob, and one
\* that is there is not added again: at every step, whatever is sent.
THEOREM HoistingIsOrderly == Spec => []CertsGrowOnly
<1>1. IInv /\ CertInv => CertsGrowOnly
  <2> SUFFICES ASSUME IInv, CertInv, NoDuplicates(input.certs) PROVE CertsGrowOnly
    BY DEF CertsGrowOnly
  <2>1. SubSeq(signed_data.certs, 1, Len(input.certs)) = input.certs
    <3>1. /\ IsSequence(signed_data.certs) /\ IsSequence(input.certs)
          /\ Len(input.certs) <= Len(signed_data.certs)
          /\ \A i \in 1 .. Len(input.certs) : signed_data.certs[i] = input.certs[i]
      BY DEF CertInv, IInv, Control, IsSignedData
    <3> QED BY <3>1, PrefixIs
  <2> QED BY <2>1 DEF CertInv, CertsGrowOnly
<1> QED BY <1>1, CertInvariant, PTL

=============================================================================

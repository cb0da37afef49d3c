----------------------------- MODULE SigningProofs -----------------------------
(***************************************************************************)
(* The shared signer of Pkcs11 keeps its threads apart, and implements     *)
(* SerialSigner, for any number of threads, any token and any messages;    *)
(* what threads that make signatures do to it is what Pkcs11 allows, so    *)
(* that both hold of them.  And what they make verifies, by the checks of  *)
(* Verify and along a path of Chain, if key and certificates belong        *)
(* together.                                                               *)
(***************************************************************************)
EXTENDS SignVerify, TLAPS

----------------------------------------------------------------------------
(* The shared signer *)

\* Who is inside the mutex: between taking it and giving it back.
Inside(t) == stage[t] \in {"locked", "signing", "unlocking"}

Exclusive == \A t \in Threads : holder = t <=> Inside(t)

\* Until the mutex is poisoned, a session that lives has an operation exactly
\* while the thread inside is between its two calls, and it is that thread's.
OperationOwned ==
    alive /\ ~poisoned =>
        /\ operation \in {"none", Mechanism}
        /\ operation # "none" <=> \E t \in Threads : stage[t] = "signing"

\* A poisoned mutex lets nobody in.
PoisonKeepsOut == poisoned => holder = NoThread

\* A call has one message, no outcome until it leaves the session, and a signer
\* that was opened, before which nothing can happen to the session.
CallsInOrder ==
    /\ opened # "ok" => alive /\ ~poisoned
    /\ \A t \in Threads :
          /\ stage[t] = "idle" <=> request[t] = {}
          /\ stage[t] \in {"unlocking", "returned"} <=> outcome[t] # "none"
          /\ stage[t] # "idle" => opened = "ok"

IInv == SignerTypeOK /\ Exclusive /\ OperationOwned /\ PoisonKeepsOut /\ CallsInOrder /\ Isolated

----------------------------------------------------------------------------
(* The invariant is inductive *)

LEMMA InitInvariant == SignerInit => IInv
<1> SUFFICES ASSUME SignerInit PROVE IInv
  OBVIOUS
<1> USE DEF SignerInit
<1>1. SignerTypeOK
  BY DEF SignerTypeOK
<1>2. Exclusive /\ OperationOwned /\ PoisonKeepsOut
  BY ThreadsAssumption DEF Exclusive, Inside, OperationOwned, PoisonKeepsOut
<1>3. CallsInOrder /\ Isolated
  BY DEF CallsInOrder, Isolated
<1>4. QED
  BY <1>1, <1>2, <1>3 DEF IInv

LEMMA OpenPreserves ==
    ASSUME IInv, NEW k \in Keys, Open(k)
    PROVE  IInv'
<1> USE DEF IInv, Open, configuration, session, mutex, calls
<1>1. SignerTypeOK'
  <2>1. private_key' \in token /\ mode' \in {"Sha256RsaPkcs", "RawRsaPkcs"}
    BY DEF SigningMode
  <2>2. QED
    BY <2>1 DEF SignerTypeOK
<1>2. Exclusive'
  BY DEF Exclusive, Inside
<1>3. OperationOwned'
  <2>1. \A t \in Threads : stage[t] = "idle"
    BY DEF CallsInOrder, SignerTypeOK
  <2>2. alive /\ ~poisoned => operation = "none"
    BY <2>1 DEF OperationOwned
  <2>3. QED
    BY <2>1, <2>2 DEF OperationOwned
<1>4. QED
  BY <1>1, <1>2, <1>3 DEF PoisonKeepsOut, CallsInOrder, Isolated

LEMMA OpenFailsPreserves == IInv /\ OpenFails => IInv'
BY DEF IInv, OpenFails, configuration, session, mutex, calls, SignerTypeOK, Exclusive, Inside,
       OperationOwned, Mechanism, PoisonKeepsOut, CallsInOrder, Isolated

LEMMA SessionLostPreserves == IInv /\ SessionLost => IInv'
<1> SUFFICES ASSUME IInv, SessionLost PROVE IInv'
  OBVIOUS
<1> USE DEF IInv, SessionLost, configuration, signer, mutex, calls
<1>1. SignerTypeOK'
  BY DEF SignerTypeOK
<1>2. Exclusive' /\ CallsInOrder' /\ Isolated'
  BY DEF Exclusive, Inside, CallsInOrder, Isolated
<1>3. OperationOwned' /\ PoisonKeepsOut'
  BY DEF OperationOwned, PoisonKeepsOut
<1>4. QED
  BY <1>1, <1>2, <1>3

LEMMA SignMessagePreserves ==
    ASSUME IInv, NEW t \in Threads, NEW m \in Messages, SignMessage(t, m)
    PROVE  IInv'
BY ThreadsAssumption
   DEF IInv, SignMessage, configuration, signer, session, mutex, SignerTypeOK, Exclusive, Inside,
       OperationOwned, Mechanism, PoisonKeepsOut, CallsInOrder, Isolated

LEMMA LockPreserves ==
    ASSUME IInv, NEW t \in Threads, Lock(t)
    PROVE  IInv'
<1> USE ThreadsAssumption DEF IInv, Lock, configuration, signer, session, mutex
<1>1. SignerTypeOK'
  BY DEF SignerTypeOK, Mechanism, CallsInOrder
<1>2. Exclusive'
  BY DEF Exclusive, Inside, SignerTypeOK, PoisonKeepsOut
<1>3. OperationOwned'
  BY DEF OperationOwned, Mechanism, Exclusive, Inside, SignerTypeOK
<1>4. PoisonKeepsOut' /\ CallsInOrder'
  BY DEF PoisonKeepsOut, CallsInOrder, SignerTypeOK, Exclusive, Inside
<1>5. Isolated'
  BY DEF Isolated, SignerTypeOK
<1>6. QED
  BY <1>1, <1>2, <1>3, <1>4, <1>5

LEMMA LockPoisonedPreserves ==
    ASSUME IInv, NEW t \in Threads, LockPoisoned(t)
    PROVE  IInv'
<1> USE ThreadsAssumption DEF IInv, LockPoisoned, configuration, signer, session, mutex
<1>1. SignerTypeOK'
  BY DEF SignerTypeOK, Mechanism, CallsInOrder
<1>2. Exclusive'
  BY DEF Exclusive, Inside, SignerTypeOK, PoisonKeepsOut
<1>3. OperationOwned'
  BY DEF OperationOwned, Mechanism, Exclusive, Inside, SignerTypeOK
<1>4. PoisonKeepsOut' /\ CallsInOrder'
  BY DEF PoisonKeepsOut, CallsInOrder, SignerTypeOK, Exclusive, Inside
<1>5. Isolated'
  BY DEF Isolated, SignerTypeOK
<1>6. QED
  BY <1>1, <1>2, <1>3, <1>4, <1>5

LEMMA CSignInitPreserves ==
    ASSUME IInv, NEW t \in Threads, C_SignInit(t)
    PROVE  IInv'
<1> USE ThreadsAssumption DEF IInv, C_SignInit, configuration, signer, session, mutex
<1>1. SignerTypeOK'
  BY DEF SignerTypeOK, Mechanism, CallsInOrder
<1>2. Exclusive'
  BY DEF Exclusive, Inside, SignerTypeOK, PoisonKeepsOut
<1>3. OperationOwned'
  BY DEF OperationOwned, Mechanism, Exclusive, Inside, SignerTypeOK
<1>4. PoisonKeepsOut' /\ CallsInOrder'
  BY DEF PoisonKeepsOut, CallsInOrder, SignerTypeOK, Exclusive, Inside
<1>5. Isolated'
  BY DEF Isolated, SignerTypeOK
<1>6. QED
  BY <1>1, <1>2, <1>3, <1>4, <1>5

LEMMA CSignInitFailsPreserves ==
    ASSUME IInv, NEW t \in Threads, C_SignInitFails(t)
    PROVE  IInv'
<1> USE ThreadsAssumption DEF IInv, C_SignInitFails, Errors, configuration, signer, session, mutex
<1>1. SignerTypeOK'
  BY DEF SignerTypeOK, Mechanism, CallsInOrder
<1>2. Exclusive'
  BY DEF Exclusive, Inside, SignerTypeOK, PoisonKeepsOut
<1>3. OperationOwned'
  BY DEF OperationOwned, Mechanism, Exclusive, Inside, SignerTypeOK
<1>4. PoisonKeepsOut' /\ CallsInOrder'
  BY DEF PoisonKeepsOut, CallsInOrder, SignerTypeOK, Exclusive, Inside
<1>5. Isolated'
  BY DEF Isolated, SignerTypeOK, OperationOwned, Exclusive, Inside, PoisonKeepsOut
<1>6. QED
  BY <1>1, <1>2, <1>3, <1>4, <1>5

\* Whichever mechanism it is, the token returns the signature of the message.
LEMMA SignsTheMessage ==
    ASSUME IInv, NEW t \in Threads, C_Sign(t), NEW m
    PROVE  Signed(Payload(m)) = Serial!Signature(private_key, m)
<1>1. holder = t /\ ~poisoned
  BY ThreadsAssumption DEF IInv, Exclusive, Inside, PoisonKeepsOut, C_Sign, SignerTypeOK
<1>2. operation = Mechanism
  BY <1>1 DEF IInv, OperationOwned, C_Sign
<1>3. mode \in {"Sha256RsaPkcs", "RawRsaPkcs"}
  BY DEF IInv, CallsInOrder, SignerTypeOK, C_Sign
<1>4. QED
  BY <1>2, <1>3 DEF Signed, Payload, Mechanism, Serial!Signature, Serial!DigestInfo

LEMMA CSignPreserves ==
    ASSUME IInv, NEW t \in Threads, C_Sign(t)
    PROVE  IInv'
<1> USE ThreadsAssumption DEF IInv, C_Sign, configuration, signer, session, mutex
<1>1. SignerTypeOK'
  <2>1. opened = "ok" /\ private_key \in Keys
    BY KeysAssumption DEF CallsInOrder, SignerTypeOK
  <2>2. {Signed(Payload(m)) : m \in request[t]}
          = {Serial!Signature(private_key, m) : m \in request[t]}
    BY SignsTheMessage
  <2>3. request[t] \in SUBSET Messages /\ request[t] # {}
    BY DEF SignerTypeOK, CallsInOrder
  <2>4. signature' = [signature EXCEPT ![t] =
                        {Serial!Signature(private_key, m) : m \in request[t]}]
    BY <2>2
  <2>5. signature' \in [Threads -> SUBSET Serial!Signatures]
    <3>1. \A m \in request[t] : Serial!Signature(private_key, m) \in Serial!Signatures
      BY <2>1, <2>3 DEF Serial!Signature, Serial!Signatures, Serial!DigestInfo
    <3>2. {Serial!Signature(private_key, m) : m \in request[t]} \in SUBSET Serial!Signatures
      BY <3>1
    <3>3. QED
      BY <2>4, <3>2 DEF SignerTypeOK
  <2>6. signature'[t] # {}
    BY <2>3, <2>4 DEF SignerTypeOK
  <2>7. \A u \in Threads : outcome'[u] = "signed" <=> signature'[u] # {}
    BY <2>4, <2>6 DEF SignerTypeOK
  <2>8. /\ operation' \in {"none"}
        /\ stage' \in [Threads -> {"idle", "locking", "locked", "signing", "unlocking",
                                   "returned"}]
    BY DEF SignerTypeOK
  <2>9. QED
    BY <2>5, <2>7, <2>8 DEF SignerTypeOK
<1>2. Exclusive'
  BY DEF Exclusive, Inside, SignerTypeOK, PoisonKeepsOut
<1>3. OperationOwned'
  BY DEF OperationOwned, Mechanism, Exclusive, Inside, SignerTypeOK
<1>4. PoisonKeepsOut' /\ CallsInOrder'
  BY DEF PoisonKeepsOut, CallsInOrder, SignerTypeOK, Exclusive, Inside
<1>5. Isolated'
  BY DEF Isolated, SignerTypeOK
<1>6. QED
  BY <1>1, <1>2, <1>3, <1>4, <1>5

LEMMA CSignFailsPreserves ==
    ASSUME IInv, NEW t \in Threads, C_SignFails(t)
    PROVE  IInv'
<1> USE ThreadsAssumption DEF IInv, C_SignFails, Errors, configuration, signer, session, mutex
<1>1. SignerTypeOK'
  BY DEF SignerTypeOK, Mechanism, CallsInOrder
<1>2. Exclusive'
  BY DEF Exclusive, Inside, SignerTypeOK, PoisonKeepsOut
<1>3. OperationOwned'
  BY DEF OperationOwned, Mechanism, Exclusive, Inside, SignerTypeOK
<1>4. PoisonKeepsOut' /\ CallsInOrder'
  BY DEF PoisonKeepsOut, CallsInOrder, SignerTypeOK, Exclusive, Inside
<1>5. Isolated'
  BY DEF Isolated, SignerTypeOK, OperationOwned, Exclusive, Inside, PoisonKeepsOut
<1>6. QED
  BY <1>1, <1>2, <1>3, <1>4, <1>5

LEMMA UnlockPreserves ==
    ASSUME IInv, NEW t \in Threads, Unlock(t)
    PROVE  IInv'
<1> USE ThreadsAssumption DEF IInv, Unlock, configuration, signer, session, mutex
<1>1. SignerTypeOK'
  BY DEF SignerTypeOK, Mechanism, CallsInOrder
<1>2. Exclusive'
  BY DEF Exclusive, Inside, SignerTypeOK, PoisonKeepsOut
<1>3. OperationOwned'
  BY DEF OperationOwned, Mechanism, Exclusive, Inside, SignerTypeOK
<1>4. PoisonKeepsOut' /\ CallsInOrder'
  BY DEF PoisonKeepsOut, CallsInOrder, SignerTypeOK, Exclusive, Inside
<1>5. Isolated'
  BY DEF Isolated, SignerTypeOK
<1>6. QED
  BY <1>1, <1>2, <1>3, <1>4, <1>5

LEMMA PanicPreserves ==
    ASSUME IInv, NEW t \in Threads, Panic(t)
    PROVE  IInv'
<1> USE ThreadsAssumption DEF IInv, Panic, configuration, signer, session, mutex
<1>1. SignerTypeOK'
  BY DEF SignerTypeOK, Mechanism, CallsInOrder
<1>2. Exclusive'
  BY DEF Exclusive, Inside, SignerTypeOK, PoisonKeepsOut
<1>3. OperationOwned'
  BY DEF OperationOwned, Mechanism, Exclusive, Inside, SignerTypeOK
<1>4. PoisonKeepsOut' /\ CallsInOrder'
  BY DEF PoisonKeepsOut, CallsInOrder, SignerTypeOK, Exclusive, Inside
<1>5. Isolated'
  BY DEF Isolated, SignerTypeOK
<1>6. QED
  BY <1>1, <1>2, <1>3, <1>4, <1>5

----------------------------------------------------------------------------
(* The theorems *)

LEMMA StepPreserves == IInv /\ [SignerNext]_signer_vars => IInv'
<1> SUFFICES ASSUME IInv, [SignerNext]_signer_vars PROVE IInv'
  OBVIOUS
<1>1. CASE UNCHANGED signer_vars
  BY <1>1 DEF signer_vars, configuration, signer, session, mutex, calls, IInv, SignerTypeOK,
              Exclusive, Inside, OperationOwned, Mechanism, PoisonKeepsOut, CallsInOrder, Isolated
<1>2. ASSUME NEW k \in Keys, Open(k) PROVE IInv'
  BY <1>2, OpenPreserves
<1>3. CASE OpenFails
  BY <1>3, OpenFailsPreserves
<1>4. CASE SessionLost
  BY <1>4, SessionLostPreserves
<1>5. ASSUME NEW t \in Threads, Calling(t) PROVE IInv'
  BY <1>5, LockPreserves, LockPoisonedPreserves, CSignInitPreserves, CSignInitFailsPreserves,
     CSignPreserves, CSignFailsPreserves, UnlockPreserves DEF Calling
<1>6. ASSUME NEW t \in Threads, Panic(t) PROVE IInv'
  BY <1>6, PanicPreserves
<1>7. ASSUME NEW t \in Threads, NEW m \in Messages, SignMessage(t, m) PROVE IInv'
  BY <1>7, SignMessagePreserves
<1>8. QED
  BY <1>1, <1>2, <1>3, <1>4, <1>5, <1>6, <1>7 DEF SignerNext

\* The signer's state stays well-formed, and the calls of it apart.
THEOREM SignerInvariant == SignerSpec => []IInv
BY InitInvariant, StepPreserves, PTL DEF SignerSpec

\* No thread's call fails because of what another's left on, or took from,
\* the session (Pkcs11Signer::sign_message holds the mutex for all of it).
THEOREM Isolation == SignerSpec => []Isolated
<1>1. IInv => Isolated
  BY DEF IInv
<1>2. QED
  BY <1>1, SignerInvariant, PTL

----------------------------------------------------------------------------
(* The shared signer implements SerialSigner *)

\* The variables of SerialSigner, as Serial reads them off the signer's.
Key    == IF opened = "ok" THEN {private_key} ELSE {}
Usable == opened = "ok" /\ alive /\ ~poisoned
Status == [t \in Threads |->
              IF outcome[t] = "signed" THEN "signed"
              ELSE IF outcome[t] # "none" THEN "failed"
              ELSE IF stage[t] = "idle" THEN "idle" ELSE "waiting"]

Stutters ==
    /\ Key' = Key /\ Usable' = Usable /\ Status' = Status
    /\ request' = request /\ signature' = signature

LEMMA StutterRefines == Stutters => UNCHANGED Serial!vars
BY DEF Stutters, Key, Usable, Status, Serial!vars

LEMMA OpenRefines ==
    ASSUME IInv, NEW k \in Keys, Open(k)
    PROVE  Serial!Next
<1>1. private_key' \in Keys
  BY KeysAssumption DEF Open, IInv, SignerTypeOK
<1>2. Serial!Open(private_key')
  BY DEF Open, IInv, CallsInOrder, session, mutex, calls, Serial!Open
<1>3. QED
  BY <1>1, <1>2 DEF Serial!Next

LEMMA SignMessageRefines ==
    ASSUME IInv, NEW t \in Threads, NEW m \in Messages, SignMessage(t, m)
    PROVE  Serial!Next
<1>1. Serial!Ask(t, m)
  BY DEF IInv, SignerTypeOK, CallsInOrder, SignMessage, signer, session, mutex, Serial!Ask
<1>2. QED
  BY <1>1 DEF Serial!Next

LEMMA CSignRefines ==
    ASSUME IInv, NEW t \in Threads, C_Sign(t)
    PROVE  Serial!Next
<1>1. opened = "ok" /\ alive /\ ~poisoned
  BY ThreadsAssumption DEF IInv, SignerTypeOK, CallsInOrder, Exclusive, Inside, PoisonKeepsOut, C_Sign
<1>2. signature' = [signature EXCEPT ![t] =
                      {Serial!Signature(private_key, m) : m \in request[t]}]
  <2>1. \A m \in request[t] : Signed(Payload(m)) = Serial!Signature(private_key, m)
    BY SignsTheMessage
  <2>2. {Signed(Payload(m)) : m \in request[t]}
          = {Serial!Signature(private_key, m) : m \in request[t]}
    BY <2>1
  <2>3. QED
    BY <2>2 DEF C_Sign
<1>3. Serial!Answer(t)
  BY <1>1, <1>2 DEF IInv, SignerTypeOK, CallsInOrder, C_Sign, signer, mutex, Serial!Answer
<1>4. QED
  BY <1>3 DEF Serial!Next

\* An error of any kind is one of SerialSigner's.
LEMMA FailureRefines ==
    ASSUME IInv, NEW t \in Threads, stage[t] \notin {"idle", "unlocking", "returned"},
           NEW error, error \notin {"none", "signed"},
           NEW to, to # "idle",
           outcome' = [outcome EXCEPT ![t] = error],
           stage' = [stage EXCEPT ![t] = to],
           Key' = Key, Usable' \in {Usable, FALSE}, UNCHANGED << request, signature >>
    PROVE  Serial!Next
<1>1. Serial!Fail(t)
  BY DEF IInv, SignerTypeOK, CallsInOrder, Key, Usable, Serial!Fail
<1>2. QED
  BY <1>1 DEF Serial!Next

LEMMA CallingRefines ==
    ASSUME IInv, NEW t \in Threads, Calling(t)
    PROVE  [Serial!Next]_(Serial!vars)
<1> USE DEF signer, session, mutex, Key, Usable
<1>1. ASSUME Lock(t) \/ C_SignInit(t) \/ Unlock(t)
      PROVE  Stutters
  <2>1. outcome' = outcome
    BY <1>1 DEF Lock, C_SignInit, Unlock
  <2>2. \A u \in Threads : outcome[u] # "none" \/ (stage'[u] = "idle" <=> stage[u] = "idle")
    BY <1>1 DEF Lock, C_SignInit, Unlock, IInv, SignerTypeOK, CallsInOrder
  <2>3. Status' = Status
    BY <2>1, <2>2 DEF Status
  <2>4. QED
    BY <1>1, <2>3 DEF Lock, C_SignInit, Unlock, Stutters
<1>2. CASE LockPoisoned(t)
  BY <1>2, FailureRefines DEF LockPoisoned
<1>3. CASE C_SignInitFails(t)
  BY <1>3, FailureRefines DEF C_SignInitFails, Errors
<1>4. CASE C_SignFails(t)
  BY <1>4, FailureRefines DEF C_SignFails, Errors
<1>5. CASE C_Sign(t)
  BY <1>5, CSignRefines
<1>6. QED
  BY <1>1, <1>2, <1>3, <1>4, <1>5, StutterRefines DEF Calling

LEMMA StepRefines == IInv /\ [SignerNext]_signer_vars => [Serial!Next]_(Serial!vars)
<1> SUFFICES ASSUME IInv, [SignerNext]_signer_vars PROVE [Serial!Next]_(Serial!vars)
  OBVIOUS
<1> USE DEF configuration, signer, session, mutex, calls
<1>1. CASE UNCHANGED signer_vars
  BY <1>1, StutterRefines DEF signer_vars, Stutters, Key, Usable, Status
<1>2. ASSUME NEW k \in Keys, Open(k) PROVE Serial!Next
  BY <1>2, OpenRefines
<1>3. CASE OpenFails
  BY <1>3, StutterRefines DEF OpenFails, Stutters, Key, Usable, Status
<1>4. CASE SessionLost
  BY <1>4 DEF SessionLost, Serial!Next, Serial!Break
<1>5. ASSUME NEW t \in Threads, Calling(t) PROVE [Serial!Next]_(Serial!vars)
  BY <1>5, CallingRefines
<1>6. ASSUME NEW t \in Threads, Panic(t) PROVE Serial!Next
  BY <1>6, FailureRefines DEF Panic, Key, Usable
<1>7. ASSUME NEW t \in Threads, NEW m \in Messages, SignMessage(t, m) PROVE Serial!Next
  BY <1>7, SignMessageRefines
<1>8. QED
  BY <1>1, <1>2, <1>3, <1>4, <1>5, <1>6, <1>7 DEF SignerNext

LEMMA InitRefines == SignerInit => Serial!Init
BY DEF SignerInit, Serial!Init

\* Threads that share a Pkcs11Signer see a signer that answers each of them as
\* if it were alone, and that is broken for good once its session is lost or
\* its mutex poisoned.
THEOREM Serialization == SignerSpec => SerialPromise
BY InitRefines, StepRefines, SignerInvariant, PTL DEF SignerSpec, SerialPromise, Serial!Spec

----------------------------------------------------------------------------
(* The threads of a signing service *)

\* TypeOK, what it takes for it to be inductive, and the invariant of the signer.
SInv ==
    /\ TypeOK /\ IInv
    /\ loaded = "ok" => bundle # << >>
    /\ backend = "memory" => key_file \in Keys
    /\ \A t \in Threads : phase[t] # "received" => loaded = "ok"

LEMMA SignerCertificate ==
    ASSUME SInv, loaded = "ok"
    PROVE  signer_cert.key \in Keys
<1>1. bundle \in Seq(Certs) /\ bundle # << >>
  BY SigningAssumption DEF SInv, TypeOK
<1>2. signer_cert \in Certs
  BY <1>1 DEF signer_cert
<1>3. QED
  BY <1>2, SigningAssumption

LEMMA AskedMessage ==
    ASSUME SInv, NEW t \in Threads
    PROVE  signed_attributes(job[t]) \in Messages
<1>1. job[t] \in Requests
  BY SigningAssumption DEF SInv, TypeOK
<1>2. QED
  BY <1>1, MessagesAssumption

LEMMA StepIsSigners == SInv /\ [Next]_vars => [SignerNext]_signer_vars
<1> SUFFICES ASSUME SInv, [Next]_vars PROVE [SignerNext]_signer_vars
  OBVIOUS
<1>1. CASE UNCHANGED vars
  BY <1>1 DEF vars
<1>2. CASE LoadCertificates \/ LoadFails
  BY <1>2 DEF LoadCertificates, LoadFails
<1>3. CASE OpenToken
  BY <1>3, SignerCertificate DEF OpenToken, SignerNext
<1>4. CASE Fault
  BY <1>4 DEF Fault, SignerNext
<1>5. ASSUME NEW t \in Threads, Step(t) PROVE [SignerNext]_signer_vars
  <2>1. CASE AskToken(t)
    BY <2>1, AskedMessage DEF AskToken, SignerNext
  <2>2. CASE TokenStep(t)
    BY <2>2 DEF TokenStep, SignerNext
  <2>3. CASE Refuse(t) \/ BuildSignedData(t) \/ BuildFails(t) \/ BuildInMemory(t)
               \/ Stamp(t) \/ Normalize(t)
    BY <2>3 DEF Refuse, BuildSignedData, BuildFails, BuildInMemory, Stamp, Normalize
  <2>4. QED
    BY <1>5, <2>1, <2>2, <2>3 DEF Step
<1>6. QED
  BY <1>1, <1>2, <1>3, <1>4, <1>5 DEF Next

LEMMA BuiltBlob ==
    ASSUME SInv, loaded = "ok", NEW t \in Threads, NEW sig \in Serial!Signatures
    PROVE  SignedData(job[t], sig) \in SignedDatas
<1>1. job[t] \in Requests
  BY SigningAssumption DEF SInv, TypeOK
<1>2. bundle \in Bundles /\ signer_cert \in Certs
  <2>1. bundle \in Seq(Certs) /\ bundle # << >>
    BY SigningAssumption DEF SInv, TypeOK
  <2>2. QED
    BY <2>1 DEF signer_cert, SInv, TypeOK
<1>3. signed_attributes(job[t]) \in Messages
  BY AskedMessage
<1>4. QED
  BY <1>1, <1>2, <1>3 DEF SignedData, SignedDatas, all_certs

\* A step of one thread that leaves the signer alone.
LEMMA BlobStep ==
    ASSUME SInv, IInv', NEW t \in Threads, NEW B, B \subseteq SignedDatas,
           NEW to \in {"built", "stamped", "done", "failed"},
           B # {} <=> to # "failed",
           loaded = "ok",
           blob' = [blob EXCEPT ![t] = B],
           phase' = [phase EXCEPT ![t] = to],
           UNCHANGED << signer_vars, inputs, loaded >>
    PROVE  SInv'
<1>1. blob' \in [Threads -> SUBSET SignedDatas]
  BY DEF SInv, TypeOK
<1>2. phase' \in [Threads -> {"received", "signing", "built", "stamped", "done", "failed"}]
  BY DEF SInv, TypeOK
<1>3. \A u \in Threads : /\ phase'[u] = "received" => stage'[u] = "idle"
                         /\ blob'[u] # {} <=> phase'[u] \in {"built", "stamped", "done"}
  BY DEF SInv, TypeOK, signer_vars, calls
<1>4. UNCHANGED << backend, bundle, key_file, job, loaded >>
  BY DEF inputs
<1>5. SignerTypeOK'
  BY DEF IInv
<1>6. TypeOK'
  BY <1>1, <1>2, <1>3, <1>4, <1>5 DEF SInv, TypeOK
<1>7. QED
  BY <1>4, <1>6 DEF SInv

LEMMA InitInv == Init => SInv
<1> SUFFICES ASSUME Init PROVE SInv
  OBVIOUS
<1>1. IInv
  BY InitInvariant DEF Init
<1>2. QED
  BY <1>1 DEF Init, SignerInit, SInv, TypeOK, IInv

LEMMA StepInv == SInv /\ [Next]_vars => SInv'
<1> SUFFICES ASSUME SInv, [Next]_vars PROVE SInv'
  OBVIOUS
<1>1. IInv' /\ SignerTypeOK'
  BY StepIsSigners, StepPreserves DEF SInv, IInv
<1>2. CASE UNCHANGED vars
  BY <1>1, <1>2 DEF vars, inputs, signer_vars, calls, SInv, TypeOK
<1>3. CASE LoadCertificates \/ LoadFails \/ OpenToken
  BY <1>1, <1>3 DEF LoadCertificates, LoadFails, OpenToken, Open, OpenFails, inputs,
                    signer_vars, calls, SInv, TypeOK
<1>4. CASE Fault
  BY <1>1, <1>4 DEF Fault, SessionLost, Panic, inputs, calls, SInv, TypeOK, IInv, SignerTypeOK
<1>5. ASSUME NEW t \in Threads, Step(t) PROVE SInv'
  <2>1. CASE Refuse(t)
    BY <1>1, <2>1 DEF Refuse, Ready, Go, inputs, signer_vars, calls, SInv, TypeOK
  <2>2. CASE AskToken(t)
    BY <1>1, <2>2 DEF AskToken, Ready, SignMessage, Go, inputs, SInv, TypeOK, IInv, SignerTypeOK
  <2>3. CASE TokenStep(t)
    BY <1>1, <2>3 DEF TokenStep, Calling, Lock, LockPoisoned, C_SignInit, C_SignInitFails, C_Sign,
                      C_SignFails, Unlock, inputs, SInv, TypeOK, IInv, SignerTypeOK
  <2>4. CASE BuildSignedData(t)
    <3> DEFINE B == {SignedData(job[t], sig) : sig \in signature[t]}
    <3>1. loaded = "ok" /\ signature[t] \subseteq Serial!Signatures /\ signature[t] # {}
      BY <2>4 DEF BuildSignedData, SInv, IInv, SignerTypeOK
    <3>2. B \subseteq SignedDatas /\ B # {}
      BY <3>1, BuiltBlob
    <3>3. QED
      BY <1>1, <2>4, <3>1, <3>2, BlobStep DEF BuildSignedData, Go
  <2>5. CASE BuildFails(t)
    BY <1>1, <2>5 DEF BuildFails, Go, inputs, signer_vars, calls, SInv, TypeOK
  <2>6. CASE BuildInMemory(t)
    <3> DEFINE b == SignedData(job[t], Serial!Signature(key_file, signed_attributes(job[t])))
    <3>1. loaded = "ok" /\ backend = "memory"
      BY <2>6 DEF BuildInMemory, Ready
    <3>2. key_file \in Keys
      BY <3>1 DEF SInv
    <3>3. Serial!Signature(key_file, signed_attributes(job[t])) \in Serial!Signatures
      BY <3>2, AskedMessage DEF Serial!Signature, Serial!Signatures, Serial!DigestInfo
    <3>4. b \in SignedDatas
      BY <3>1, <3>3, BuiltBlob
    <3>5. QED
      BY <1>1, <2>6, <3>1, <3>4, BlobStep DEF BuildInMemory, Go
  <2>7. CASE Stamp(t)
    <3>1. phase[t] = "built" /\ loaded = "ok" /\ blob[t] # {} /\ blob[t] \subseteq SignedDatas
      BY <2>7 DEF Stamp, SInv, TypeOK
    <3> DEFINE B == {[b EXCEPT !.stamped = TRUE, !.wrapped = FALSE] : b \in blob[t]}
    <3>2. B \subseteq SignedDatas /\ B # {}
      BY <3>1 DEF SignedDatas
    <3>3. CASE blob' = [blob EXCEPT ![t] = B] /\ Go(t, "stamped")
      BY <1>1, <2>7, <3>1, <3>2, <3>3, BlobStep DEF Stamp, Go
    <3>4. CASE blob' = [blob EXCEPT ![t] = {}] /\ Go(t, "failed")
      BY <1>1, <2>7, <3>1, <3>4, BlobStep DEF Stamp, Go
    <3>5. QED
      BY <2>7, <3>3, <3>4 DEF Stamp
  <2>8. CASE Normalize(t)
    <3>1. loaded = "ok" /\ blob[t] # {} /\ blob[t] \subseteq SignedDatas
      BY <2>8 DEF Normalize, SInv, TypeOK
    <3> DEFINE B == {[b EXCEPT !.wrapped = FALSE] : b \in blob[t]}
    <3>2. B \subseteq SignedDatas /\ B # {}
      BY <3>1 DEF SignedDatas
    <3>3. QED
      BY <1>1, <2>8, <3>1, <3>2, BlobStep DEF Normalize, Go
  <2>9. QED
    BY <1>5, <2>1, <2>2, <2>3, <2>4, <2>5, <2>6, <2>7, <2>8 DEF Step
<1>6. QED
  BY <1>2, <1>3, <1>4, <1>5 DEF Next

\* Threads that make signatures use the signer as Pkcs11 says it is used.
THEOREM UsesSigner == Spec => SignerSpec
<1>1. Init => SInv /\ SignerInit
  BY InitInv DEF Init
<1>2. QED
  BY <1>1, StepInv, StepIsSigners, PTL DEF Spec, SignerSpec

\* A thread has a signature to embed exactly when it has built one, whatever
\* the others and the token do (sign_spc_indirect_data returns on an error).
THEOREM TypeCorrect == Spec => []TypeOK
<1>1. SInv => TypeOK
  BY DEF SInv
<1>2. QED
  BY <1>1, InitInv, StepInv, PTL DEF Spec

\* No signing fails because of another.
THEOREM SigningIsolated == Spec => []Isolated
BY UsesSigner, Isolation, PTL

\* A service that signs from several threads sees a serial signer.
THEOREM SigningSerialized == Spec => SerialPromise
BY UsesSigner, Serialization, PTL

----------------------------------------------------------------------------
(* What is signed verifies *)

\* The signer was opened with the one key asked for, and what a thread got
\* from it is its own request, signed with that key.
OwnSignatures ==
    /\ opened = "ok" => find_objects = {private_key}
    /\ \A t \in Threads : \A s \in signature[t] :
           opened = "ok" /\ \E m \in request[t] : s = Serial!Signature(private_key, m)

SigningKey == IF backend = "token" THEN private_key ELSE key_file

\* A blob of thread t, which asked for r: what build_der made, however far the
\* blob has come since.
Made(b, r) ==
    /\ b.content = content(r) /\ b.attributes = signed_attributes(r)
    /\ b.signature = Serial!Signature(SigningKey, signed_attributes(r))
    /\ b.signer = Head(bundle) /\ b.certificates = bundle

BlobsAsMade ==
    \A t \in Threads :
        /\ phase[t] = "signing" =>
               backend = "token" /\ opened = "ok" /\ request[t] = {signed_attributes(job[t])}
        /\ \A b \in blob[t] :
               /\ Made(b, job[t])
               /\ backend = "token" => opened = "ok"
               /\ phase[t] = "done" => ~b.wrapped

VInv == SInv /\ OwnSignatures /\ BlobsAsMade

\* A step that leaves alone what a blob was made from, and the blobs.
LEMMA BlobsKept ==
    ASSUME BlobsAsMade,
           UNCHANGED << inputs, blob >>,
           \A t \in Threads : phase'[t] # phase[t] => phase'[t] \notin {"signing", "done"},
           opened = "ok" => opened' = "ok" /\ private_key' = private_key,
           backend = "token" \/ private_key' = private_key,
           \A t \in Threads : phase'[t] = "signing" => request'[t] = request[t]
    PROVE  BlobsAsMade'
<1> SUFFICES ASSUME NEW t \in Threads
             PROVE  /\ phase'[t] = "signing" =>
                           backend = "token" /\ opened' = "ok"
                           /\ request'[t] = {signed_attributes(job[t])}
                    /\ \A b \in blob[t] :
                           /\ Made(b, job[t])'
                           /\ backend = "token" => opened' = "ok"
                           /\ phase'[t] = "done" => ~b.wrapped
  BY DEF BlobsAsMade, inputs, Made, signed_attributes, content, pe_digest, algorithm
<1>1. ASSUME phase'[t] = "signing"
      PROVE  /\ backend = "token" /\ opened' = "ok"
             /\ request'[t] = {signed_attributes(job[t])}
  BY <1>1 DEF BlobsAsMade
<1>2. ASSUME NEW b \in blob[t] PROVE Made(b, job[t])' /\ (backend = "token" => opened' = "ok")
  <2>1. Made(b, job[t]) /\ (backend = "token" => opened = "ok")
    BY DEF BlobsAsMade
  <2>2. SigningKey' = SigningKey
    BY <2>1 DEF SigningKey, inputs
  <2> QED BY <2>1, <2>2 DEF Made, inputs
<1> QED BY <1>1, <1>2 DEF BlobsAsMade

\* A step of one thread that puts B in the place of its blob.
LEMMA BlobsPut ==
    ASSUME SInv, BlobsAsMade, NEW t \in Threads, NEW B,
           NEW to \in {"built", "stamped", "done", "failed"},
           blob' = [blob EXCEPT ![t] = B],
           phase' = [phase EXCEPT ![t] = to],
           UNCHANGED << signer_vars, inputs >>,
           \A b \in B : /\ Made(b, job[t])
                        /\ backend = "token" => opened = "ok"
                        /\ to = "done" => ~b.wrapped
    PROVE  BlobsAsMade'
<1>1. phase'[t] = to /\ blob'[t] = B
  BY DEF SInv, TypeOK
<1>2. \A u \in Threads \ {t} : phase'[u] = phase[u] /\ blob'[u] = blob[u]
  BY DEF SInv, TypeOK
<1>3. \A b, r : Made(b, r)' <=> Made(b, r)
  BY DEF Made, SigningKey, inputs, signer_vars, signer
<1>4. UNCHANGED << backend, opened, request, job >>
  BY DEF inputs, signer_vars, signer, calls
<1> QED BY <1>1, <1>2, <1>3, <1>4 DEF BlobsAsMade

LEMMA InitMade == Init => OwnSignatures /\ BlobsAsMade
BY DEF Init, SignerInit, OwnSignatures, BlobsAsMade

LEMMA OpenMade ==
    ASSUME SInv, OwnSignatures, BlobsAsMade, OpenToken
    PROVE  OwnSignatures' /\ BlobsAsMade'
<1>1. /\ backend = "token" /\ opened = "none"
      /\ UNCHANGED << inputs, blob, phase, configuration, calls >>
  BY DEF OpenToken, Open, OpenFails
<1>2. opened' = "ok" => find_objects = {private_key'}
  BY DEF OpenToken, Open, OpenFails, find_private_key
<1>3. find_objects' = find_objects
  BY <1>1 DEF configuration, find_objects, Named
<1>4. \A t \in Threads : signature[t] = {}
  BY <1>1 DEF OwnSignatures
<1>5. OwnSignatures'
  BY <1>1, <1>2, <1>3, <1>4 DEF OwnSignatures, calls
<1>6. BlobsAsMade'
  BY <1>1, BlobsKept DEF calls
<1> QED BY <1>5, <1>6

\* A step of a call keeps what it is about; a signature is made with the key
\* that the signer was opened with.
LEMMA CallMade ==
    ASSUME SInv, OwnSignatures, NEW t \in Threads, Calling(t)
    PROVE  OwnSignatures' /\ UNCHANGED << configuration, signer, request >>
<1>1. UNCHANGED << configuration, signer, request >>
  BY DEF Calling, Lock, LockPoisoned, C_SignInit, C_SignInitFails, C_Sign, C_SignFails, Unlock
<1>2. UNCHANGED << opened, private_key, find_objects >>
  BY <1>1 DEF configuration, signer, find_objects, Named
<1>3. CASE C_Sign(t)
  <2>1. opened = "ok" /\ signature \in [Threads -> SUBSET Serial!Signatures]
    BY <1>3 DEF C_Sign, SInv, IInv, CallsInOrder, SignerTypeOK
  <2>2. signature' = [signature EXCEPT ![t] = {Signed(Payload(m)) : m \in request[t]}]
    BY <1>3 DEF C_Sign
  <2>3. \A s \in signature'[t] :
            \E m \in request[t] : s = Serial!Signature(private_key, m)
    <3>1. \A m : Signed(Payload(m)) = Serial!Signature(private_key, m)
      BY <1>3, SignsTheMessage DEF SInv
    <3> QED BY <2>1, <2>2, <3>1
  <2>4. \A u \in Threads \ {t} : signature'[u] = signature[u]
    BY <2>1, <2>2
  <2> QED BY <1>1, <1>2, <2>1, <2>3, <2>4 DEF OwnSignatures, Serial!Signature, Serial!DigestInfo
<1>4. CASE ~C_Sign(t)
  <2>1. signature' = signature
    BY <1>4 DEF Calling, Lock, LockPoisoned, C_SignInit, C_SignInitFails, C_SignFails, Unlock
  <2> QED BY <1>1, <1>2, <2>1 DEF OwnSignatures, Serial!Signature, Serial!DigestInfo
<1> QED BY <1>1, <1>3, <1>4

\* What changes nothing that OwnSignatures speaks of.
LEMMA SignaturesKept ==
    ASSUME OwnSignatures, UNCHANGED << configuration, signer, request, signature >>
    PROVE  OwnSignatures'
BY ZenonT(40) DEF OwnSignatures, configuration, signer, find_objects, Named, Serial!Signature,
       Serial!DigestInfo

LEMMA StepMade ==
    ASSUME VInv, [Next]_vars
    PROVE  OwnSignatures' /\ BlobsAsMade'
<1> USE DEF VInv
<1>1. CASE UNCHANGED vars
  BY <1>1, SignaturesKept, BlobsKept DEF vars, signer_vars, signer, calls
<1>2. CASE LoadCertificates \/ LoadFails
  BY <1>2, SignaturesKept, BlobsKept DEF LoadCertificates, LoadFails, signer_vars, signer, calls
<1>3. CASE OpenToken
  BY <1>3, OpenMade
<1>4. CASE Fault
  <2>1. UNCHANGED << inputs, phase, blob, configuration, signer, request, signature >>
    BY <1>4 DEF Fault, SessionLost, Panic, calls
  <2> QED BY <2>1, SignaturesKept, BlobsKept DEF signer
<1>5. ASSUME NEW t \in Threads, Step(t) PROVE OwnSignatures' /\ BlobsAsMade'
  <2>1. CASE Refuse(t)
    BY <2>1, SignaturesKept, BlobsKept DEF Refuse, Go, SInv, TypeOK, signer_vars, signer, calls
  <2>2. CASE AskToken(t)
    <3>1. /\ UNCHANGED << configuration, signer, signature, inputs, blob >>
          /\ request' = [request EXCEPT ![t] = {signed_attributes(job[t])}]
          /\ phase' = [phase EXCEPT ![t] = "signing"]
          /\ opened = "ok" /\ backend = "token" /\ stage[t] = "idle"
      BY <2>2 DEF AskToken, SignMessage, Go
    <3>2. signature[t] = {}
      BY <3>1 DEF SInv, IInv, SignerTypeOK, CallsInOrder
    <3>3. /\ request'[t] = {signed_attributes(job[t])} /\ phase'[t] = "signing"
          /\ \A u \in Threads \ {t} : request'[u] = request[u] /\ phase'[u] = phase[u]
      BY <3>1 DEF SInv, IInv, SignerTypeOK, TypeOK
    <3>4. OwnSignatures'
      BY <3>1, <3>2, <3>3
         DEF OwnSignatures, configuration, signer, find_objects, Named, Serial!Signature,
             Serial!DigestInfo
    <3>5. \A b, r : Made(b, r)' <=> Made(b, r)
      BY <3>1 DEF Made, SigningKey, inputs, signer
    <3>6. UNCHANGED << backend, opened, job, blob >>
      BY <3>1 DEF inputs, signer
    <3>7. signed_attributes(job[t])' = signed_attributes(job[t])
      BY <3>6 DEF signed_attributes, content, pe_digest, algorithm
    <3> QED BY <3>1, <3>3, <3>4, <3>5, <3>6 DEF BlobsAsMade
  <2>3. CASE TokenStep(t)
    BY <2>3, CallMade, BlobsKept DEF TokenStep, signer
  <2>4. CASE BuildSignedData(t)
    <3> DEFINE B == {SignedData(job[t], s) : s \in signature[t]}
    <3>1. /\ backend = "token" /\ opened = "ok"
          /\ request[t] = {signed_attributes(job[t])}
      BY <2>4 DEF BuildSignedData, BlobsAsMade
    <3>2. \A s \in signature[t] : s = Serial!Signature(SigningKey, signed_attributes(job[t]))
      BY <3>1 DEF OwnSignatures, SigningKey
    <3>3. \A b \in B : Made(b, job[t])
      BY <3>2 DEF SignedData, Made, signer_cert, all_certs
    <3>4. UNCHANGED << signer_vars, inputs >> /\ blob' = [blob EXCEPT ![t] = B]
          /\ phase' = [phase EXCEPT ![t] = "built"]
      BY <2>4 DEF BuildSignedData, Go
    <3> HIDE DEF B
    <3>5. BlobsAsMade'
      BY <3>1, <3>3, <3>4, BlobsPut
    <3> QED BY <3>4, <3>5, SignaturesKept DEF signer_vars, calls
  <2>5. CASE BuildFails(t)
    BY <2>5, SignaturesKept, BlobsKept DEF BuildFails, Go, SInv, TypeOK, signer_vars, signer, calls
  <2>6. CASE BuildInMemory(t)
    <3> DEFINE sig == Serial!Signature(key_file, signed_attributes(job[t]))
               B   == {SignedData(job[t], sig)}
    <3>1. \A b \in B : Made(b, job[t]) /\ backend # "token"
      BY <2>6 DEF BuildInMemory, SignedData, Made, signer_cert, all_certs, SigningKey
    <3>2. UNCHANGED << signer_vars, inputs >> /\ blob' = [blob EXCEPT ![t] = B]
          /\ phase' = [phase EXCEPT ![t] = "built"]
      BY <2>6 DEF BuildInMemory, Go
    <3> HIDE DEF B
    <3>3. BlobsAsMade'
      BY <3>1, <3>2, BlobsPut
    <3> QED BY <3>2, <3>3, SignaturesKept DEF signer_vars, calls
  <2>7. CASE Stamp(t)
    <3> DEFINE B == {[b EXCEPT !.stamped = TRUE, !.wrapped = FALSE] : b \in blob[t]}
    <3>1. UNCHANGED << signer_vars, inputs >>
      BY <2>7 DEF Stamp
    <3>2. ASSUME NEW c \in B PROVE Made(c, job[t]) /\ (backend = "token" => opened = "ok")
      <4>1. PICK b \in blob[t] : c = [b EXCEPT !.stamped = TRUE, !.wrapped = FALSE]
        BY Zenon
      <4>2. b \in SignedDatas
        BY DEF SInv, TypeOK
      <4>3. /\ c.content = b.content /\ c.attributes = b.attributes
            /\ c.signature = b.signature /\ c.signer = b.signer
            /\ c.certificates = b.certificates
        BY <4>1, <4>2 DEF SignedDatas
      <4> QED BY <4>3 DEF BlobsAsMade, Made
    <3>3. \/ blob' = [blob EXCEPT ![t] = B] /\ phase' = [phase EXCEPT ![t] = "stamped"]
          \/ blob' = [blob EXCEPT ![t] = {}] /\ phase' = [phase EXCEPT ![t] = "failed"]
      BY <2>7 DEF Stamp, Go
    <3> HIDE DEF B
    <3>4. BlobsAsMade'
      <4>1. CASE blob' = [blob EXCEPT ![t] = B] /\ phase' = [phase EXCEPT ![t] = "stamped"]
        BY <3>1, <3>2, <4>1, BlobsPut
      <4>2. CASE blob' = [blob EXCEPT ![t] = {}] /\ phase' = [phase EXCEPT ![t] = "failed"]
        <5> DEFINE C == {}
        <5>1. /\ blob' = [blob EXCEPT ![t] = C]
              /\ \A b \in C : Made(b, job[t]) /\ (backend = "token" => opened = "ok")
          BY <4>2
        <5> HIDE DEF C
        <5> QED BY <3>1, <4>2, <5>1, BlobsPut
      <4> QED BY <3>3, <4>1, <4>2
    <3> QED BY <3>1, <3>4, SignaturesKept DEF signer_vars, calls
  <2>8. CASE Normalize(t)
    <3> DEFINE B == {[b EXCEPT !.wrapped = FALSE] : b \in blob[t]}
    <3>1. UNCHANGED << signer_vars, inputs >> /\ blob' = [blob EXCEPT ![t] = B]
          /\ phase' = [phase EXCEPT ![t] = "done"]
      BY <2>8 DEF Normalize, Go
    <3>2. \A b \in B : Made(b, job[t]) /\ (backend = "token" => opened = "ok") /\ ~b.wrapped
      BY DEF BlobsAsMade, Made, SInv, TypeOK, SignedDatas
    <3> HIDE DEF B
    <3>3. BlobsAsMade'
      BY <3>1, <3>2, BlobsPut
    <3> QED BY <3>1, <3>3, SignaturesKept DEF signer_vars, calls
  <2> QED BY <1>5, <2>1, <2>2, <2>3, <2>4, <2>5, <2>6, <2>7, <2>8 DEF Step
<1> QED BY <1>1, <1>2, <1>3, <1>4, <1>5 DEF Next

LEMMA MadeInvariant == Spec => []VInv
<1>1. VInv /\ [Next]_vars => VInv'
  BY StepInv, StepMade DEF VInv
<1> QED BY InitInv, InitMade, <1>1, PTL DEF Spec, VInv

\* The verifier's view of a blob of this program: one signer, of which all that
\* can be wrong is the key that signed and the chain of its certificate.
LEMMA AsItIsSeen ==
    ASSUME SInv, loaded = "ok", NEW r \in Requests, NEW b, Made(b, r), b.wrapped = FALSE
    PROVE  AsSeen(b, r.image) =
               [envelope |-> "native", content |-> "matching",
                signers  |-> << [digest      |-> TRUE,
                                 signature   |-> SigningKey = Head(bundle).key,
                                 certificate |-> IF Walk(Head(bundle), bundle)!Near
                                                 THEN "trusted" ELSE "untrusted",
                                 leaf        |-> TRUE,
                                 token       |-> "none",
                                 attributes  |-> IF b.stamped THEN << "spc_valid" >>
                                                 ELSE << >>] >>]
<1>1. b.content.digest = [image |-> r.image, hash |-> b.content.algorithm]
  BY DEF Made, content, pe_digest
<1>2. (b.attributes.message_digest = b.content) = TRUE
  BY DEF Made, signed_attributes
<1>3. (b.signature = Serial!Signature(b.signer.key, b.attributes))
          = (SigningKey = Head(bundle).key)
  BY DEF Made, Serial!Signature
<1>4. b.signer \in Range(b.certificates)
  <2>1. bundle \in Seq(Certs) /\ bundle # << >>
    BY SigningAssumption DEF SInv, TypeOK
  <2>2. 1 \in DOMAIN bundle /\ Head(bundle) = bundle[1]
    BY <2>1
  <2> QED BY <2>2 DEF Made, Range
<1>5. b.signer = Head(bundle) /\ b.certificates = bundle
  BY DEF Made
<1> QED BY <1>1, <1>2, <1>3, <1>4, <1>5 DEF AsSeen

\* What the verifier makes of such a view.
LEMMA ResultOfSeen ==
    ASSUME NEW seen, NEW key_ok \in BOOLEAN, NEW near \in BOOLEAN, NEW stamped,
           seen = [envelope |-> "native", content |-> "matching",
                   signers  |-> << [digest      |-> TRUE,
                                    signature   |-> key_ok,
                                    certificate |-> IF near THEN "trusted" ELSE "untrusted",
                                    leaf        |-> TRUE,
                                    token       |-> "none",
                                    attributes  |-> IF stamped THEN << "spc_valid" >>
                                                    ELSE << >>] >>]
    PROVE  Verifier(<< Verifier(<< >>)!SignatureResult(seen) >>)!all_ok <=> key_ok /\ near
<1> DEFINE result == Verifier(<< >>)!SignatureResult(seen)
<1>1. /\ seen.content = "matching" /\ DOMAIN seen.signers = {1}
      /\ seen.signers # << >>
      /\ seen.signers[1].digest = TRUE /\ seen.signers[1].signature = key_ok
      /\ seen.signers[1].certificate = IF near THEN "trusted" ELSE "untrusted"
      /\ seen.signers[1].token = "none"
      /\ seen.signers[1].attributes = IF stamped THEN << "spc_valid" >> ELSE << >>
  OBVIOUS
<1>2. Verifier(<< >>)!verify_digest(seen)
  BY <1>1 DEF Verifier!verify_digest
<1>3. Verifier(<< >>)!verify_crypto_signature(seen) <=> key_ok
  BY <1>1 DEF Verifier!verify_crypto_signature
<1>4. Verifier(<< >>)!First({1}) = 1
  BY DEF Verifier!First
<1>5. Verifier(<< >>)!verify_chain(seen) <=> near
  <2>1. Verifier(<< >>)!Identified(seen) = {1}
    BY <1>1 DEF Verifier!Identified
  <2>2. Verifier(<< >>)!First(Verifier(<< >>)!Identified(seen)) = 1
    BY <1>4, <2>1, Zenon
  <2>3. Verifier(<< >>)!verify_chain(seen) <=> seen.signers[1].certificate = "trusted"
    BY <2>1, <2>2, Zenon DEF Verifier!verify_chain
  <2> QED BY <1>1, <2>3
<1>6. Verifier(<< >>)!verify_timestamp(seen) # "failed"
  <2>1. CASE stamped
    <3>1. DOMAIN << "spc_valid" >> = {1} /\ << "spc_valid" >>[1] = "spc_valid"
      OBVIOUS
    <3>2. Verifier(<< >>)!SpcTokens(seen.signers[1]) = {1}
      BY <1>1, <2>1, <3>1 DEF Verifier!SpcTokens
    <3>3. Verifier(<< >>)!Stamped(seen) = {1}
      BY <1>1, <3>2 DEF Verifier!Stamped
    <3>4. Verifier(<< >>)!FirstToken(seen) = "spc_valid"
      <4>1. Verifier(<< >>)!First(Verifier(<< >>)!Stamped(seen)) = 1
        BY <1>4, <3>3, Zenon
      <4>2. Verifier(<< >>)!First(Verifier(<< >>)!SpcTokens(seen.signers[1])) = 1
        BY <1>4, <3>2, Zenon
      <4>3. seen.signers[1].attributes[1] = "spc_valid"
        BY <1>1, <2>1, <3>1
      <4> QED BY <4>1, <4>2, <4>3, Zenon DEF Verifier!FirstToken
    <3> QED BY <1>1, <3>3, <3>4 DEF Verifier!verify_timestamp
  <2>2. CASE ~stamped
    <3>1. Verifier(<< >>)!SpcTokens(seen.signers[1]) = {}
      BY <1>1, <2>2 DEF Verifier!SpcTokens
    <3>2. Verifier(<< >>)!Stamped(seen) = {}
      BY <1>1, <3>1 DEF Verifier!Stamped
    <3> QED BY <1>1, <3>2 DEF Verifier!verify_timestamp
  <2> QED BY <2>1, <2>2
<1>7. /\ result.digest_ok = TRUE
      /\ result.signature_ok <=> key_ok
      /\ result.chain_ok = IF near THEN "ok" ELSE "failed"
      /\ result.timestamp_ok # "failed"
      /\ result.leaf_hash_ok = "none"
  BY <1>2, <1>3, <1>5, <1>6 DEF Verifier!SignatureResult, Verifier!Checked
<1> HIDE DEF result
<1>8. Verifier(<< result >>)!all_ok <=>
          /\ result.digest_ok /\ result.signature_ok
          /\ result.chain_ok # "failed" /\ result.timestamp_ok # "failed"
          /\ result.leaf_hash_ok # "failed"
  BY DEF Verifier!all_ok
<1>9. Verifier(<< result >>)!all_ok <=> key_ok /\ near
  BY <1>7, <1>8
<1> QED BY <1>9 DEF result

LEMMA FollowsVerifies == VInv => SignedVerifies
<1> SUFFICES ASSUME VInv, NEW t \in Threads, phase[t] = "done", NEW b \in blob[t]
             PROVE  Verifies(b, job[t].image) <=>
                        /\ Head(bundle).key \in
                               IF backend = "token" THEN find_objects ELSE {key_file}
                        /\ Walk(Head(bundle), bundle)!Near
  BY DEF SignedVerifies
<1> DEFINE near   == Walk(Head(bundle), bundle)!Near
           key_ok == SigningKey = Head(bundle).key
           seen   == AsSeen(b, job[t].image)
<1>1. /\ Made(b, job[t]) /\ b.wrapped = FALSE /\ loaded = "ok" /\ job[t] \in Requests
      /\ backend = "token" => opened = "ok"
  BY SigningAssumption DEF VInv, BlobsAsMade, SInv, TypeOK, SignedDatas
<1>2. seen = [envelope |-> "native", content |-> "matching",
              signers  |-> << [digest      |-> TRUE,
                               signature   |-> key_ok,
                               certificate |-> IF near THEN "trusted" ELSE "untrusted",
                               leaf        |-> TRUE,
                               token       |-> "none",
                               attributes  |-> IF b.stamped THEN << "spc_valid" >>
                                               ELSE << >>] >>]
  BY <1>1, AsItIsSeen DEF VInv
<1>3. near \in BOOLEAN /\ key_ok \in BOOLEAN
  BY DEF Walk!Near
<1>4. key_ok <=> Head(bundle).key \in IF backend = "token" THEN find_objects ELSE {key_file}
  BY <1>1 DEF VInv, OwnSignatures, SigningKey
<1> HIDE DEF near, key_ok, seen
<1>5. Verifier(<< Verifier(<< >>)!SignatureResult(seen) >>)!all_ok <=> key_ok /\ near
  BY <1>2, <1>3, ResultOfSeen
<1>6. seen.envelope = "native"
  BY <1>2
<1>7. Verifies(b, job[t].image) <=> key_ok /\ near
  BY <1>5, <1>6 DEF Verifies, seen
<1> QED BY <1>4, <1>7 DEF near

\* Any number of threads, any token, any bundle: what the service hands out
\* verifies exactly if the first certificate of the bundle is for the key that
\* was asked for and its issuers are in the bundle (build_der, normalize).
THEOREM WhatIsSignedVerifies == Spec => []SignedVerifies
BY MadeInvariant, FollowsVerifies, PTL

=============================================================================

-------------------------------- MODULE Pkcs11 --------------------------------
(***************************************************************************)
(* Pkcs11Signer of crypto/pkcs11.rs: one session on a token, behind a      *)
(* Mutex, shared by the threads that sign with it.                         *)
(*                                                                         *)
(* Session::sign is two calls to the token, C_SignInit and C_Sign, and a   *)
(* session has room for one operation: a second C_SignInit is refused, and *)
(* a C_Sign uses whatever operation there is.  The token may refuse any    *)
(* call; it may be pulled out, or another user of the module in this       *)
(* process may finalize it; a panic in the binding unwinds through the     *)
(* locked mutex and poisons it.                                            *)
(***************************************************************************)
CONSTANTS
    Threads,
    Keys,              \* private keys; the key a certificate is for is one too
    CKA_ID, CKA_LABEL, \* what a token says of its keys: functions on Keys
    Tokens,            \* sets of keys a token may hold
    KeyIds,            \* records: kind ("empty", "hex", "label"), value
    Messages,
    NoKey, NoThread

ASSUME KeysAssumption ==
    /\ Tokens \subseteq SUBSET Keys
    /\ \A i \in KeyIds : i.kind \in {"empty", "hex", "label"}
    /\ NoKey \notin Keys

ASSUME ThreadsAssumption == NoThread \notin Threads

VARIABLES
    token,        \* the private keys on the token in the first slot
    mechanisms,   \* what get_mechanism_list tells: "combined", "raw", "unreadable"
    key_id,       \* which key is asked for
    opened,       \* what open returned: "none" yet, "ok", "error"
    private_key, mode, public_key,   \* Pkcs11Signer
    operation,    \* external: the mechanism of the session's operation, or "none"
    alive,        \* external: the session is one the module still knows
    holder,       \* of the mutex, or NoThread
    poisoned,
    stage,        \* where each thread is in sign_message
    request,      \* the message of each thread's call: {} or one
    outcome,      \* how the call ended: "none" yet, "signed", or the error
    signature     \* {} or the one it returned

configuration == << token, mechanisms, key_id >>
signer        == << opened, private_key, mode, public_key >>
session       == << operation, alive >>
mutex         == << holder, poisoned >>
calls         == << stage, request, outcome, signature >>
signer_vars   == << configuration, signer, session, mutex, calls >>

Serial == INSTANCE SerialSigner WITH
    key       <- IF opened = "ok" THEN {private_key} ELSE {},
    usable    <- opened = "ok" /\ alive /\ ~poisoned,
    request   <- request,
    status    <- [t \in Threads |->
                    IF outcome[t] = "signed" THEN "signed"
                    ELSE IF outcome[t] # "none" THEN "failed"
                    ELSE IF stage[t] = "idle" THEN "idle" ELSE "waiting"],
    signature <- signature

SignerInit ==
    /\ token \in Tokens
    /\ mechanisms \in {"combined", "raw", "unreadable"}
    /\ key_id \in KeyIds
    /\ opened = "none"
    /\ private_key = NoKey /\ mode = "none" /\ public_key = NoKey
    /\ operation = "none" /\ alive = TRUE
    /\ holder = NoThread /\ poisoned = FALSE
    /\ stage = [t \in Threads |-> "idle"]
    /\ request = [t \in Threads |-> {}]
    /\ outcome = [t \in Threads |-> "none"]
    /\ signature = [t \in Threads |-> {}]

----------------------------------------------------------------------------
(* Opening the signer *)

\* What parses as hex is an id, also when a key has it for its label.
Named(k) ==
    CASE key_id.kind = "empty" -> TRUE
      [] key_id.kind = "hex"   -> CKA_ID[k] = key_id.value
      [] key_id.kind = "label" -> CKA_LABEL[k] = key_id.value

find_objects == {k \in token : Named(k)}

\* Mutant: the first of several.
find_private_key_First(k) == k \in find_objects

\* Exactly one key, whether or not it was asked for by name.
find_private_key(k) == find_objects = {k}

SigningMode == IF mechanisms = "combined" THEN "Sha256RsaPkcs" ELSE "RawRsaPkcs"

\* With the key of the certificate that will be sent along: nothing compares
\* it with the one on the token.
Open(cert_key) ==
    /\ opened = "none"
    /\ \E k \in token : find_private_key(k) /\ private_key' = k
    /\ opened' = "ok"
    /\ mode' = SigningMode
    /\ public_key' = cert_key
    /\ UNCHANGED << configuration, session, mutex, calls >>

\* Any call to the module fails, or none or several keys match.
OpenFails ==
    /\ opened = "none"
    /\ opened' = "error"
    /\ UNCHANGED << configuration, private_key, mode, public_key, session, mutex, calls >>

----------------------------------------------------------------------------
(* sign_message *)

Mechanism == IF mode = "Sha256RsaPkcs" THEN "SHA256_RSA_PKCS" ELSE "RSA_PKCS"

Payload(m) == IF mode = "Sha256RsaPkcs" THEN m ELSE Serial!DigestInfo(m)

SignMessage(t, m) ==
    /\ opened = "ok"
    /\ stage[t] = "idle"
    /\ stage' = [stage EXCEPT ![t] = "locking"]
    /\ request' = [request EXCEPT ![t] = {m}]
    /\ UNCHANGED << configuration, signer, session, mutex, outcome, signature >>

\* Mutant: the guard is a temporary, dropped at the end of its own statement.
Lock_GuardDropped(t) ==
    /\ stage[t] = "locking" /\ holder = NoThread /\ ~poisoned
    /\ stage' = [stage EXCEPT ![t] = "locked"]
    /\ UNCHANGED << configuration, signer, session, mutex, request, outcome, signature >>

Lock(t) ==
    /\ stage[t] = "locking" /\ holder = NoThread /\ ~poisoned
    /\ holder' = t
    /\ stage' = [stage EXCEPT ![t] = "locked"]
    /\ UNCHANGED << configuration, signer, session, poisoned, request, outcome, signature >>

\* Mutant: the poison is ignored, PoisonError::into_inner.
LockPoisoned_Ignored(t) ==
    /\ stage[t] = "locking" /\ holder = NoThread /\ poisoned
    /\ holder' = t
    /\ stage' = [stage EXCEPT ![t] = "locked"]
    /\ UNCHANGED << configuration, signer, session, poisoned, request, outcome, signature >>

LockPoisoned(t) ==
    /\ stage[t] = "locking" /\ holder = NoThread /\ poisoned
    /\ stage' = [stage EXCEPT ![t] = "returned"]
    /\ outcome' = [outcome EXCEPT ![t] = "poisoned"]
    /\ UNCHANGED << configuration, signer, session, mutex, request, signature >>

\* The token has no session, the session is busy, or the token does not want to.
Errors(ready, otherwise) ==
    IF ~alive THEN {"lost"} ELSE IF ready THEN {"refused"} ELSE {otherwise}

C_SignInit(t) ==
    /\ stage[t] = "locked"
    /\ alive /\ operation = "none"
    /\ operation' = Mechanism
    /\ stage' = [stage EXCEPT ![t] = "signing"]
    /\ UNCHANGED << configuration, signer, alive, mutex, request, outcome, signature >>

C_SignInitFails(t) ==
    /\ stage[t] = "locked"
    /\ \E error \in Errors(operation = "none", "operation_active") :
           outcome' = [outcome EXCEPT ![t] = error]
    /\ stage' = [stage EXCEPT ![t] = "unlocking"]
    /\ UNCHANGED << configuration, signer, session, mutex, request, signature >>

\* The token hashes, if the operation's mechanism says so.
Signed(payload) ==
    [key  |-> private_key,
     info |-> IF operation = "SHA256_RSA_PKCS" THEN Serial!DigestInfo(payload) ELSE payload]

C_Sign(t) ==
    /\ stage[t] = "signing"
    /\ alive /\ operation # "none"
    /\ signature' = [signature EXCEPT ![t] = {Signed(Payload(m)) : m \in request[t]}]
    /\ outcome' = [outcome EXCEPT ![t] = "signed"]
    /\ operation' = "none"
    /\ stage' = [stage EXCEPT ![t] = "unlocking"]
    /\ UNCHANGED << configuration, signer, alive, mutex, request >>

\* It ends the operation too.
C_SignFails(t) ==
    /\ stage[t] = "signing"
    /\ \E error \in Errors(operation # "none", "operation_not_initialized") :
           outcome' = [outcome EXCEPT ![t] = error]
    /\ operation' = "none"
    /\ stage' = [stage EXCEPT ![t] = "unlocking"]
    /\ UNCHANGED << configuration, signer, alive, mutex, request, signature >>

\* Mutant: an error returns past the unlocking.
Unlock_OnlyAfterSuccess(t) ==
    /\ stage[t] = "unlocking"
    /\ holder' = IF outcome[t] = "signed" THEN NoThread ELSE holder
    /\ stage' = [stage EXCEPT ![t] = "returned"]
    /\ UNCHANGED << configuration, signer, session, poisoned, request, outcome, signature >>

Unlock(t) ==
    /\ stage[t] = "unlocking"
    /\ holder' = NoThread
    /\ stage' = [stage EXCEPT ![t] = "returned"]
    /\ UNCHANGED << configuration, signer, session, poisoned, request, outcome, signature >>

\* The guard is dropped by the unwinding; the session stays as it was.
Panic(t) ==
    /\ stage[t] \in {"locked", "signing"}
    /\ holder' = NoThread /\ poisoned' = TRUE
    /\ stage' = [stage EXCEPT ![t] = "returned"]
    /\ outcome' = [outcome EXCEPT ![t] = "panicked"]
    /\ UNCHANGED << configuration, signer, session, request, signature >>

SessionLost ==
    /\ opened = "ok" /\ alive
    /\ alive' = FALSE
    /\ operation' = "none"
    /\ UNCHANGED << configuration, signer, mutex, calls >>

\* What a thread does once it has called sign_message.
Calling(t) ==
    \/ Lock(t) \/ LockPoisoned(t)
    \/ C_SignInit(t) \/ C_SignInitFails(t) \/ C_Sign(t) \/ C_SignFails(t)
    \/ Unlock(t)

SignerNext ==
    \/ \E k \in Keys : Open(k)
    \/ OpenFails
    \/ SessionLost
    \/ \E t \in Threads :
          \/ Calling(t)
          \/ Panic(t)
          \/ \E m \in Messages : SignMessage(t, m)

SignerSpec == SignerInit /\ [][SignerNext]_signer_vars

----------------------------------------------------------------------------
(* Properties *)

SignerTypeOK ==
    /\ token \in Tokens
    /\ mechanisms \in {"combined", "raw", "unreadable"}
    /\ key_id \in KeyIds
    /\ opened \in {"none", "ok", "error"}
    /\ private_key \in IF opened = "ok" THEN token ELSE {NoKey}
    /\ mode \in IF opened = "ok" THEN {"Sha256RsaPkcs", "RawRsaPkcs"} ELSE {"none"}
    /\ public_key \in IF opened = "ok" THEN Keys ELSE {NoKey}
    /\ operation \in {"none", "SHA256_RSA_PKCS", "RSA_PKCS"}
    /\ alive \in BOOLEAN
    /\ holder \in Threads \cup {NoThread}
    /\ poisoned \in BOOLEAN
    /\ stage \in [Threads -> {"idle", "locking", "locked", "signing", "unlocking", "returned"}]
    /\ request \in [Threads -> SUBSET Messages]
    /\ outcome \in [Threads -> {"none", "signed", "refused", "lost", "poisoned", "panicked",
                                "operation_active", "operation_not_initialized"}]
    /\ signature \in [Threads -> SUBSET Serial!Signatures]
    /\ \A t \in Threads : outcome[t] = "signed" <=> signature[t] # {}

\* No call fails because of another thread's: none finds the operation of
\* another on the session, or its own gone, also after a thread died between
\* C_SignInit and C_Sign.
Isolated ==
    \A t \in Threads : outcome[t] \notin {"operation_active", "operation_not_initialized"}

\* The signer shared by threads behaves as one that handles each request by
\* itself, and once it is broken, it never signs again.
SerialPromise == Serial!Spec

=============================================================================

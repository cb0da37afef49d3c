----------------------------- MODULE SerialSigner -----------------------------
(***************************************************************************)
(* What threads that share one signer may rely on, whatever else goes on:  *)
(* each request is answered once, as if the signer had nothing else to do, *)
(* with a signature of that request by the one key it was opened with, or  *)
(* with an error; and a signer that broke never signs again.               *)
(***************************************************************************)
CONSTANTS Threads, Keys, Messages

VARIABLES
    key,        \* {} until the signer is opened, then the one key it signs with
    usable,     \* opened, and nothing happened to it since
    request,    \* what each thread asks to have signed: {} or one message
    status,     \* "idle", "waiting", "signed", "failed"
    signature   \* what each thread was given: {} or one signature

vars == << key, usable, request, status, signature >>

\* RSA PKCS#1 v1.5 with SHA-256 (RFC 8017): what k signs is a DigestInfo,
\* the hash of m behind the prefix that names the algorithm.
DigestInfo(m)   == [prefix |-> TRUE, hash |-> m]
Signature(k, m) == [key |-> k, info |-> DigestInfo(m)]
Signatures      == [key : Keys, info : [prefix : {TRUE}, hash : Messages]]

Init ==
    /\ key = {}
    /\ usable = FALSE
    /\ request = [t \in Threads |-> {}]
    /\ status = [t \in Threads |-> "idle"]
    /\ signature = [t \in Threads |-> {}]

Open(k) ==
    /\ key = {}
    /\ key' = {k}
    /\ usable' = TRUE
    /\ UNCHANGED << request, status, signature >>

Ask(t, m) ==
    /\ status[t] = "idle"
    /\ status' = [status EXCEPT ![t] = "waiting"]
    /\ request' = [request EXCEPT ![t] = {m}]
    /\ UNCHANGED << key, usable, signature >>

Answer(t) ==
    /\ status[t] = "waiting"
    /\ usable
    /\ status' = [status EXCEPT ![t] = "signed"]
    /\ \E k \in key :
           signature' = [signature EXCEPT ![t] = {Signature(k, m) : m \in request[t]}]
    /\ UNCHANGED << key, usable, request >>

\* An error, which may be what breaks the signer.
Fail(t) ==
    /\ status[t] = "waiting"
    /\ status' = [status EXCEPT ![t] = "failed"]
    /\ usable' \in {usable, FALSE}
    /\ UNCHANGED << key, request, signature >>

Break ==
    /\ usable' = FALSE
    /\ UNCHANGED << key, request, status, signature >>

Next ==
    \/ Break
    \/ \E k \in Keys : Open(k)
    \/ \E t \in Threads :
          \/ Answer(t)
          \/ Fail(t)
          \/ \E m \in Messages : Ask(t, m)

Spec == Init /\ [][Next]_vars

=============================================================================

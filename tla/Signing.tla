-------------------------------- MODULE Signing --------------------------------
(***************************************************************************)
(* Making signatures (crypto/signing.rs) with a shared signer: threads of  *)
(* a signing service, or the one of the CLI, each of which turns one       *)
(* request into an Authenticode signature by create_authenticode_signature *)
(* or parse_spc_indirect_data and sign_spc_indirect_data.  The key is on a *)
(* token (Pkcs11) or in memory (KeyMaterial of crypto/certs.rs); the       *)
(* certificates come from a bundle in a file.                              *)
(***************************************************************************)
EXTENDS Pkcs11, Sequences

CONSTANTS
    Requests,   \* what a thread may be asked to sign
    Jobs,       \* what they all are: functions from Threads to Requests
    Certs,      \* records: the key the certificate is for, and the one that signed it
    Bundles     \* sequences of certificates

Algorithms == {"sha1", "sha256", "sha384", "sha512"}

\* "pe": an image to be signed here; else what a client sent to have signed,
\* with the algorithm the client chose.
ASSUME SigningAssumption ==
    /\ Requests \subseteq
           [kind : {"pe", "content", "not_content"}, image : {"this", "other"},
            algorithm : Algorithms, hash_algo : Algorithms,
            program_name : {"none", "ascii", "not_ascii"}, stamped : BOOLEAN]
    /\ Jobs \subseteq [Threads -> Requests]
    /\ Certs \subseteq [key : Keys, signed_by : Keys]
    /\ Bundles \subseteq Seq(Certs)

VARIABLES
    backend,   \* "token" or "memory"
    bundle,    \* the certificates in the file, and in the one of --ac
    key_file,  \* the key in the key file
    loaded,    \* "none" yet, "ok", "error"
    job,       \* what each thread has to sign
    phase,     \* how far it is
    blob       \* {} or the SignedData it has built

inputs == << backend, bundle, key_file, job >>
vars   == << signer_vars, inputs, loaded, phase, blob >>

----------------------------------------------------------------------------
(* Certificates: KeyMaterial and CertChain *)

signer_cert == Head(bundle)

\* The signer's, the rest of its bundle, and what add_extra_certs_pem added.
all_certs == bundle

LoadCertificates ==
    /\ loaded = "none"
    /\ bundle # << >>
    /\ loaded' = "ok"
    /\ UNCHANGED << signer_vars, inputs, phase, blob >>

\* Nothing in the file, or nothing that parses.
LoadFails ==
    /\ loaded = "none"
    /\ loaded' = "error"
    /\ UNCHANGED << signer_vars, inputs, phase, blob >>

OpenToken ==
    /\ loaded = "ok" /\ backend = "token"
    /\ Open(signer_cert.key) \/ OpenFails
    /\ UNCHANGED << inputs, loaded, phase, blob >>

----------------------------------------------------------------------------
(* What is signed *)

\* What the content names: a client's is taken as it came.
algorithm(r) == IF r.kind = "pe" THEN r.hash_algo ELSE r.algorithm

pe_digest(r) == [image |-> r.image, hash |-> algorithm(r)]

\* SpcIndirectDataContent.
content(r) == [digest |-> pe_digest(r), algorithm |-> algorithm(r)]

\* The signed attributes: the message digest of the content's octets, the
\* opus info, and the ones that are the same for all.
signed_attributes(r) == [message_digest |-> content(r), program_name |-> r.program_name]

\* parse_spc_indirect_data and der_sequence_content can read it.
IsContent(r) == r.kind # "not_content"

\* build_opus_info: an Ia5String.
IsAscii(r) == r.program_name # "not_ascii"

\* The errors before the signer is asked.
Refused(r) == ~IsContent(r) \/ r.hash_algo # "sha256" \/ ~IsAscii(r)

\* What a token may be asked to sign.
ASSUME MessagesAssumption == \A r \in Requests : signed_attributes(r) \in Messages

SignedDatas ==
    [wrapped : BOOLEAN, content : {content(r) : r \in Requests}, attributes : Messages,
     signature : Serial!Signatures, signer : Certs, certificates : Bundles, stamped : BOOLEAN]

\* What build_der makes of the signature: the RFC 5652 form, not yet stamped.
SignedData(r, sig) ==
    [wrapped |-> TRUE, content |-> content(r), attributes |-> signed_attributes(r),
     signature |-> sig, signer |-> signer_cert, certificates |-> all_certs,
     stamped |-> FALSE]

----------------------------------------------------------------------------
(* Steps of a thread *)

Go(t, to) == phase' = [phase EXCEPT ![t] = to]

Ready == loaded = "ok" /\ (backend = "token" => opened = "ok")

Refuse(t) ==
    /\ Ready /\ phase[t] = "received"
    /\ Refused(job[t])
    /\ Go(t, "failed")
    /\ UNCHANGED << signer_vars, inputs, loaded, blob >>

\* build_der, which asks the token.
AskToken(t) ==
    /\ Ready /\ phase[t] = "received" /\ backend = "token"
    /\ ~Refused(job[t])
    /\ SignMessage(t, signed_attributes(job[t]))
    /\ Go(t, "signing")
    /\ UNCHANGED << inputs, loaded, blob >>

TokenStep(t) ==
    /\ Calling(t)
    /\ UNCHANGED << inputs, loaded, phase, blob >>

\* Mutant: the error of the token is taken for an empty signature.
BuildSignedData_ErrorIgnored(t) ==
    /\ phase[t] = "signing" /\ stage[t] = "returned"
    /\ blob' = [blob EXCEPT ![t] = {SignedData(job[t], s) : s \in signature[t]}]
    /\ Go(t, "built")
    /\ UNCHANGED << signer_vars, inputs, loaded >>

BuildSignedData(t) ==
    /\ phase[t] = "signing" /\ stage[t] = "returned" /\ outcome[t] = "signed"
    /\ blob' = [blob EXCEPT ![t] = {SignedData(job[t], s) : s \in signature[t]}]
    /\ Go(t, "built")
    /\ UNCHANGED << signer_vars, inputs, loaded >>

BuildFails(t) ==
    /\ phase[t] = "signing" /\ stage[t] = "returned" /\ outcome[t] # "signed"
    /\ Go(t, "failed")
    /\ UNCHANGED << signer_vars, inputs, loaded, blob >>

\* The same with the key of KeyMaterial.
BuildInMemory(t) ==
    /\ Ready /\ phase[t] = "received" /\ backend = "memory"
    /\ ~Refused(job[t])
    /\ blob' = [blob EXCEPT ![t] =
                   {SignedData(job[t], Serial!Signature(key_file, signed_attributes(job[t])))}]
    /\ Go(t, "built")
    /\ UNCHANGED << signer_vars, inputs, loaded >>

\* add_timestamps, asked to: it returns the blob with a token and unwrapped,
\* or fails the request.
Stamp(t) ==
    /\ phase[t] = "built" /\ job[t].stamped
    /\ \/ /\ blob' = [blob EXCEPT ![t] =
                         {[b EXCEPT !.stamped = TRUE, !.wrapped = FALSE] : b \in blob[t]}]
          /\ Go(t, "stamped")
       \/ blob' = [blob EXCEPT ![t] = {}] /\ Go(t, "failed")
    /\ UNCHANGED << signer_vars, inputs, loaded >>

Normalize(t) ==
    /\ phase[t] = IF job[t].stamped THEN "stamped" ELSE "built"
    /\ blob' = [blob EXCEPT ![t] = {[b EXCEPT !.wrapped = FALSE] : b \in blob[t]}]
    /\ Go(t, "done")
    /\ UNCHANGED << signer_vars, inputs, loaded >>

Step(t) ==
    \/ Refuse(t) \/ AskToken(t) \/ TokenStep(t)
    \/ BuildSignedData(t) \/ BuildFails(t) \/ BuildInMemory(t)
    \/ Stamp(t) \/ Normalize(t)

Fault ==
    /\ SessionLost \/ \E t \in Threads : Panic(t)
    /\ UNCHANGED << inputs, loaded, phase, blob >>

----------------------------------------------------------------------------

Init ==
    /\ SignerInit
    /\ backend \in {"token", "memory"}
    /\ bundle \in Bundles
    /\ IF backend = "memory"
       THEN key_file \in Keys /\ token = {} /\ mechanisms = "unreadable" /\ key_id.kind = "empty"
       ELSE key_file = NoKey
    /\ loaded = "none"
    /\ job \in Jobs
    /\ phase = [t \in Threads |-> "received"]
    /\ blob = [t \in Threads |-> {}]

Next ==
    \/ LoadCertificates \/ LoadFails \/ OpenToken
    \/ Fault
    \/ \E t \in Threads : Step(t)

Spec == Init /\ [][Next]_vars

\* Threads run, and a call to the token returns.  A mutex may be taken by any
\* of the threads that wait for it: with one request per thread, none of them
\* can be overtaken for ever.
FairSpec == Spec /\ \A t \in Threads : WF_vars(Step(t))

----------------------------------------------------------------------------
(* Properties *)

\* Types of the variables.  A thread waits for the signer exactly while its
\* call of it goes on, and has a blob exactly when it has built one.
TypeOK ==
    /\ SignerTypeOK
    /\ backend \in {"token", "memory"}
    /\ bundle \in Bundles /\ key_file \in Keys \cup {NoKey}
    /\ loaded \in {"none", "ok", "error"}
    /\ job \in Jobs
    /\ phase \in [Threads -> {"received", "signing", "built", "stamped", "done", "failed"}]
    /\ blob \in [Threads -> SUBSET SignedDatas]
    /\ \A t \in Threads :
          /\ phase[t] = "received" => stage[t] = "idle"
          /\ blob[t] # {} <=> phase[t] \in {"built", "stamped", "done"}

\* Every request that was taken up is answered, also when a thread panics with
\* the session locked, or the token goes away.
EveryRequestAnswered ==
    Ready ~> \A t \in Threads : phase[t] \in {"done", "failed"}

=============================================================================

------------------------------ MODULE Timestamp ------------------------------
(***************************************************************************)
(* crypto/timestamp.rs: one call of add_timestamps, request by request,    *)
(* against time-stamping authorities that may drop a connection before or  *)
(* after they issued a token, refuse, or answer with something useless.    *)
(*                                                                         *)
(* A SignedData is a record [content, signers, certs]: whether the content *)
(* is in its native Authenticode form or wrapped for the generic parser,   *)
(* the signers with their signature and unsigned attributes, and the       *)
(* certificate list.  A token is what a TSA issued: for which signature,   *)
(* with which content type, signers and certificates.                      *)
(***************************************************************************)
EXTENDS Integers, Sequences

CONSTANTS
    Rfc3161Lists, AuthenticodeLists, \* what --ts and -t may name, in order
    TIMESTAMP_ATTEMPTS,              \* 3
    Inputs,                          \* the SignedData blobs to be stamped
    TsaCerts,                        \* certificate lists a legacy TSA may send
    Resets,                          \* how many connections may be dropped
    Refusals                         \* how many requests may be refused

SeqRange(s) == {s[i] : i \in DOMAIN s}

IsSequence(s) == s \in Seq(SeqRange(s))

IsSignedData(b) ==
    /\ b = [content |-> b.content, signers |-> b.signers, certs |-> b.certs]
    /\ b.content \in {"native", "wrapped"}
    /\ IsSequence(b.signers) /\ IsSequence(b.certs)
    /\ \A i \in DOMAIN b.signers :
          LET s == b.signers[i]
          IN  s = [signature |-> s.signature, unsigned |-> s.unsigned] /\ IsSequence(s.unsigned)

ASSUME TimestampAssumption ==
    /\ TIMESTAMP_ATTEMPTS \in Nat \ {0}
    /\ Resets \in Nat /\ Refusals \in Nat
    /\ \A urls \in Rfc3161Lists \cup AuthenticodeLists : IsSequence(urls)
    /\ \A b \in Inputs : IsSignedData(b)
    /\ \A certs \in TsaCerts : IsSequence(certs)

None == [none |-> TRUE]

\* A request: none, on its way, failed, or answered with a token.
Idle == [is |-> "idle"]
Sent == [is |-> "sent"]
Error == [is |-> "error"]
Answer(token) == [is |-> "answer", token |-> token]

VARIABLES
    rfc3161_urls, authenticode_urls,   \* the lists of this call
    pc,           \* where add_timestamps is
    signed_data,  \* the parsed blob being changed, as add_timestamps holds it
    url, attempt, \* indexes of the for loops
    wire,         \* the request under way
    result,       \* what was returned: None until then, and after an error
    resets, refusals,   \* faults left to the network and the TSAs
    tries,        \* history: requests sent for each entry of a list
    issued,       \* history: tokens any TSA made
    input         \* history: the blob passed in

args == << rfc3161_urls, authenticode_urls, input >>

vars == << args, pc, signed_data, url, attempt, wire, result,
           resets, refusals, tries, issued >>

Urls(list) == IF list = "rfc3161" THEN rfc3161_urls ELSE authenticode_urls

\* The entries of the lists; pc is the name of the list a loop goes through.
Entries == ({"rfc3161"} \X DOMAIN rfc3161_urls) \cup ({"authenticode"} \X DOMAIN authenticode_urls)

Asked == rfc3161_urls # << >> \/ authenticode_urls # << >>

\* request_authenticode_with_fallback asks each URL once.
Attempts(list) == IF list = "rfc3161" THEN TIMESTAMP_ATTEMPTS ELSE 1

Init ==
    /\ rfc3161_urls \in Rfc3161Lists
    /\ authenticode_urls \in AuthenticodeLists
    /\ input \in Inputs
    /\ pc = "start"
    /\ signed_data = input
    /\ url = 1 /\ attempt = 1
    /\ wire = Idle
    /\ result = None
    /\ resets = Resets /\ refusals = Refusals
    /\ tries = [e \in Entries |-> 0]
    /\ issued = {}

----------------------------------------------------------------------------
(* add_timestamps: entry and exit *)

\* The loop that follows: a list that is empty is skipped.
AfterRfc3161 == IF authenticode_urls # << >> THEN "authenticode" ELSE "encode"
FirstList    == IF rfc3161_urls # << >> THEN "rfc3161" ELSE AfterRfc3161

\* Nothing was asked for: the blob is returned as it came.
NothingToDo ==
    /\ pc = "start"
    /\ ~Asked
    /\ result' = signed_data
    /\ pc' = "done"
    /\ UNCHANGED << signed_data, url, attempt, wire, resets, refusals, tries, issued, args >>

\* wrap_authenticode_content, decode, and the first signer's signature.
Parse ==
    /\ pc = "start"
    /\ Asked
    /\ signed_data' = [signed_data EXCEPT !.content = "wrapped"]
    /\ pc' = IF signed_data.signers = << >> THEN "failed" ELSE FirstList
    /\ UNCHANGED << url, attempt, wire, result, resets, refusals, tries, issued, args >>

\* Re-encode, and normalize_authenticode_signature.
Encode ==
    /\ pc = "encode"
    /\ signed_data' = [signed_data EXCEPT !.content = "native"]
    /\ result' = [signed_data EXCEPT !.content = "native"]
    /\ pc' = "done"
    /\ UNCHANGED << url, attempt, wire, resets, refusals, tries, issued, args >>

----------------------------------------------------------------------------
(* request_rfc3161, request_authenticode *)

Requesting == pc \in {"rfc3161", "authenticode"}

entry == << pc, url >>

signature_bytes == signed_data.signers[1].signature

Send ==
    /\ Requesting /\ wire = Idle
    /\ wire' = Sent
    /\ tries' = [tries EXCEPT ![entry] = @ + 1]
    /\ UNCHANGED << pc, signed_data, url, attempt, result, resets, refusals, issued, args >>

\* A token over the signature that was sent: the authorities are taken to be
\* honest, as nothing in the code compares an answer with what was sent.  A
\* legacy TSA answers with a PKCS#7 counter-signature, or with an RFC 3161 token
\* all the same, or with a PKCS#7 without a signer.
Tokens ==
    LET Token(content, signers, certs) ==
            [at : {entry}, nth : {tries[entry]}, covers : {signature_bytes},
             content : content, signers : signers, certs : certs]
    IN  Token({"tst_info"}, {1}, {<< >>})
        \cup IF pc = "rfc3161" THEN {} ELSE Token({"data"}, {0, 1}, TsaCerts)

\* The TSA grants the request and the answer arrives.
Grant ==
    /\ wire = Sent
    /\ \E t \in Tokens : wire' = Answer(t) /\ issued' = issued \cup {t}
    /\ UNCHANGED << pc, signed_data, url, attempt, result, resets, refusals, tries, args >>

\* The connection is dropped or times out, before the TSA acted or after.
Reset ==
    /\ wire = Sent
    /\ resets > 0
    /\ resets' = resets - 1
    /\ wire' = Error
    /\ \/ issued' = issued
       \/ \E t \in Tokens : issued' = issued \cup {t}
    /\ UNCHANGED << pc, signed_data, url, attempt, result, refusals, tries, args >>

\* An unsuccessful status, or an answer that cannot be decoded.
Refuse ==
    /\ wire = Sent
    /\ refusals > 0
    /\ refusals' = refusals - 1
    /\ wire' = Error
    /\ UNCHANGED << pc, signed_data, url, attempt, result, resets, tries, issued, args >>

----------------------------------------------------------------------------
(* attach_rfc3161_timestamp, attach_authenticode_timestamp *)

\* Mutant: the attributes that were there are lost.
Pushed_Replaces(sd, attr) == [sd EXCEPT !.signers[1].unsigned = << attr >>]

\* push_unsigned_attribute: always the first signer.
Pushed(sd, attr) ==
    [sd EXCEPT !.signers[1].unsigned = Append(@, attr)]

SpcRfc3161(token)   == [typ |-> "SPC_RFC3161", token |-> token]
CounterSig(token)   == [typ |-> "PKCS9_COUNTER_SIGNATURE", token |-> token]

\* Mutant: the list is not searched for what is already there.
Hoisted_All(certs, more) == certs \o more

\* The TSA's certificates, each pushed unless the list has it by then.
Hoisted(certs, more) ==
    LET merged[i \in 0 .. Len(more)] ==
            IF i = 0 THEN certs
            ELSE IF more[i] \in SeqRange(merged[i-1]) THEN merged[i-1]
            ELSE Append(merged[i-1], more[i])
    IN  merged[Len(more)]

HasAnswer == wire.is = "answer"

AttachRfc3161 ==
    /\ pc = "rfc3161" /\ HasAnswer
    /\ signed_data' = Pushed(signed_data, SpcRfc3161(wire.token))
    /\ pc' = AfterRfc3161
    /\ wire' = Idle /\ url' = 1 /\ attempt' = 1
    /\ UNCHANGED << result, resets, refusals, tries, issued, args >>

\* A token in answer to a legacy request is attached whole.
AttachToken ==
    /\ pc = "authenticode" /\ HasAnswer
    /\ wire.token.content = "tst_info"
    /\ signed_data' = Pushed(signed_data, SpcRfc3161(wire.token))
    /\ pc' = "encode"
    /\ wire' = Idle
    /\ UNCHANGED << url, attempt, result, resets, refusals, tries, issued, args >>

\* Mutant: the content type of the answer is not looked at.
AttachCounterSignature_AnyContent ==
    /\ pc = "authenticode" /\ HasAnswer
    /\ wire.token.signers > 0
    /\ signed_data' = Pushed([signed_data EXCEPT !.certs = Hoisted(@, wire.token.certs)],
                             CounterSig(wire.token))
    /\ pc' = "encode"
    /\ wire' = Idle
    /\ UNCHANGED << url, attempt, result, resets, refusals, tries, issued, args >>

AttachCounterSignature ==
    /\ pc = "authenticode" /\ HasAnswer
    /\ wire.token.content # "tst_info"
    /\ wire.token.signers > 0
    /\ signed_data' = Pushed([signed_data EXCEPT !.certs = Hoisted(@, wire.token.certs)],
                             CounterSig(wire.token))
    /\ pc' = "encode"
    /\ wire' = Idle
    /\ UNCHANGED << url, attempt, result, resets, refusals, tries, issued, args >>

\* An answer without a signer fails the call, whatever URLs are left.
AttachNothing ==
    /\ pc = "authenticode" /\ HasAnswer
    /\ wire.token.content # "tst_info"
    /\ wire.token.signers = 0
    /\ pc' = "failed"
    /\ UNCHANGED << signed_data, url, attempt, wire, result, resets, refusals, tries, issued, args >>

----------------------------------------------------------------------------
(* request_..._with_fallback: what follows an error *)

Retry ==
    /\ Requesting /\ wire = Error
    /\ attempt < Attempts(pc)
    /\ attempt' = attempt + 1
    /\ wire' = Idle
    /\ UNCHANGED << pc, signed_data, url, result, resets, refusals, tries, issued, args >>

\* Mutant: the loop runs one past the list.
NextUrl_OnePast ==
    /\ Requesting /\ wire = Error
    /\ attempt = Attempts(pc)
    /\ url <= Len(Urls(pc))
    /\ url' = url + 1
    /\ attempt' = 1
    /\ wire' = Idle
    /\ UNCHANGED << pc, signed_data, result, resets, refusals, tries, issued, args >>

\* Mutant: a URL is left after its first failure.
NextUrl_AtOnce ==
    /\ Requesting /\ wire = Error
    /\ url < Len(Urls(pc))
    /\ url' = url + 1
    /\ attempt' = 1
    /\ wire' = Idle
    /\ UNCHANGED << pc, signed_data, result, resets, refusals, tries, issued, args >>

NextUrl ==
    /\ Requesting /\ wire = Error
    /\ attempt = Attempts(pc)
    /\ url < Len(Urls(pc))
    /\ url' = url + 1
    /\ attempt' = 1
    /\ wire' = Idle
    /\ UNCHANGED << pc, signed_data, result, resets, refusals, tries, issued, args >>

\* Mutant: giving up does not wait for the other URLs.
GiveUp_FirstUrl ==
    /\ Requesting /\ wire = Error
    /\ attempt = Attempts(pc)
    /\ pc' = "failed"
    /\ UNCHANGED << signed_data, url, attempt, wire, result, resets, refusals, tries, issued, args >>

\* Mutant: the end of the list is missed.
GiveUp_PastEnd ==
    /\ Requesting /\ wire = Error
    /\ attempt = Attempts(pc)
    /\ url > Len(Urls(pc))
    /\ pc' = "failed"
    /\ UNCHANGED << signed_data, url, attempt, wire, result, resets, refusals, tries, issued, args >>

GiveUp ==
    /\ Requesting /\ wire = Error
    /\ attempt = Attempts(pc)
    /\ url = Len(Urls(pc))
    /\ pc' = "failed"
    /\ UNCHANGED << signed_data, url, attempt, wire, result, resets, refusals, tries, issued, args >>

----------------------------------------------------------------------------

Program ==
    \/ NothingToDo \/ Parse \/ Send \/ Encode
    \/ AttachRfc3161 \/ AttachToken \/ AttachCounterSignature \/ AttachNothing
    \/ Retry \/ NextUrl \/ GiveUp

Tsa == Grant \/ Reset \/ Refuse

Next == Program \/ Tsa

Spec == Init /\ [][Next]_vars

\* The HTTP client gives every request an end (its time-out is a Reset).
FairSpec == Spec /\ WF_vars(Program) /\ WF_vars(Tsa)

----------------------------------------------------------------------------
(* Properties *)

NoDuplicates(s) == \A i, j \in DOMAIN s : s[i] = s[j] => i = j

\* Types of the variables that move.
TypeOK ==
    /\ pc \in {"start", "rfc3161", "authenticode", "encode", "done", "failed"}
    /\ signed_data.content \in {"native", "wrapped"}
    /\ Requesting => url \in 1 .. Len(Urls(pc)) /\ attempt \in 1 .. Attempts(pc)
    /\ wire \in {Idle, Sent, Error} \/ wire.token \in issued
    /\ result = None <=> pc # "done"
    /\ resets \in 0 .. Resets /\ refusals \in 0 .. Refusals
    /\ tries \in [Entries -> 0 .. TIMESTAMP_ATTEMPTS]

\* The attributes this call added to a signer.
Added(sd) ==
    SubSeq(sd.signers[1].unsigned, Len(input.signers[1].unsigned) + 1,
           Len(sd.signers[1].unsigned))

\* A success stamps the first signer exactly once per list that was given,
\* whatever was lost, retried or issued in vain; it keeps the stamps that were
\* there and the other signers, and gives the content back in native form.
StampedOnce ==
    pc = "done" /\ Asked =>
        /\ result.content = "native"
        /\ result.signers = [input.signers EXCEPT ![1].unsigned = @ \o Added(result)]
        /\ Len(Added(result)) = (IF rfc3161_urls # << >> THEN 1 ELSE 0)
                                + (IF authenticode_urls # << >> THEN 1 ELSE 0)

\* Every stamp attached is over the first signer's signature and was issued
\* for it (by authorities that stamp what they were sent); a counter-signature is never a token over a TSTInfo, and the
\* certificates it needs are in the outer list.
StampsFit ==
    pc = "done" /\ Asked =>
        \A attr \in SeqRange(Added(result)) :
            /\ attr.token \in issued
            /\ attr.token.covers = input.signers[1].signature
            /\ attr.typ = "PKCS9_COUNTER_SIGNATURE" =>
                   /\ attr.token.content # "tst_info"
                   /\ SeqRange(attr.token.certs) \subseteq SeqRange(result.certs)

\* Hoisting keeps the list free of duplicates and in its order.
CertsGrowOnly ==
    NoDuplicates(input.certs) =>
        /\ NoDuplicates(signed_data.certs)
        /\ SubSeq(signed_data.certs, 1, Len(input.certs)) = input.certs

\* The URLs of a list are asked in order, each as often as it may be before
\* the next one is, and no further once one has answered.
FallbackInOrder ==
    /\ \A d, e \in Entries :
           d[1] = e[1] /\ d[2] < e[2] /\ tries[e] > 0 => tries[d] = Attempts(d[1])
    /\ pc = "done" /\ Asked =>
           \A attr \in SeqRange(Added(result)) : tries[attr.token.at] = attr.token.nth

\* An RFC 3161 list fails the call only when every attempt at every URL did.
Rfc3161Survives ==
    pc = "failed" /\ input.signers # << >> /\ rfc3161_urls # << >> =>
        \/ \A e \in Entries : e[1] = "rfc3161" => tries[e] = TIMESTAMP_ATTEMPTS
        \/ \E e \in Entries : e[1] = "authenticode" /\ tries[e] > 0

\* "one reset must not fail a whole signing request" (timestamp.rs:46-47).
OneResetIsHarmless ==
    pc = "failed" /\ wire = Error => (Resets - resets) + (Refusals - refusals) > 1

\* Every call returns.
Terminates == <>(pc \in {"done", "failed"})

=============================================================================

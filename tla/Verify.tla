------------------------------- MODULE Verify -------------------------------
(***************************************************************************)
(* verify_pe_rich of crypto/verify.rs: the loop over the signature of an   *)
(* image and those nested in it, the checks each must pass, the ones that  *)
(* are made only if asked for or possible, and the verdict over them all.  *)
(*                                                                         *)
(* A check that was not made is "none", as in the Option<bool> of the      *)
(* code.  What a check finds is part of the input: whether a signer's      *)
(* message digest and signature hold, where its chain leads, what its      *)
(* timestamps are worth.                                                   *)
(***************************************************************************)
EXTENDS Naturals, Sequences, Functions

CONSTANTS Blobs,    \* records: envelope, content, signers
          Nested,   \* what may be nested in the primary: sequences of Blobs
          Options   \* records: ca_certs, ignore_timestamp, require_leaf_hash

Envelopes == {"native", "wrapped", "unreadable"}
Contents  == {"matching", "other_digest", "unreadable"}

\* certificate: found in the bag or "none", with the chain it has; token: the
\* standard RFC 3161 attribute; attributes: the other unsigned ones, in order.
Signers ==
    [digest : BOOLEAN, signature : BOOLEAN,
     certificate : {"none", "trusted", "untrusted"}, leaf : BOOLEAN,
     token : {"none", "valid", "invalid"},
     attributes : Seq({"spc_valid", "spc_invalid", "spc_signerless", "spc_undecodable",
                       "counter_valid", "counter_invalid", "other"})]

ASSUME VerifyAssumption ==
    /\ \A b \in Blobs : /\ b.envelope \in Envelopes /\ b.content \in Contents
                        /\ b.signers \in Seq(Signers)
    /\ Nested \subseteq Seq(Blobs)
    /\ Options \subseteq [ca_certs : BOOLEAN, ignore_timestamp : BOOLEAN,
                          require_leaf_hash : BOOLEAN]

VARIABLES
    input,       \* "not_pe", "unsigned", or "signed" with
    primary,     \* this PKCS#7
    nested,      \* the blobs among its signers' unsigned attributes
    opts,
    signatures,  \* SignatureResults, one for each blob verified so far
    outcome      \* "verifying", "error", "done"

arguments == << input, primary, nested, opts >>
vars      == << arguments, signatures, outcome >>

\* Mutant: the primary signature only.
sig_blobs_PrimaryOnly == << primary >>
sig_blobs == << primary >> \o nested

----------------------------------------------------------------------------
(* The checks *)

verify_digest(b) == b.content = "matching"

verify_crypto_signature(b) ==
    /\ b.content # "unreadable"
    /\ b.signers # << >>
    /\ \A i \in DOMAIN b.signers : b.signers[i].digest /\ b.signers[i].signature

First(positions) == CHOOSE i \in positions : \A j \in positions : i <= j

\* The signers whose certificate came with the signature: the first one counts.
Identified(b) == {i \in DOMAIN b.signers : b.signers[i].certificate # "none"}

\* Mutant: a signer without a certificate has no chain to fail.
verify_chain_NoCertificate(b) ==
    Identified(b) = {} \/ b.signers[First(Identified(b))].certificate = "trusted"

verify_chain(b) ==
    Identified(b) # {} /\ b.signers[First(Identified(b))].certificate = "trusted"

verify_leaf_hash_for_signer(b) ==
    Identified(b) # {} /\ b.signers[First(Identified(b))].leaf

SpcTokens(s) ==
    {k \in DOMAIN s.attributes :
        s.attributes[k] \in {"spc_valid", "spc_invalid", "spc_signerless", "spc_undecodable"}}

Stamped(b) == {i \in DOMAIN b.signers : SpcTokens(b.signers[i]) # {}}

FirstToken(b) ==
    LET s == b.signers[First(Stamped(b))] IN s.attributes[First(SpcTokens(s))]

\* Mutant: a token that does not verify is taken for none.
verify_timestamp_Lenient(b) ==
    IF \/ \E i \in DOMAIN b.signers : b.signers[i].token = "valid"
       \/ Stamped(b) # {} /\ FirstToken(b) = "spc_valid"
    THEN "ok" ELSE "none"

\* A standard token that verifies; else the first token under Microsoft's OID,
\* each of whose signers has to: one without signers passes.
verify_timestamp(b) ==
    IF \E i \in DOMAIN b.signers : b.signers[i].token = "valid" THEN "ok"
    ELSE IF Stamped(b) = {} THEN "none"
    ELSE IF FirstToken(b) \in {"spc_valid", "spc_signerless"} THEN "ok" ELSE "failed"

\* The blob can be shown to have one: Some(info), whatever it is worth.
HasTimestampInfo(b) ==
    \E i \in DOMAIN b.signers :
        LET s == b.signers[i]
        IN  \/ s.token # "none"
            \/ \E k \in DOMAIN s.attributes : s.attributes[k] \notin {"spc_undecodable", "other"}

\* Mutant: a check that was not asked for has failed.
Checked_Always(asked, holds) == IF asked /\ holds THEN "ok" ELSE "failed"

Checked(asked, holds) == IF ~asked THEN "none" ELSE IF holds THEN "ok" ELSE "failed"

SignatureResult(b) ==
    [digest_ok      |-> verify_digest(b),
     signature_ok   |-> verify_crypto_signature(b),
     chain_ok       |-> Checked(opts.ca_certs, verify_chain(b)),
     timestamp_ok   |-> IF opts.ignore_timestamp THEN "none" ELSE verify_timestamp(b),
     leaf_hash_ok   |-> Checked(opts.require_leaf_hash, verify_leaf_hash_for_signer(b)),
     timestamp_info |-> HasTimestampInfo(b)]

----------------------------------------------------------------------------

Init ==
    /\ input \in {"not_pe", "unsigned", "signed"}
    /\ primary \in Blobs
    /\ nested \in IF input = "signed" THEN Nested ELSE {<< >>}
    /\ opts \in Options
    /\ signatures = << >> /\ outcome = "verifying"

Fail ==
    /\ outcome' = "error"
    /\ UNCHANGED << arguments, signatures >>

\* parse_pe, extract_signature, and collect_signature_blobs, which has to read
\* the primary before the loop begins.
Refuse ==
    /\ outcome = "verifying" /\ signatures = << >>
    /\ input # "signed" \/ primary.envelope = "unreadable"
    /\ Fail

Verifying ==
    /\ outcome = "verifying"
    /\ input = "signed" /\ primary.envelope # "unreadable"
    /\ Len(signatures) < Len(sig_blobs)

blob == sig_blobs[Len(signatures) + 1]

\* check_authenticode_envelope ends it, nested blobs included.
BadEnvelope == Verifying /\ blob.envelope # "native" /\ Fail

VerifyBlob ==
    /\ Verifying
    /\ blob.envelope = "native"
    /\ signatures' = Append(signatures, SignatureResult(blob))
    /\ UNCHANGED << arguments, outcome >>

Finish ==
    /\ outcome = "verifying"
    /\ signatures # << >> /\ Len(signatures) = Len(sig_blobs)
    /\ outcome' = "done"
    /\ UNCHANGED << arguments, signatures >>

Next == Refuse \/ BadEnvelope \/ VerifyBlob \/ Finish

Spec == Init /\ [][Next]_vars

all_ok ==
    /\ signatures # << >>
    /\ \A i \in DOMAIN signatures :
          /\ signatures[i].digest_ok /\ signatures[i].signature_ok
          /\ signatures[i].chain_ok # "failed"
          /\ signatures[i].timestamp_ok # "failed"
          /\ signatures[i].leaf_hash_ok # "failed"

\* verify succeeds.
Accepted == outcome = "done" /\ all_ok

----------------------------------------------------------------------------
(* Properties *)

All == {primary} \cup Range(nested)

\* Nothing is skipped: a file is accepted only if each of its signatures is in
\* the form Windows accepts, is over this image, and every one of its signers holds.
EverySignatureHolds ==
    Accepted => input = "signed" /\ \A b \in All :
        /\ b.envelope = "native" /\ b.content = "matching" /\ b.signers # << >>
        /\ \A s \in Range(b.signers) : s.digest /\ s.signature

\* With --CAfile, each signature has a signer known by a certificate with a
\* chain to it, and the only signer of a signature is that one.
EverySignerTrusted ==
    Accepted /\ opts.ca_certs => \A b \in All :
        /\ \E s \in Range(b.signers) : s.certificate = "trusted"
        /\ Len(b.signers) = 1 => b.signers[1].certificate = "trusted"

\* Unless timestamps are ignored, a signature with tokens under Microsoft's OID,
\* the form this program writes, is accepted only if one of them is valid (or
\* has no signer), or a standard one is.
InvalidTokenRejected ==
    Accepted /\ ~opts.ignore_timestamp => \A b \in All :
        LET held == UNION {Range(s.attributes) : s \in Range(b.signers)}
        IN  held \cap {"spc_invalid", "spc_undecodable"} # {} =>
                \/ held \cap {"spc_valid", "spc_signerless"} # {}
                \/ \E s \in Range(b.signers) : s.token = "valid"

\* A file whose signatures have nothing wrong with them is accepted, however
\* many they are and whatever was asked for.
GoodAccepted ==
    /\ outcome \in {"done", "error"}
    /\ input = "signed"
    /\ \A b \in All :
          /\ b.envelope = "native" /\ b.content = "matching"
          /\ b.signers # << >>
          /\ \A s \in Range(b.signers) :
                /\ s.digest /\ s.signature /\ s.certificate = "trusted" /\ s.leaf
                /\ "spc_invalid" \notin Range(s.attributes)
                /\ "spc_undecodable" \notin Range(s.attributes)
    => Accepted

\* "Verify any timestamp present in the signature." (verify.rs:518)
AnyTimestampVerified ==
    ~opts.ignore_timestamp => \A i \in DOMAIN signatures :
        signatures[i].timestamp_info => signatures[i].timestamp_ok # "none"

=============================================================================

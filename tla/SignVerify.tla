------------------------------ MODULE SignVerify ------------------------------
(***************************************************************************)
(* Signatures made by Signing, put to the checks of Verify, with the walk  *)
(* of Chain from the signer's certificate through those that come along.   *)
(***************************************************************************)
EXTENDS Signing, SequencesExt

CONSTANTS
    CaFile,   \* the certificates the verifier trusts
    Depth     \* of the walk

ASSUME CaFileAssumption == CaFile \in Seq(Certs)

(* The signature as a verifier of the image sees it *)

Walk(cert, bag) == INSTANCE Chain WITH
    KeyOf <- {}, SignedBy <- {}, Bags <- {}, CaFiles <- {},
    key <- [c \in Certs |-> c.key], signed_by <- [c \in Certs |-> c.signed_by],
    signer <- cert, cert_bag <- bag, ca_certs <- CaFile,
    current <- cert, visited <- {}, rounds <- 0, verdict <- "walking"

Verifier(results) == INSTANCE Verify WITH
    Blobs <- {}, Nested <- {}, Options <- {},
    input <- "signed", primary <- << >>, nested <- << >>, outcome <- "done",
    opts <- [ca_certs |-> TRUE, ignore_timestamp |-> FALSE, require_leaf_hash |-> FALSE],
    signatures <- results

AsSeen(b, image) ==
    [envelope |-> IF b.wrapped THEN "wrapped" ELSE "native",
     content  |-> IF b.content.digest = [image |-> image, hash |-> b.content.algorithm]
                  THEN "matching" ELSE "other_digest",
     signers  |-> << [digest      |-> b.attributes.message_digest = b.content,
                      signature   |-> b.signature = Serial!Signature(b.signer.key, b.attributes),
                      certificate |-> IF b.signer \notin Range(b.certificates) THEN "none"
                                      ELSE IF Walk(b.signer, b.certificates)!Near
                                      THEN "trusted" ELSE "untrusted",
                      leaf        |-> TRUE,
                      token       |-> "none",
                      attributes  |-> IF b.stamped THEN << "spc_valid" >> ELSE << >>] >>]

Verifies(b, image) ==
    LET seen == AsSeen(b, image)
    IN  /\ seen.envelope = "native"
        /\ Verifier(<< Verifier(<< >>)!SignatureResult(seen) >>)!all_ok

----------------------------------------------------------------------------
(* Properties *)

\* What comes out verifies against the trusted certificates exactly if the
\* first certificate of the bundle is for the key that was asked for and its
\* issuers are in the bundle: whatever the threads did meanwhile, whichever of
\* the two mechanisms the token has, time-stamped or not.
SignedVerifies ==
    \A t \in Threads : phase[t] = "done" =>
        \A b \in blob[t] :
            Verifies(b, job[t].image) <=>
                /\ Head(bundle).key \in IF backend = "token" THEN find_objects ELSE {key_file}
                /\ Walk(Head(bundle), bundle)!Near

=============================================================================

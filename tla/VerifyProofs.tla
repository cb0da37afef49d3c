---------------------------- MODULE VerifyProofs ----------------------------
(***************************************************************************)
(* The verdict of Verify, for any signatures, nested signatures and        *)
(* options: what an accepted file has been checked for, and that a file    *)
(* with nothing wrong is accepted.                                         *)
(***************************************************************************)
EXTENDS Verify, BasicLemmas

Checks  == {"none", "ok", "failed"}
Results == [digest_ok : BOOLEAN, signature_ok : BOOLEAN, chain_ok : Checks,
            timestamp_ok : Checks, leaf_hash_ok : Checks, timestamp_info : BOOLEAN]

ArgumentsOK ==
    /\ primary \in Blobs /\ nested \in Seq(Blobs)
    /\ opts \in [ca_certs : BOOLEAN, ignore_timestamp : BOOLEAN, require_leaf_hash : BOOLEAN]

\* The results so far are those of the blobs so far, in order, and each of
\* these had the right envelope.
Progress ==
    /\ signatures \in Seq(Results)
    /\ Len(signatures) <= Len(sig_blobs)
    /\ signatures # << >> => input = "signed"
    /\ \A i \in DOMAIN signatures :
          sig_blobs[i].envelope = "native" /\ signatures[i] = SignatureResult(sig_blobs[i])

\* How it ended.
Ends ==
    /\ outcome = "done" => input = "signed" /\ Len(signatures) = Len(sig_blobs)
    /\ outcome = "error" => input # "signed" \/ \E b \in All : b.envelope # "native"

IInv == ArgumentsOK /\ Progress /\ Ends

----------------------------------------------------------------------------
(* The checks of a blob *)

\* A set of numbers that is not empty has a first one.
LEMMA FirstIsIn ==
    ASSUME NEW S \in SUBSET Nat, S # {}
    PROVE  First(S) \in S
  BY Least DEF First

\* A blob's signers are numbered from 1, and so are their attributes.
LEMMA SignersOK ==
    ASSUME NEW b \in Blobs
    PROVE  /\ DOMAIN b.signers \subseteq Nat
           /\ b.signers # << >> => 1 \in DOMAIN b.signers
           /\ \A i \in DOMAIN b.signers :
                 b.signers[i] \in Signers /\ DOMAIN b.signers[i].attributes \subseteq Nat
<1>1. b.signers \in Seq(Signers)
  BY VerifyAssumption
<1>2. ASSUME NEW i \in DOMAIN b.signers
      PROVE  b.signers[i] \in Signers /\ DOMAIN b.signers[i].attributes \subseteq Nat
  <2>1. b.signers[i] \in Signers
    BY <1>1
  <2>2. b.signers[i].attributes \in Seq({"spc_valid", "spc_invalid", "spc_signerless",
            "spc_undecodable", "counter_valid", "counter_invalid", "other"})
    BY <2>1 DEF Signers
  <2> QED BY <2>1, <2>2
<1> QED BY <1>1, <1>2

\* The signer that counts is one whose certificate was found.
LEMMA IdentifiedFirst ==
    ASSUME NEW b \in Blobs, Identified(b) # {}
    PROVE  First(Identified(b)) \in DOMAIN b.signers
<1>1. Identified(b) \in SUBSET Nat
  BY SignersOK DEF Identified
<1> QED BY <1>1, FirstIsIn DEF Identified

\* The token that counts is one some signer has, under Microsoft's OID.
LEMMA FirstTokenHeld ==
    ASSUME NEW b \in Blobs, Stamped(b) # {}
    PROVE  \E i \in DOMAIN b.signers : \E k \in SpcTokens(b.signers[i]) :
              FirstToken(b) = b.signers[i].attributes[k]
<1>1. Stamped(b) \in SUBSET Nat
  BY SignersOK DEF Stamped
<1> DEFINE i == First(Stamped(b))
<1>2. i \in Stamped(b)
  BY <1>1, FirstIsIn
<1>3. i \in DOMAIN b.signers /\ SpcTokens(b.signers[i]) # {}
  BY <1>2 DEF Stamped
<1>4. SpcTokens(b.signers[i]) \in SUBSET Nat
  BY <1>3, SignersOK DEF SpcTokens
<1>5. First(SpcTokens(b.signers[i])) \in SpcTokens(b.signers[i])
  BY <1>3, <1>4, FirstIsIn
<1>6. FirstToken(b) = b.signers[i].attributes[First(SpcTokens(b.signers[i]))]
  BY DEF FirstToken
<1> QED BY <1>3, <1>5, <1>6

LEMMA ResultOK ==
    ASSUME NEW b PROVE SignatureResult(b) \in Results
<1>1. /\ verify_digest(b) \in BOOLEAN /\ verify_crypto_signature(b) \in BOOLEAN
      /\ HasTimestampInfo(b) \in BOOLEAN
  BY DEF verify_digest, verify_crypto_signature, HasTimestampInfo
<1>2. verify_timestamp(b) \in Checks
  BY DEF verify_timestamp, Checks
<1>3. \A asked, holds : Checked(asked, holds) \in Checks
  BY DEF Checked, Checks
<1> QED BY <1>1, <1>2, <1>3 DEF SignatureResult, Results, Checks

----------------------------------------------------------------------------
(* The loop *)

LEMMA BlobsOK ==
    ASSUME ArgumentsOK
    PROVE  /\ sig_blobs \in Seq(Blobs) /\ Len(sig_blobs) = Len(nested) + 1
           /\ \A i \in DOMAIN sig_blobs : sig_blobs[i] \in All
           /\ \A b \in All : b \in Blobs /\ \E i \in DOMAIN sig_blobs : b = sig_blobs[i]
<1>1. primary \in Blobs /\ nested \in Seq(Blobs)
  BY DEF ArgumentsOK
<1>2. sig_blobs \in Seq(Blobs) /\ Len(sig_blobs) = Len(nested) + 1 /\ sig_blobs[1] = primary
  BY <1>1 DEF sig_blobs
<1>3. \A i \in 1 .. Len(nested) : sig_blobs[i + 1] = nested[i]
  BY <1>1 DEF sig_blobs
<1>4. ASSUME NEW i \in DOMAIN sig_blobs PROVE sig_blobs[i] \in All
  <2>1. CASE i = 1
    BY <1>2, <2>1 DEF All
  <2>2. CASE i # 1
    <3>1. i - 1 \in 1 .. Len(nested) /\ (i - 1) + 1 = i
      BY <1>1, <1>2, <2>2
    <3>2. sig_blobs[i] = nested[i - 1]
      BY <1>3, <3>1
    <3> QED BY <1>1, <3>1, <3>2 DEF All, Range
  <2> QED BY <2>1, <2>2
<1>5. ASSUME NEW b \in All PROVE b \in Blobs /\ \E i \in DOMAIN sig_blobs : b = sig_blobs[i]
  <2>1. CASE b = primary
    BY <1>1, <1>2, <2>1
  <2>2. CASE b \in Range(nested)
    <3>1. PICK j \in 1 .. Len(nested) : b = nested[j]
      BY <1>1, <2>2 DEF Range
    <3>2. j + 1 \in DOMAIN sig_blobs /\ b = sig_blobs[j + 1]
      BY <1>1, <1>2, <1>3, <3>1
    <3>3. b \in Blobs
      BY <1>1, <3>1
    <3>4. \E i \in DOMAIN sig_blobs : b = sig_blobs[i]
      BY <3>2
    <3> QED BY <3>3, <3>4
  <2> QED BY <2>1, <2>2 DEF All
<1> QED BY <1>2, <1>4, <1>5

LEMMA InitInv == Init => IInv
<1> SUFFICES ASSUME Init PROVE IInv
  OBVIOUS
<1>1. ArgumentsOK
  <2>1. nested \in Seq(Blobs)
    <3>1. CASE input = "signed"
      BY <3>1, VerifyAssumption DEF Init
    <3>2. CASE input # "signed"
      BY <3>2 DEF Init
    <3> QED BY <3>1, <3>2
  <2>2. opts \in [ca_certs : BOOLEAN, ignore_timestamp : BOOLEAN, require_leaf_hash : BOOLEAN]
    BY VerifyAssumption DEF Init
  <2> QED BY <2>1, <2>2 DEF Init, ArgumentsOK
<1>2. Len(sig_blobs) \in Nat
  BY <1>1, BlobsOK
<1> QED BY <1>1, <1>2 DEF Init, IInv, Progress, Ends

LEMMA NextInv == IInv /\ [Next]_vars => IInv'
<1> SUFFICES ASSUME IInv, [Next]_vars PROVE IInv'
  OBVIOUS
<1> USE DEF IInv
<1>1. UNCHANGED arguments
  BY DEF Next, Refuse, BadEnvelope, VerifyBlob, Finish, Fail, vars
<1>2. /\ ArgumentsOK' /\ sig_blobs' = sig_blobs /\ All' = All
      /\ input' = input /\ opts' = opts
  BY <1>1 DEF arguments, ArgumentsOK, sig_blobs, All
<1>3. \A b : SignatureResult(b)' = SignatureResult(b)
  BY <1>2 DEF SignatureResult
<1>4. sig_blobs \in Seq(Blobs) /\ Len(sig_blobs) \in Nat
  BY BlobsOK
<1>5. ASSUME UNCHANGED signatures PROVE Progress'
  BY <1>2, <1>3, <1>5 DEF Progress
<1>6. CASE Refuse
  <2>1. Progress'
    BY <1>5, <1>6 DEF Refuse, Fail
  <2>2. primary.envelope = "unreadable" => \E b \in All : b.envelope # "native"
    BY DEF All
  <2>3. Ends'
    BY <1>2, <1>6, <2>2 DEF Refuse, Fail, Ends
  <2> QED BY <1>2, <2>1, <2>3
<1>7. CASE BadEnvelope
  <2>1. Progress'
    BY <1>5, <1>7 DEF BadEnvelope, Fail
  <2>2. Len(signatures) \in Nat
    BY DEF Progress
  <2>3. Len(signatures) + 1 \in DOMAIN sig_blobs
    BY <1>4, <1>7, <2>2 DEF BadEnvelope, Verifying
  <2>4. blob \in All /\ blob.envelope # "native"
    BY <1>7, <2>3, BlobsOK DEF BadEnvelope, blob
  <2>5. Ends'
    BY <1>2, <1>7, <2>4 DEF BadEnvelope, Fail, Ends
  <2> QED BY <1>2, <2>1, <2>5
<1>8. CASE VerifyBlob
  <2> DEFINE r == SignatureResult(blob)
  <2>1. signatures' = Append(signatures, r) /\ r \in Results /\ signatures \in Seq(Results)
    BY <1>8, ResultOK DEF VerifyBlob, Progress
  <2>2. /\ signatures' \in Seq(Results) /\ Len(signatures') = Len(signatures) + 1
        /\ Len(signatures) \in Nat /\ DOMAIN signatures' = 1 .. Len(signatures) + 1
        /\ signatures'[Len(signatures) + 1] = r
        /\ \A i \in DOMAIN signatures : signatures'[i] = signatures[i]
        /\ DOMAIN signatures = 1 .. Len(signatures)
    <3> HIDE DEF r
    <3> QED BY <2>1
  <2>3. Len(signatures) < Len(sig_blobs) /\ input = "signed"
    BY <1>8 DEF VerifyBlob, Verifying
  <2>4. ASSUME NEW i \in DOMAIN signatures'
        PROVE  sig_blobs[i].envelope = "native" /\ signatures'[i] = SignatureResult(sig_blobs[i])
    <3>1. CASE i \in DOMAIN signatures
      BY <3>1, <2>2 DEF Progress
    <3>2. CASE i = Len(signatures) + 1
      BY <3>2, <2>2, <1>8 DEF VerifyBlob, blob
    <3> QED BY <3>1, <3>2, <2>2
  <2>5. Progress'
    BY <1>2, <1>3, <1>4, <2>2, <2>3, <2>4 DEF Progress
  <2>6. Ends'
    BY <1>2, <1>8 DEF VerifyBlob, Verifying, Ends
  <2> QED BY <1>2, <2>5, <2>6
<1>9. CASE Finish
  <2>1. Progress'
    BY <1>5, <1>9 DEF Finish
  <2>2. Ends'
    BY <1>2, <1>9 DEF Finish, Ends, Progress
  <2> QED BY <1>2, <2>1, <2>2
<1>10. CASE UNCHANGED vars
  <2>1. Progress' /\ Ends'
    BY <1>2, <1>5, <1>10 DEF vars, Ends
  <2> QED BY <1>2, <2>1
<1> QED BY <1>6, <1>7, <1>8, <1>9, <1>10 DEF Next

\* The invariant on which the theorems rest.
LEMMA VerifyInvariant == Spec => []IInv
BY InitInv, NextInv, PTL DEF Spec

----------------------------------------------------------------------------
(* What acceptance means *)

\* Every signature of an accepted file has a result that is all right.
LEMMA AcceptedResults ==
    ASSUME IInv, Accepted, NEW b \in All
    PROVE  /\ input = "signed" /\ b \in Blobs /\ b.envelope = "native"
           /\ verify_digest(b) /\ verify_crypto_signature(b)
           /\ Checked(opts.ca_certs, verify_chain(b)) # "failed"
           /\ ~opts.ignore_timestamp => verify_timestamp(b) # "failed"
<1>1. b \in Blobs /\ \E i \in DOMAIN sig_blobs : b = sig_blobs[i]
  BY BlobsOK DEF IInv
<1>2. PICK i \in DOMAIN sig_blobs : b = sig_blobs[i]
  BY <1>1
<1>3. input = "signed" /\ Len(signatures) = Len(sig_blobs)
  BY DEF IInv, Ends, Accepted
<1>4. i \in DOMAIN signatures
  BY <1>3, BlobsOK DEF IInv, Progress
<1>5. b.envelope = "native" /\ signatures[i] = SignatureResult(b)
  BY <1>2, <1>4 DEF IInv, Progress
<1>6. /\ signatures[i].digest_ok /\ signatures[i].signature_ok
      /\ signatures[i].chain_ok # "failed" /\ signatures[i].timestamp_ok # "failed"
  BY <1>4 DEF Accepted, all_ok
<1>7. /\ SignatureResult(b).digest_ok = verify_digest(b)
      /\ SignatureResult(b).signature_ok = verify_crypto_signature(b)
      /\ SignatureResult(b).chain_ok = Checked(opts.ca_certs, verify_chain(b))
      /\ SignatureResult(b).timestamp_ok =
            IF opts.ignore_timestamp THEN "none" ELSE verify_timestamp(b)
  BY DEF SignatureResult
<1> QED BY <1>1, <1>3, <1>5, <1>6, <1>7

\* Nothing is skipped: a file is accepted only if each of its signatures, the
\* nested ones too, is native, over this image, and every signer of it holds.
THEOREM NothingSkipped == Spec => []EverySignatureHolds
<1>1. IInv => EverySignatureHolds
  <2> SUFFICES ASSUME IInv, Accepted, NEW b \in All
               PROVE  /\ input = "signed"
                      /\ b.envelope = "native" /\ b.content = "matching" /\ b.signers # << >>
                      /\ \A s \in Range(b.signers) : s.digest /\ s.signature
    <3>1. primary \in All
      BY DEF All
    <3> QED BY <3>1 DEF EverySignatureHolds
  <2> QED BY AcceptedResults DEF verify_digest, verify_crypto_signature, Range
<1> QED BY <1>1, VerifyInvariant, PTL

\* With --CAfile, each signature of an accepted file has a signer with a chain
\* to it, and the only signer of a signature is that one.
THEOREM SignersTrusted == Spec => []EverySignerTrusted
<1>1. IInv => EverySignerTrusted
  <2> SUFFICES ASSUME IInv, Accepted, opts.ca_certs, NEW b \in All
               PROVE  /\ \E s \in Range(b.signers) : s.certificate = "trusted"
                      /\ Len(b.signers) = 1 => b.signers[1].certificate = "trusted"
    BY DEF EverySignerTrusted
  <2>1. b \in Blobs /\ verify_chain(b)
    BY AcceptedResults DEF Checked
  <2> DEFINE i == First(Identified(b))
  <2>2. i \in DOMAIN b.signers /\ b.signers[i].certificate = "trusted"
    BY <2>1, IdentifiedFirst DEF verify_chain
  <2>3. Len(b.signers) = 1 => i = 1
    BY <2>1, <2>2, VerifyAssumption
  <2> HIDE DEF i
  <2> QED BY <2>2, <2>3 DEF Range
<1> QED BY <1>1, VerifyInvariant, PTL

\* Unless timestamps are ignored, a signature with an invalid token under
\* Microsoft's OID is accepted only for another one that passes.
THEOREM InvalidTokens == Spec => []InvalidTokenRejected
<1>1. IInv => InvalidTokenRejected
  <2> SUFFICES ASSUME IInv, Accepted, ~opts.ignore_timestamp, NEW b \in All,
                      NEW s \in Range(b.signers),
                      NEW a \in Range(s.attributes), a \in {"spc_invalid", "spc_undecodable"},
                      ~ \E r \in Range(b.signers) : r.token = "valid"
               PROVE  \E r \in Range(b.signers) :
                         \E v \in Range(r.attributes) : v \in {"spc_valid", "spc_signerless"}
    BY DEF InvalidTokenRejected
  <2>1. b \in Blobs /\ verify_timestamp(b) # "failed"
    BY AcceptedResults
  <2>2. PICK i \in DOMAIN b.signers : s = b.signers[i]
    BY DEF Range
  <2>3. PICK k \in DOMAIN s.attributes : a = s.attributes[k]
    BY DEF Range
  <2>4. Stamped(b) # {}
    BY <2>2, <2>3 DEF Stamped, SpcTokens
  <2>5. ~ \E j \in DOMAIN b.signers : b.signers[j].token = "valid"
    BY DEF Range
  <2>6. FirstToken(b) \in {"spc_valid", "spc_signerless"}
    BY <2>1, <2>4, <2>5 DEF verify_timestamp
  <2>7. PICK j \in DOMAIN b.signers : \E l \in SpcTokens(b.signers[j]) :
                FirstToken(b) = b.signers[j].attributes[l]
    BY <2>1, <2>4, FirstTokenHeld
  <2> QED BY <2>6, <2>7 DEF SpcTokens, Range
<1> QED BY <1>1, VerifyInvariant, PTL

\* A file whose signatures have nothing wrong with them is accepted.
THEOREM NothingGoodRejected == Spec => []GoodAccepted
<1>1. IInv => GoodAccepted
  <2> DEFINE Good(b) ==
          /\ b.envelope = "native" /\ b.content = "matching"
          /\ b.signers # << >>
          /\ \A s \in Range(b.signers) :
                /\ s.digest /\ s.signature /\ s.certificate = "trusted" /\ s.leaf
                /\ "spc_invalid" \notin Range(s.attributes)
                /\ "spc_undecodable" \notin Range(s.attributes)
  <2> SUFFICES ASSUME IInv, outcome \in {"done", "error"}, input = "signed",
                      \A b \in All : Good(b)
               PROVE  Accepted
    BY DEF GoodAccepted
  <2>1. outcome = "done" /\ Len(signatures) = Len(sig_blobs)
    BY DEF IInv, Ends
  <2>2. signatures # << >>
    BY <2>1, BlobsOK DEF IInv, ArgumentsOK
  <2>3. ASSUME NEW i \in DOMAIN signatures
        PROVE  /\ signatures[i].digest_ok /\ signatures[i].signature_ok
               /\ signatures[i].chain_ok # "failed" /\ signatures[i].timestamp_ok # "failed"
               /\ signatures[i].leaf_hash_ok # "failed"
    <3> DEFINE b == sig_blobs[i]
    <3>1. i \in DOMAIN sig_blobs
      BY <2>1, BlobsOK DEF IInv, Progress
    <3>2. b \in All /\ b \in Blobs /\ signatures[i] = SignatureResult(b)
      BY <3>1, BlobsOK DEF IInv, Progress
    <3>3. Good(b)
      BY <3>2
    <3> HIDE DEF b
    <3>4. \A j \in DOMAIN b.signers : b.signers[j] \in Range(b.signers)
      BY DEF Range
    <3>5. verify_digest(b) /\ verify_crypto_signature(b)
      BY <3>3, <3>4 DEF verify_digest, verify_crypto_signature
    <3>6. Identified(b) # {}
      BY <3>2, <3>3, <3>4, SignersOK DEF Identified
    <3>7. verify_chain(b) /\ verify_leaf_hash_for_signer(b)
      BY <3>2, <3>3, <3>4, <3>6, IdentifiedFirst DEF verify_chain, verify_leaf_hash_for_signer
    <3>8. ASSUME Stamped(b) # {} PROVE FirstToken(b) \in {"spc_valid", "spc_signerless"}
      <4>1. PICK j \in DOMAIN b.signers : \E l \in SpcTokens(b.signers[j]) :
                    FirstToken(b) = b.signers[j].attributes[l]
        BY <3>2, <3>8, FirstTokenHeld
      <4>2. PICK l \in SpcTokens(b.signers[j]) : FirstToken(b) = b.signers[j].attributes[l]
        BY <4>1
      <4>3. FirstToken(b) \in Range(b.signers[j].attributes)
        BY <4>2 DEF SpcTokens, Range
      <4>4. FirstToken(b) # "spc_invalid" /\ FirstToken(b) # "spc_undecodable"
        BY <3>3, <3>4, <4>3
      <4> QED BY <4>2, <4>4 DEF SpcTokens
    <3>9. verify_timestamp(b) # "failed"
      BY <3>8 DEF verify_timestamp
    <3> QED BY <3>2, <3>5, <3>7, <3>9 DEF SignatureResult, Checked
  <2> QED BY <2>1, <2>2, <2>3 DEF Accepted, all_ok
<1> QED BY <1>1, VerifyInvariant, PTL

=============================================================================

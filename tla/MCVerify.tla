------------------------------ MODULE MCVerify ------------------------------
(***************************************************************************)
(* A primary signature with any one signer, or with two of six kinds, or   *)
(* with what is wrong with its envelope or content, and up to two nested   *)
(* ones of fewer kinds.                                                    *)
(***************************************************************************)
EXTENDS Verify

MCAttributes == {<< >>, << "spc_valid" >>, << "spc_invalid" >>, << "spc_undecodable" >>,
                 << "spc_signerless" >>, << "counter_invalid" >>,
                 << "other", "counter_valid", "spc_invalid" >>, << "spc_valid", "spc_invalid" >>}

MCSigners ==
    [digest : BOOLEAN, signature : BOOLEAN, certificate : {"none", "trusted", "untrusted"},
     leaf : BOOLEAN, token : {"none", "valid", "invalid"}, attributes : MCAttributes]

Good == [digest |-> TRUE, signature |-> TRUE, certificate |-> "trusted", leaf |-> TRUE,
         token |-> "none", attributes |-> << "spc_valid" >>]

Six == {Good, [Good EXCEPT !.digest = FALSE], [Good EXCEPT !.signature = FALSE],
        [Good EXCEPT !.certificate = "none"], [Good EXCEPT !.certificate = "untrusted"],
        [Good EXCEPT !.attributes = << "spc_invalid" >>]}

Blob(envelope, content, signers) ==
    [envelope |-> envelope, content |-> content, signers |-> signers]

Few ==
    {Blob("native", "matching", << s >>) : s \in Six}
      \cup {Blob(e, c, << Good >>) : e \in Envelopes, c \in Contents}
      \cup {Blob("native", "matching", << >>)}

MCBlobs ==
    Few \cup {Blob("native", "matching", << s >>) : s \in MCSigners}
        \cup {Blob("native", "matching", s) : s \in Six \X Six}

MCNested == {<< >>} \cup {<< b >> : b \in Few} \cup {<< Blob("native", "matching", << Good >>), b >> : b \in Few}

MCOptions == [ca_certs : BOOLEAN, ignore_timestamp : BOOLEAN, require_leaf_hash : BOOLEAN]

=============================================================================

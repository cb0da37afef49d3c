---------------------------- MODULE MCTimestamp ----------------------------
(***************************************************************************)
(* Small instances of Timestamp: up to two URLs a list; a blob without     *)
(* signers, a plain one, and one with two signers and an earlier stamp.    *)
(***************************************************************************)
EXTENDS Timestamp

OldStamp == SpcRfc3161([at |-> << "authenticode", 0 >>, nth |-> 1, covers |-> "sig1",
                        content |-> "tst_info", signers |-> 1, certs |-> << >>])

Signer(sig, unsigned) == [signature |-> sig, unsigned |-> unsigned]
Blob(signers, certs)  == [content |-> "native", signers |-> signers, certs |-> certs]

Unsigned == Blob(<< >>, << "leaf" >>)
Fresh    == Blob(<< Signer("sig1", << >>) >>, << "leaf", "ca" >>)
Stamped  == Blob(<< Signer("sig1", << OldStamp >>), Signer("sig2", << >>) >>,
                 << "leaf", "tsa" >>)

MCInputs            == {Unsigned, Fresh, Stamped}
MCTsaCerts          == {<< >>, << "tsa", "ca" >>, << "tsa", "tsa", "root" >>}
MCRfc3161Lists      == {<< >>, << "r1" >>, << "r1", "r2" >>}
MCAuthenticodeLists == {<< >>, << "a1" >>, << "a1", "a2" >>}

NoList    == {<< >>}
LegacyOne == {<< "a1" >>}

=============================================================================

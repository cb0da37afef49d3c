------------------------------ MODULE MCSigning ------------------------------
(***************************************************************************)
(* Three threads on a token with no key, the wrong one, or two of the same *)
(* label; bundles in the right and in the wrong order, without the         *)
(* intermediate certificate, and empty.                                    *)
(***************************************************************************)
EXTENDS SignVerify

MCKeys == {"k1", "k2", "ca"}
MC_ID == [k \in MCKeys |-> CASE k = "k1" -> "01" [] k = "k2" -> "02" [] k = "ca" -> "ca"]
MC_LABEL == [k \in MCKeys |-> IF k = "ca" THEN "ca" ELSE "signing"]
MCTokens == {{}, {"k2"}, {"k1", "k2"}}
MCKeyIds == {[kind |-> "empty", value |-> "none"], [kind |-> "hex", value |-> "01"],
             [kind |-> "hex", value |-> "02"], [kind |-> "label", value |-> "signing"]}

Leaf         == [key |-> "k1", signed_by |-> "k2"]
Intermediate == [key |-> "k2", signed_by |-> "ca"]
Root         == [key |-> "ca", signed_by |-> "ca"]
MCCerts      == {Leaf, Intermediate, Root}
MCBundles    == {<< >>, << Leaf >>, << Leaf, Intermediate >>, << Intermediate, Leaf >>}
MCCaFile     == << Root >>

Request == [kind |-> "pe", image |-> "this", algorithm |-> "sha256", hash_algo |-> "sha256",
            program_name |-> "none", stamped |-> FALSE]
Stamped == [Request EXCEPT !.stamped = TRUE, !.program_name = "ascii"]
Remote  == [Request EXCEPT !.kind = "content", !.image = "other", !.algorithm = "sha384"]
MCRequests ==
    {Request, Stamped, Remote,
     [Request EXCEPT !.hash_algo = "sha1"], [Remote EXCEPT !.kind = "not_content"],
     [Stamped EXCEPT !.program_name = "not_ascii"]}

\* Three requests at once, and three that are refused before the token is asked.
MCJobs ==
    {<< Request, Remote, Stamped >>,
     << [Request EXCEPT !.hash_algo = "sha1"], [Stamped EXCEPT !.program_name = "not_ascii"],
        [Remote EXCEPT !.kind = "not_content"] >>}

MCMessages == {signed_attributes(r) : r \in MCRequests}

=============================================================================

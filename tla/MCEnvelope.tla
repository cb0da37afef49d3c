----------------------------- MODULE MCEnvelope -----------------------------
(***************************************************************************)
(* Bytes 0..15: lengths below 8 are short, up to 15 they take one digit,   *)
(* up to 255 two, from 256 on three.  The contents and what follows them   *)
(* bring every container across each of these boundaries.                  *)
(***************************************************************************)
EXTENDS Envelope

\* A bare content: a SEQUENCE that leads with a SEQUENCE.
Content(n) == emit_tlv(SEQUENCE, emit_tlv(SEQUENCE, [i \in 1 .. n |-> 5]))
Rest(n)    == emit_tlv(SET, [i \in 1 .. n |-> 7])

MCContents == {Content(n) : n \in 0 .. 12}
MCRests    == {Rest(n) : n \in {0, 3, 190, 200, 208, 214, 220, 226}}

\* Not a SEQUENCE; an indefinite length; a length past the end; no content;
\* an empty eContent; no version.
Detached(encap) ==
    emit_tlv(SEQUENCE, ContentType \o emit_tlv(CONTEXT_0, emit_tlv(SEQUENCE,
        CMS_SIGNED_DATA_VERSION \o Algorithms \o emit_tlv(SEQUENCE, encap))))

MCOthers == {
    << >>, << SEQUENCE >>, << SET, 0 >>, << SEQUENCE, Half, 0, 0 >>, << SEQUENCE, 5, OID, 0 >>,
    emit_tlv(SEQUENCE, ContentType),
    Detached(ContentType),
    Detached(ContentType \o emit_tlv(CONTEXT_0, << >>)),
    emit_tlv(SEQUENCE, ContentType \o emit_tlv(CONTEXT_0, emit_tlv(SEQUENCE,
        Algorithms \o emit_tlv(SEQUENCE, ContentType \o emit_tlv(CONTEXT_0, Content(1)))))) }

=============================================================================

------------------------------ MODULE Envelope ------------------------------
(***************************************************************************)
(* The envelope fix-up of crypto/signing.rs: DER lengths and headers, the  *)
(* walk down the five containers around the content of a SignedData, and   *)
(* the splice that converts it between the native Authenticode form and    *)
(* the OCTET STRING form of RFC 5652.                                      *)
(*                                                                         *)
(* A buffer is a sequence of bytes 0..Base-1; offsets count from 0.  A     *)
(* length below Half (0x80) is one byte, any other is the byte Half + n    *)
(* followed by n digits in Base.  Base is 256 in the program.              *)
(***************************************************************************)
EXTENDS Integers, Sequences

CONSTANTS
    Base,
    SEQUENCE, SET, INTEGER, OCTET_STRING, OID, CONTEXT_0,   \* tags
    Contents,   \* SpcIndirectDataContent values, as DER
    Rests,      \* what follows encapContentInfo: certificates, signerInfos
    Others      \* buffers that are no SignedData with content

Half == Base \div 2
Byte == 0 .. Base - 1

ASSUME EnvelopeAssumption ==
    /\ Base \in Nat /\ Base % 2 = 0 /\ Half > 5
    /\ {SEQUENCE, SET, INTEGER, OCTET_STRING, OID, CONTEXT_0} \subseteq Byte
    /\ CONTEXT_0 \notin {SEQUENCE, SET, INTEGER, OCTET_STRING, OID}
    /\ OCTET_STRING # SEQUENCE /\ SEQUENCE \notin {SET, INTEGER, OID}
    /\ Contents \cup Rests \cup Others \subseteq Seq(Byte)

Slice(b, from, to) == SubSeq(b, from + 1, to)
Zeros(n) == [i \in 1 .. n |-> 0]

----------------------------------------------------------------------------
(* Writing *)

\* n without its last i digits, for each i.
Shifted(n) == LET q[i \in 0 .. 8] == IF i = 0 THEN n ELSE q[i-1] \div Base IN q

\* How many digits of the eight are left when the leading zeros are dropped.
Width(n) == CHOOSE k \in 1 .. 8 : Shifted(n)[k] = 0 /\ (k = 1 \/ Shifted(n)[k-1] # 0)

Digits(n, k) == LET q == Shifted(n) IN [i \in 1 .. k |-> q[k-i] % Base]

encode_len(n) ==
    IF n < Half THEN << n >> ELSE << Half + Width(n) >> \o Digits(n, Width(n))

emit_tlv(tag, content) == << tag >> \o encode_len(Len(content)) \o content

----------------------------------------------------------------------------
(* Reading *)

Malformed == [ok |-> FALSE]

BigEndian(s) ==
    LET num[i \in 0 .. Len(s)] == IF i = 0 THEN 0 ELSE num[i-1] * Base + s[i]
    IN  num[Len(s)]

\* Mutant: a length may take as many digits as are fewer than four.
MaxDigits_OneLess == 3
MaxDigits == 4

\* The value at pos: its tag, where it starts, where its content does, and its
\* end, which is compared with the buffer's and not with its container's.
read_header(b, pos) ==
    IF pos + 1 >= Len(b) THEN Malformed
    ELSE LET l0  == b[pos + 2]
             n   == IF l0 < Half THEN 0 ELSE l0 - Half
             cs  == pos + 2 + n
             len == IF l0 < Half THEN l0 ELSE BigEndian(Slice(b, pos + 2, cs))
         IN  IF l0 >= Half /\ (n = 0 \/ n > MaxDigits \/ cs > Len(b)) THEN Malformed
             ELSE IF cs + len > Len(b) THEN Malformed
             ELSE [ok |-> TRUE, tag |-> b[pos + 1], full |-> pos, cs |-> cs, ce |-> cs + len]

\* The values between start and end, each where the one before it ends; the
\* last is Malformed if it cannot be read.
children(b, start, end) ==
    LET from[p \in start .. end - 1] ==
            LET h == read_header(b, p)
            IN  {h} \cup (IF h.ok /\ h.ce < end THEN from[h.ce] ELSE {})
    IN  IF start < end THEN from[start] ELSE {}

\* iter().find: the first of these values with one of these tags, if every one
\* of them could be read.
First(kids, tags) ==
    LET found == {h \in kids : h.tag \in tags}
    IN  IF (\A h \in kids : h.ok) /\ found # {}
        THEN CHOOSE h \in found : \A k \in found : h.full <= k.full
        ELSE Malformed

Child(b, parent, tags) ==
    IF parent.ok THEN First(children(b, parent.cs, parent.ce), tags) ELSE Malformed

FirstChild(b, parent) == Child(b, parent, Byte)

Root(b) ==
    LET h == read_header(b, 0)
    IN  IF h.ok /\ h.tag = SEQUENCE THEN h ELSE Malformed

\* ContentInfo, [0], SignedData, encapContentInfo, eContent [0]: each is the first
\* child with its tag of the one before.  Then the version, which is the first child of
\* SignedData, and the content, which is the first of eContent.
SpineTags == << CONTEXT_0, SEQUENCE, SEQUENCE, CONTEXT_0 >>

Spine(b) ==
    LET l[i \in 0 .. 4] == IF i = 0 THEN Root(b) ELSE Child(b, l[i-1], {SpineTags[i]})
    IN  [l0 |-> l[0], l1 |-> l[1], l2 |-> l[2], version |-> FirstChild(b, l[2]),
         l3 |-> l[3], l4 |-> l[4], l5 |-> FirstChild(b, l[4])]

----------------------------------------------------------------------------
(* rewrite_authenticode_content *)

AUTHENTICODE_SIGNED_DATA_VERSION == << INTEGER, 1, 1 >>
CMS_SIGNED_DATA_VERSION          == << INTEGER, 1, 3 >>

\* What a container holds when another value takes the place of one of its own.
Replaced(b, outer, inner, value) ==
    Slice(b, outer.cs, inner.full) \o value \o Slice(b, inner.ce, outer.ce)

\* Mutant: the version is carried over like the other siblings.
SignedDataHead_KeepsVersion(b, s, target_version) == Slice(b, s.l2.cs, s.l3.full)

\* SignedData up to encapContentInfo, with the version it needs.
SignedDataHead(b, s, target_version) ==
    target_version \o Slice(b, s.version.ce, s.l3.full)

\* The splice along the spine s of b: the content goes in, every container around
\* it is written anew.
Spliced(b, s, target_version, content) ==
    LET new_l4 == emit_tlv(CONTEXT_0, content)
        new_l3 == emit_tlv(SEQUENCE, Replaced(b, s.l3, s.l4, new_l4))
        new_l2 == emit_tlv(SEQUENCE, SignedDataHead(b, s, target_version)
                                     \o new_l3 \o Slice(b, s.l3.ce, s.l2.ce))
        new_l1 == emit_tlv(CONTEXT_0, Replaced(b, s.l1, s.l2, new_l2))
    IN  emit_tlv(SEQUENCE, Replaced(b, s.l0, s.l1, new_l1))

\* What has a content and a version.
Complete(s) == s.l5.ok /\ s.version.tag = INTEGER

Readable(b) == Complete(Spine(b))

Result(der) == [ok |-> TRUE, der |-> der]

\* Mutant: content in the wanted form is returned whatever the version is.
RewriteAlong_AnyVersion(b, s, wrap) ==
    LET version == IF wrap THEN CMS_SIGNED_DATA_VERSION
                   ELSE AUTHENTICODE_SIGNED_DATA_VERSION
        content == IF wrap THEN emit_tlv(OCTET_STRING, Slice(b, s.l5.full, s.l5.ce))
                   ELSE Slice(b, s.l5.cs, s.l5.ce)
    IN  IF ~Complete(s) THEN Malformed
        ELSE IF wrap = (s.l5.tag = OCTET_STRING) THEN Result(b)
        ELSE Result(Spliced(b, s, version, content))

\* b, whose spine is s, with its content in the wanted form and the version that goes
\* with it.
RewriteAlong(b, s, wrap) ==
    LET target_version  == IF wrap THEN CMS_SIGNED_DATA_VERSION
                           ELSE AUTHENTICODE_SIGNED_DATA_VERSION
        version_matches == Slice(b, s.version.full, s.version.ce) = target_version
        wrapped         == s.l5.tag = OCTET_STRING
        content == IF wrap = wrapped THEN Slice(b, s.l4.cs, s.l4.ce)
                   ELSE IF wrap THEN emit_tlv(OCTET_STRING, Slice(b, s.l5.full, s.l5.ce))
                   ELSE Slice(b, s.l5.cs, s.l5.ce)
    IN  IF ~Complete(s) THEN Malformed
        ELSE IF wrap = wrapped /\ version_matches THEN Result(b)
        ELSE Result(Spliced(b, s, target_version, content))

rewrite_authenticode_content(b, wrap) == RewriteAlong(b, Spine(b), wrap)

normalize_authenticode_signature(b) == rewrite_authenticode_content(b, FALSE)
wrap_authenticode_content(b)        == rewrite_authenticode_content(b, TRUE)

check_authenticode_envelope(b) == normalize_authenticode_signature(b) = Result(b)

----------------------------------------------------------------------------
(* parse_spc_indirect_data: the content, from whichever envelope *)

\* Mutant: the wrapper is taken for the content.
spc_content_from_pkcs7_KeepsWrapper(b) ==
    LET l5 == Spine(b).l5
    IN  IF l5.ok THEN Result(Slice(b, l5.full, l5.ce)) ELSE Malformed

spc_content_from_pkcs7(b) ==
    LET l5 == Spine(b).l5
    IN  IF ~l5.ok THEN Malformed
        ELSE IF l5.tag = OCTET_STRING THEN Result(Slice(b, l5.cs, l5.ce))
        ELSE Result(Slice(b, l5.full, l5.ce))

\* A ContentInfo leads with an OID, a bare content with a SEQUENCE.
extract_spc_content(b) ==
    LET first == FirstChild(b, Root(b))
    IN  IF ~first.ok THEN Malformed
        ELSE IF first.tag = SEQUENCE THEN Result(b)
        ELSE IF first.tag = OID THEN spc_content_from_pkcs7(b)
        ELSE Malformed

----------------------------------------------------------------------------
(* The SignedData that reach the program: from its CMS builder, a remote      *)
(* signer, another tool's image.                                              *)

\* A length written with one digit more than it needs.
LongTlv(tag, content) ==
    LET k == Width(Len(content)) + 1
    IN  << tag, Half + k >> \o Digits(Len(content), k) \o content

ContentType == << OID, 1, 2 >>
Algorithms  == << SET, 2, OID, 0 >>

\* The blob of this view, from the inside out, without the trailing bytes.
Encode(v) ==
    LET tlv(tag, content) == IF v.long THEN LongTlv(tag, content) ELSE emit_tlv(tag, content)
        value    == IF v.form = "wrapped" THEN emit_tlv(OCTET_STRING, v.parts.content)
                    ELSE v.parts.content
        encap    == tlv(SEQUENCE, ContentType \o tlv(CONTEXT_0, value))
        signed   == tlv(SEQUENCE, << INTEGER, 1, v.version >> \o Algorithms
                                  \o encap \o v.parts.rest)
    IN  tlv(SEQUENCE, ContentType \o tlv(CONTEXT_0, signed))

Views(parts) ==
    [parts : {parts}, form : {"native", "wrapped"}, version : {1, 3},
     long : BOOLEAN, pad : {0}]

NoParts == [none |-> TRUE]

\* A content is one value that leads with a SEQUENCE, what follows
\* encapContentInfo is a row of values, and no length in the blob needs more
\* than three digits, so that read_header takes it with one more.
ASSUME InputsAssumption ==
    /\ \A c \in Contents : /\ Root(c).ok /\ Root(c).ce = Len(c)
                           /\ FirstChild(c, Root(c)).ok
                           /\ FirstChild(c, Root(c)).tag = SEQUENCE
    /\ \A r \in Rests : \A h \in children(r, 0, Len(r)) : h.ok
    /\ \A c \in Contents, r \in Rests : Len(c) + Len(r) + 64 < Base * Base * Base
    /\ \A b \in Others : ~Readable(b)

\* What these bytes are an encoding of, if they are one of these parts.
Decoded(b, parts) ==
    LET Match(e)  == Len(e) <= Len(b) /\ b = e \o Zeros(Len(b) - Len(e))
        matching  == {v \in Views(parts) : Match(Encode(v))}
    IN  IF parts = NoParts THEN [form |-> "unreadable"]
        ELSE IF matching = {} THEN [form |-> "garbled"]
        ELSE LET v == CHOOSE v \in matching : TRUE
             IN  [v EXCEPT !.pad = Len(b) - Len(Encode(v))]

----------------------------------------------------------------------------
(* A blob on its way: rewritten, embedded, extracted, in any order *)

VARIABLES
    blob,    \* the bytes
    failed,  \* whether the last operation returned an error
    parts,   \* history: what it was made of, or NoParts for Others
    view     \* history: what blob is an encoding of now

vars == << blob, failed, parts, view >>

Init ==
    /\ failed = FALSE
    /\ \/ /\ parts \in [content : Contents, rest : Rests]
          /\ view \in Views(parts)
          /\ blob = Encode(view)
       \/ /\ parts = NoParts
          /\ blob \in Others
          /\ view = Decoded(blob, parts)

\* The caller goes on with the result, or stops at the error.
Apply(rewritten) ==
    /\ ~failed
    /\ \E result \in {rewritten} :
           /\ blob' = IF result.ok THEN result.der ELSE blob
           /\ view' = IF result.ok THEN Decoded(result.der, parts) ELSE view
           /\ failed' = ~result.ok
    /\ UNCHANGED parts

Normalize == Apply(normalize_authenticode_signature(blob))
Wrap      == Apply(wrap_authenticode_content(blob))

\* write_signed_pe and extract_signature: the blob with its padding, up to
\* the next multiple of 8.  Only a readable blob is ever embedded.
EmbedExtract ==
    /\ ~failed
    /\ Spine(blob).l5.ok
    /\ \E padded \in {blob \o Zeros((8 - (Len(blob) % 8)) % 8)} :
           /\ blob' = padded
           /\ view' = Decoded(padded, parts)
    /\ UNCHANGED << parts, failed >>

Next == Normalize \/ Wrap \/ EmbedExtract

Spec == Init /\ [][Next]_vars

----------------------------------------------------------------------------
(* Properties *)

\* The splice implements its promise: the blob always is an encoding of the
\* parts it was made of, and each rewrite changes form and version as Blob says.
Promise == INSTANCE Blob WITH view <- view
PromiseKept == Promise!Spec

\* The content is recovered byte for byte from every envelope the blob goes
\* through, and from the bare content, as a remote signer relies on.
ContentRecovered ==
    parts # NoParts =>
        /\ extract_spc_content(blob) = Result(parts.content)
        /\ extract_spc_content(parts.content) = Result(parts.content)

\* The envelope check of verify accepts exactly version 1 with native content,
\* with and without padding, whatever its lengths look like.
CheckIsExact ==
    check_authenticode_envelope(blob) <=>
        parts # NoParts /\ view.form = "native" /\ view.version = 1

\* An error is returned for what has no content, and for nothing else.
FailsOnlyUnreadable == failed => parts = NoParts

=============================================================================

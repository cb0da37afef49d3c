------------------------------ MODULE PeImage ------------------------------
(***************************************************************************)
(* The PE container of format/pe.rs: parsing, the Authenticode digest, the *)
(* certificate table and the two whole-file rewrites, as operators on the  *)
(* bytes of a file.                                                        *)
(*                                                                         *)
(* A file is a sequence of bytes 0..Base-1; the byte at file offset a is   *)
(* f[a+1].  Base is 256 in the program; a smaller Base scales every        *)
(* fixed-width integer with it, so a u16 is taken modulo Base^2 and a u32  *)
(* modulo Word = Base^4, and overflow is met by small files.  The widths   *)
(* (2, 4 and 8 bytes) and the quad-word alignment are the program's own.   *)
(* The header offsets are parameters so that TLC's images stay short.      *)
(***************************************************************************)
EXTENDS Integers, Sequences

CONSTANTS
    Base,              \* values of a byte (256)
    LFANEW_AT,         \* offset of e_lfanew (0x3C)
    MIN_FILE,          \* shortest file parse_pe looks into (64)
    MIN_HEADER,        \* smallest e_lfanew accepted (44)
    OPT_MAGIC_AT,      \* offsets from the PE signature (24)
    CHECKSUM_AT,       \*   ... of the checksum field (88)
    RVAS_AT,           \*   ... of NumberOfRvaAndSizes (116)
    CERT_TABLE_AT,     \*   ... of the certificate table entry (152)
    PE32PLUS_SHIFT,    \* how much further the last two are in PE32+ (16)
    HEADERS,           \* bytes parse_pe wants after e_lfanew (176)
    DOS_MAGIC, PE_SIGNATURE, PE32_MAGIC, PE32PLUS_MAGIC,
    WIN_CERT_REVISION_2_0, WIN_CERT_TYPE_PKCS_SIGNED_DATA

Word == Base * Base * Base * Base
Byte == 0 .. Base - 1
U16s == 0 .. Base * Base - 1
U32s == 0 .. Word - 1

(***************************************************************************)
(* What the program's numbers satisfy: the fields parse_pe reads are       *)
(* disjoint where it matters and the directory entry ends the headers.     *)
(***************************************************************************)
ASSUME BaseAssumption == Base \in Nat /\ Base >= 4

ASSUME LayoutAssumption ==
    /\ LFANEW_AT \in Nat /\ LFANEW_AT >= 2
    /\ MIN_FILE \in Nat /\ MIN_FILE >= LFANEW_AT + 4
    /\ MIN_HEADER \in Nat /\ MIN_HEADER >= 2
    /\ OPT_MAGIC_AT \in Nat /\ OPT_MAGIC_AT >= 4
    /\ CHECKSUM_AT \in Nat /\ CHECKSUM_AT >= OPT_MAGIC_AT + 2
    /\ MIN_HEADER + CHECKSUM_AT >= LFANEW_AT + 4
    /\ RVAS_AT \in Nat /\ RVAS_AT >= CHECKSUM_AT + 4
    /\ CERT_TABLE_AT \in Nat /\ CERT_TABLE_AT >= RVAS_AT + 4
    /\ PE32PLUS_SHIFT \in Nat
    /\ HEADERS = CERT_TABLE_AT + PE32PLUS_SHIFT + 8
    /\ MIN_HEADER + HEADERS >= MIN_FILE

ASSUME MagicAssumption ==
    /\ {DOS_MAGIC, PE32_MAGIC, PE32PLUS_MAGIC, WIN_CERT_REVISION_2_0,
        WIN_CERT_TYPE_PKCS_SIGNED_DATA} \subseteq U16s
    /\ PE_SIGNATURE \in U32s
    /\ PE32_MAGIC # PE32PLUS_MAGIC

----------------------------------------------------------------------------
(* Little-endian integers, reads and writes *)

Put16(n) == << n % Base, (n \div Base) % Base >>
Put32(n) ==
    LET n1 == n \div Base
        n2 == n1 \div Base
        n3 == n2 \div Base
    IN  << n % Base, n1 % Base, n2 % Base, n3 % Base >>

read_u16(f, a) == f[a+1] + Base * f[a+2]
read_u32(f, a) == f[a+1] + Base * (f[a+2] + Base * (f[a+3] + Base * f[a+4]))

Zeros(n) == [i \in 1 .. n |-> 0]

\* Mutant: a whole quad-word of padding after an aligned length.
PadLen_Always(n) == 8 - (n % 8)

\* Zero bytes that bring a length to the next quad-word boundary.
PadLen(n) == (8 - (n % 8)) % 8

\* hash_range, copy_range: the bytes from start up to end, or up to the end
\* of the file when that comes first; none when end <= start.
Bytes(f, start, end) ==
    LET stop == IF end <= Len(f) THEN end ELSE Len(f)
    IN  [i \in 1 .. stop - start |-> f[start + i]]

\* seek and write_all: a write past the end leaves a hole of zeros.
write_at(f, at, bytes) ==
    LET newlen == IF at + Len(bytes) > Len(f) THEN at + Len(bytes) ELSE Len(f)
    IN  IF bytes = << >> THEN f
        ELSE [i \in 1 .. newlen |->
                 IF at < i /\ i <= at + Len(bytes) THEN bytes[i - at]
                 ELSE IF i <= Len(f) THEN f[i]
                 ELSE 0]

----------------------------------------------------------------------------
(* parse_pe *)

header_size(f) == read_u32(f, LFANEW_AT)
opt_magic(f)   == read_u16(f, header_size(f) + OPT_MAGIC_AT)
shift(f)       == IF opt_magic(f) = PE32PLUS_MAGIC THEN PE32PLUS_SHIFT ELSE 0

filesize(f) == Len(f) % Word

\* Every check parse_pe makes before it reads the directory entry.  A header
\* that starts so late that header_size + HEADERS wraps is rejected by the
\* reads, which meet the end of the file.
HeadersValid(f) ==
    /\ filesize(f) >= MIN_FILE
    /\ read_u16(f, 0) = DOS_MAGIC
    /\ header_size(f) >= MIN_HEADER
    /\ header_size(f) <= filesize(f)
    /\ filesize(f) >= (header_size(f) + HEADERS) % Word
    /\ header_size(f) + HEADERS <= Len(f)
    /\ read_u32(f, header_size(f)) = PE_SIGNATURE
    /\ opt_magic(f) \in {PE32_MAGIC, PE32PLUS_MAGIC}
    /\ read_u32(f, header_size(f) + RVAS_AT + shift(f)) >= 5

checksum_offset(f)   == header_size(f) + CHECKSUM_AT
cert_table_offset(f) == header_size(f) + CERT_TABLE_AT + shift(f)

\* Mutant: only the size of the entry is looked at.
Trailing_AnyStart(f) ==
    LET sigpos == read_u32(f, cert_table_offset(f))
        siglen == read_u32(f, cert_table_offset(f) + 4)
    IN  /\ siglen # 0
        /\ sigpos < filesize(f)
        /\ (sigpos + siglen) % Word = filesize(f)

\* A directory entry counts only when its table ends the file (u32 sum).
Trailing(f) ==
    LET sigpos == read_u32(f, cert_table_offset(f))
        siglen == read_u32(f, cert_table_offset(f) + 4)
    IN  /\ sigpos # 0 /\ siglen # 0
        /\ sigpos < filesize(f)
        /\ (sigpos + siglen) % Word = filesize(f)

InvalidPe == [ok |-> FALSE]

parse_pe(f) ==
    IF ~HeadersValid(f) THEN InvalidPe
    ELSE [ok                |-> TRUE,
          checksum_offset   |-> checksum_offset(f),
          cert_table_offset |-> cert_table_offset(f),
          sigpos  |-> IF Trailing(f) THEN read_u32(f, cert_table_offset(f)) ELSE 0,
          siglen  |-> IF Trailing(f) THEN read_u32(f, cert_table_offset(f) + 4) ELSE 0,
          fileend |-> filesize(f)]

\* Where the data ends and the certificate table of this file begins.
data_end(pe) == IF pe.sigpos > 0 THEN pe.sigpos ELSE pe.fileend

----------------------------------------------------------------------------
(* authenticode_digest: the bytes that reach the hasher *)

authenticode_digest(f, pe) ==
       Bytes(f, 0, pe.checksum_offset)
    \o Bytes(f, pe.checksum_offset + 4, pe.cert_table_offset)
    \o Bytes(f, pe.cert_table_offset + 8, data_end(pe))
    \o Zeros(PadLen(data_end(pe)))

----------------------------------------------------------------------------
(* The certificate table *)

CertLen(der) == (Len(der) + 8 + PadLen(Len(der))) % Word

WinCertificate(der) ==
       Put32(CertLen(der))
    \o Put16(WIN_CERT_REVISION_2_0)
    \o Put16(WIN_CERT_TYPE_PKCS_SIGNED_DATA)
    \o der
    \o Zeros(PadLen(Len(der)))

NoSignature    == [is |-> "none"]
BadTable       == [is |-> "error"]
NeverReturns   == [is |-> "diverges"]
Signature(der) == [is |-> "some", der |-> der]

IsPkcs(f, at) ==
    /\ read_u16(f, at + 4) = WIN_CERT_REVISION_2_0
    /\ read_u16(f, at + 6) = WIN_CERT_TYPE_PKCS_SIGNED_DATA

\* The iteration of extract_signature at this offset returns or ends the loop.
WalkEnds(f, pe, pos) ==
    LET at == (pe.sigpos + pos) % Word
    IN  \/ pos >= pe.siglen
        \/ at + 8 > Len(f)
        \/ read_u32(f, at) < 8
        \/ IsPkcs(f, at)

\* ... and what it then returns: read_exact fails when the entry claims more
\* bytes than the file has.
WalkResult(f, pe, pos) ==
    LET at  == (pe.sigpos + pos) % Word
        len == read_u32(f, at)
    IN  IF pos >= pe.siglen THEN NoSignature
        ELSE IF at + 8 > Len(f) THEN BadTable
        ELSE IF len < 8 \/ at + len > Len(f) THEN BadTable
        ELSE Signature(Bytes(f, at + 8, at + len))

\* `len` rounded up to a quad-word, and added to pos, both in u32.
NextEntry(f, pe, pos) ==
    LET len == read_u32(f, (pe.sigpos + pos) % Word)
    IN  (pos + ((len + PadLen(len)) % Word)) % Word

\* The first entry decides in every table this program writes; otherwise the
\* loop walks on, at least 8 bytes an entry unless an addition wraps.  A walk
\* longer than the table has wrapped and never returns.
extract_signature(f, pe) ==
    IF pe.sigpos = 0 \/ pe.siglen = 0 THEN NoSignature
    ELSE IF WalkEnds(f, pe, 0) THEN WalkResult(f, pe, 0)
    ELSE LET steps == (pe.siglen \div 8) + 1
             advance == [p \in U32s |-> IF WalkEnds(f, pe, p) THEN p
                                        ELSE NextEntry(f, pe, p)]
             pos[k \in 0 .. steps] == IF k = 0 THEN 0 ELSE advance[pos[k-1]]
         IN  IF WalkEnds(f, pe, pos[steps])
             THEN WalkResult(f, pe, pos[steps])
             ELSE NeverReturns

----------------------------------------------------------------------------
(* pe_calc_checksum: a folding sum of 16-bit words, the field skipped, the  *)
(* last byte of an odd file left out, and the file size on top (u32).       *)

Fold16[n \in 0 .. 2 * Base * Base] == (n % (Base * Base)) + (n \div (Base * Base))

\* Mutant: only the low half of the checksum field is skipped.
words_HalfField(f, field) ==
    [i \in 1 .. Len(f) \div 2 |->
        LET offset == 2 * (i - 1)
        IN  IF offset = field THEN 0 ELSE read_u16(f, offset)]

\* The words that are added up, those of the checksum field as zero.
words(f, field) ==
    [i \in 1 .. Len(f) \div 2 |->
        LET offset == 2 * (i - 1)
        IN  IF offset \in {field, field + 2} THEN 0 ELSE read_u16(f, offset)]

folded_sum(w) ==
    LET sum[i \in 0 .. Len(w)] == IF i = 0 THEN 0 ELSE Fold16[sum[i-1] + w[i]]
    IN  sum[Len(w)]

pe_calc_checksum(f, field) ==
    (Fold16[folded_sum(words(f, field))] + (Len(f) % Word)) % Word

----------------------------------------------------------------------------
(* write_signed_pe_to and write_unsigned_pe_to: what each step leaves *)

Copied(f, pe) == Bytes(f, 0, data_end(pe))

ZeroedChecksum(f, pe) == write_at(Copied(f, pe), pe.checksum_offset, Zeros(4))

Zeroed(f, pe) == write_at(ZeroedChecksum(f, pe), pe.cert_table_offset, Zeros(8))

Padded(f, pe) == Zeroed(f, pe) \o Zeros(PadLen(Len(Zeroed(f, pe))))

Certified(f, pe, der) == Padded(f, pe) \o WinCertificate(der)

DirEntry(f, pe, der) ==
    Put32(Len(Padded(f, pe)) % Word) \o Put32(CertLen(der))

Directed(f, pe, der) ==
    write_at(Certified(f, pe, der), pe.cert_table_offset, DirEntry(f, pe, der))

WithChecksum(g, pe) ==
    write_at(g, pe.checksum_offset, Put32(pe_calc_checksum(g, pe.checksum_offset)))

write_signed_pe_to(f, pe, der) == WithChecksum(Directed(f, pe, der), pe)

write_unsigned_pe_to(f, pe) == WithChecksum(Zeroed(f, pe), pe)

----------------------------------------------------------------------------
(* Preconditions of the properties *)

\* The image parses and its certificate table, if any, starts after the
\* headers.  parse_pe does not check the latter.
WellFormed(f) ==
    /\ f \in Seq(Byte)
    /\ HeadersValid(f)
    /\ parse_pe(f).sigpos = 0 \/ parse_pe(f).sigpos >= header_size(f) + HEADERS

\* Neither the image nor the signed output outgrows a u32.
Fits(f, der) == Len(f) + Len(der) + 22 < Word

PaddedDer(der) == der \o Zeros(PadLen(Len(der)))

=============================================================================

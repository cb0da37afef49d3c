------------------------------ MODULE PeWriter ------------------------------
(***************************************************************************)
(* One run of write_signed_pe or write_unsigned_pe (format/pe.rs) after    *)
(* the caller's parse_pe, one action per system call that touches a file:  *)
(* the input is open for reading, the output is opened with truncation and *)
(* rewritten in place, with no temporary file and no rename.  Any call may *)
(* fail, a write possibly after part of it reached the file, and a killed  *)
(* process leaves the same files behind.                                   *)
(***************************************************************************)
EXTENDS PeImage

CONSTANTS
    Source, Target,   \* the --in and --out paths, equal when signing in place
    Inputs,           \* what Source may hold when the command starts
    Stale,            \* what Target held before
    Ders,             \* PKCS#7 blobs to embed
    Buf,              \* bytes copy_range moves per read (65536)
    Meddling          \* whether another process may empty Source meanwhile

ASSUME InputsAssumption ==
    /\ Inputs \subseteq Seq(Byte)
    /\ Stale \in Seq(Byte)
    /\ Ders \subseteq Seq(Byte)
    /\ Buf \in Nat \ {0}
    /\ Meddling \in BOOLEAN

VARIABLES
    disk,         \* path -> contents
    pc,           \* the next system call
    op,           \* "sign" or "remove"
    der,          \* the blob to embed
    pe,           \* PeInfo of the input
    copied,       \* how far copy_range has come
    new_sigpos,   \* where the certificate table will start
    checksum,     \* the value pe_calc_checksum returned
    image,        \* history: the input as it was parsed
    opened        \* history: whether the output has been opened

vars == << disk, pc, op, der, pe, copied, new_sigpos, checksum, image, opened >>

Paths == {Source, Target}

Init ==
    /\ image \in Inputs
    /\ disk = [p \in Paths |-> IF p = Source THEN image ELSE Stale]
    /\ pc = "parse"
    /\ op \in {"sign", "remove"}
    /\ der \in Ders
    /\ pe = InvalidPe
    /\ copied = 0
    /\ new_sigpos = 0
    /\ checksum = 0
    /\ opened = FALSE

----------------------------------------------------------------------------
(* The writes: what a step that writes is about to put where *)

output == disk[Target]

\* Mutant: whole buffers are read, past the end of the range.
chunk_WholeBuffers == Bytes(disk[Source], copied, copied + Buf)

\* copy_range's next read, empty at the end of the range or of the input.
chunk ==
    LET upto == IF copied + Buf < data_end(pe) THEN copied + Buf ELSE data_end(pe)
    IN  Bytes(disk[Source], copied, upto)

Pending ==
    CASE pc = "copy"            -> [at |-> copied, bytes |-> chunk]
      [] pc = "zero_checksum"   -> [at |-> pe.checksum_offset, bytes |-> Zeros(4)]
      [] pc = "zero_cert_table" -> [at |-> pe.cert_table_offset, bytes |-> Zeros(8)]
      [] pc = "pad"             -> [at |-> Len(output),
                                    bytes |-> Zeros(PadLen(Len(output)))]
      [] pc = "append"          -> [at |-> Len(output), bytes |-> WinCertificate(der)]
      [] pc = "update_dir"      -> [at |-> pe.cert_table_offset,
                                    bytes |-> Put32(new_sigpos) \o Put32(CertLen(der))]
      [] pc = "write_checksum"  -> [at |-> pe.checksum_offset, bytes |-> Put32(checksum)]
      [] OTHER                  -> [at |-> 0, bytes |-> << >>]

Written == write_at(output, Pending.at, Pending.bytes)

PerformWrite(from, to) ==
    /\ pc = from
    /\ pc' = to
    /\ disk' = [disk EXCEPT ![Target] = Written]

----------------------------------------------------------------------------
(* Steps of the program *)

Parse ==
    /\ pc = "parse"
    /\ parse_pe(disk[Source]).ok
    /\ pe' = parse_pe(disk[Source])
    /\ image' = disk[Source]
    /\ pc' = "open"
    /\ UNCHANGED << disk, op, der, copied, new_sigpos, checksum, opened >>

\* Mutant: the output is opened first.
ParseRejects_OutputOpen ==
    /\ pc = "parse"
    /\ ~parse_pe(disk[Source]).ok
    /\ disk' = [disk EXCEPT ![Target] = << >>]
    /\ pc' = "failed"
    /\ UNCHANGED << op, der, pe, copied, new_sigpos, checksum, image, opened >>

ParseRejects ==
    /\ pc = "parse"
    /\ ~parse_pe(disk[Source]).ok
    /\ pc' = "failed"
    /\ UNCHANGED << disk, op, der, pe, copied, new_sigpos, checksum, image, opened >>

\* Only once the output is open, and empty, does write_unsigned_pe_to look
\* whether there is anything to remove.
OpenOutput ==
    /\ pc = "open"
    /\ disk' = [disk EXCEPT ![Target] = << >>]
    /\ pc' = IF op = "remove" /\ pe.sigpos = 0 THEN "failed" ELSE "copy"
    /\ opened' = TRUE
    /\ UNCHANGED << op, der, pe, copied, new_sigpos, checksum, image >>

CopyChunk ==
    /\ PerformWrite("copy", "copy")
    /\ chunk # << >>
    /\ copied' = copied + Len(chunk)
    /\ UNCHANGED << op, der, pe, new_sigpos, checksum, image, opened >>

\* Mutant: the loop waits for all of its bytes.
CopyEnds_NoEof ==
    /\ pc = "copy"
    /\ chunk = << >>
    /\ copied >= data_end(pe)
    /\ pc' = "zero_checksum"
    /\ UNCHANGED << disk, op, der, pe, copied, new_sigpos, checksum, image, opened >>

\* Nothing remains to be copied, or the input ended early (`n == 0`).
CopyEnds ==
    /\ pc = "copy"
    /\ chunk = << >>
    /\ pc' = "zero_checksum"
    /\ UNCHANGED << disk, op, der, pe, copied, new_sigpos, checksum, image, opened >>

ZeroChecksum ==
    /\ PerformWrite("zero_checksum", "zero_cert_table")
    /\ UNCHANGED << op, der, pe, copied, new_sigpos, checksum, image, opened >>

\* Mutant: the old directory entry stays until the new one is written.
ZeroCertTable_Skipped ==
    /\ pc = "zero_cert_table"
    /\ pc' = IF op = "sign" THEN "pad" ELSE "calc_checksum"
    /\ UNCHANGED << disk, op, der, pe, copied, new_sigpos, checksum, image, opened >>

ZeroCertTable ==
    /\ PerformWrite("zero_cert_table", IF op = "sign" THEN "pad" ELSE "calc_checksum")
    /\ UNCHANGED << op, der, pe, copied, new_sigpos, checksum, image, opened >>

\* Mutant: the position of the table is taken before the padding.
Pad_StalePosition ==
    /\ PerformWrite("pad", "append")
    /\ new_sigpos' = Len(output) % Word
    /\ UNCHANGED << op, der, pe, copied, checksum, image, opened >>

Pad ==
    /\ PerformWrite("pad", "append")
    /\ new_sigpos' = Len(Written) % Word
    /\ UNCHANGED << op, der, pe, copied, checksum, image, opened >>

AppendCert ==
    /\ PerformWrite("append", "update_dir")
    /\ UNCHANGED << op, der, pe, copied, new_sigpos, checksum, image, opened >>

UpdateDir ==
    /\ PerformWrite("update_dir", "calc_checksum")
    /\ UNCHANGED << op, der, pe, copied, new_sigpos, checksum, image, opened >>

CalcChecksum ==
    /\ pc = "calc_checksum"
    /\ checksum' = pe_calc_checksum(output, pe.checksum_offset)
    /\ pc' = "write_checksum"
    /\ UNCHANGED << disk, op, der, pe, copied, new_sigpos, image, opened >>

WriteChecksum ==
    /\ PerformWrite("write_checksum", "done")
    /\ UNCHANGED << op, der, pe, copied, new_sigpos, checksum, image, opened >>

Step ==
    \/ Parse \/ ParseRejects \/ OpenOutput \/ CopyChunk \/ CopyEnds
    \/ ZeroChecksum \/ ZeroCertTable \/ Pad \/ AppendCert \/ UpdateDir
    \/ CalcChecksum \/ WriteChecksum

----------------------------------------------------------------------------
(* What may go wrong meanwhile *)

Finished == pc \in {"done", "failed"}

\* An I/O error, or the death of the process.
Fails ==
    /\ ~Finished
    /\ pc' = "failed"
    /\ UNCHANGED << disk, op, der, pe, copied, new_sigpos, checksum, image, opened >>

\* The same in the middle of a write: k of its bytes are in the file.
TornWrite ==
    /\ \E k \in 1 .. Len(Pending.bytes) - 1 :
           disk' = [disk EXCEPT ![Target] =
                       write_at(output, Pending.at, SubSeq(Pending.bytes, 1, k))]
    /\ pc' = "failed"
    /\ UNCHANGED << op, der, pe, copied, new_sigpos, checksum, image, opened >>

\* Another process empties the input, as every writing command of this program
\* does to the file it is given as output.
Meddle ==
    /\ Meddling
    /\ ~Finished
    /\ disk' = [disk EXCEPT ![Source] = << >>]
    /\ UNCHANGED << pc, op, der, pe, copied, new_sigpos, checksum, image, opened >>

Next == Step \/ Fails \/ TornWrite \/ Meddle

Spec == Init /\ [][Next]_vars

\* The program itself never stops by choice: it blocks on no lock and on no
\* peer, only on the file system.
FairSpec == Spec /\ WF_vars(Step)

----------------------------------------------------------------------------
(* Properties *)

PeInfo == [ok : {TRUE}, checksum_offset : Nat, cert_table_offset : Nat,
           sigpos : U32s, siglen : U32s, fileend : U32s]

\* Types of the variables.  PeInfo's two signature fields are zero together,
\* as extract_signature and write_unsigned_pe_to, which test different ones,
\* rely on.
TypeOK ==
    /\ disk \in [Paths -> Seq(Byte)]
    /\ pc \in {"parse", "open", "copy", "zero_checksum", "zero_cert_table", "pad",
              "append", "update_dir", "calc_checksum", "write_checksum",
              "done", "failed"}
    /\ op \in {"sign", "remove"}
    /\ der \in Seq(Byte)
    /\ pe # InvalidPe => pe \in PeInfo /\ (pe.sigpos = 0 <=> pe.siglen = 0)
    /\ copied \in Nat
    /\ new_sigpos \in U32s
    /\ checksum \in U32s
    /\ image \in Seq(Byte)
    /\ opened \in BOOLEAN

\* An output reported as signed parses, is seen as signed, hashes to the
\* digest of the input (which is what the signature was made over) and gives
\* the embedded blob back, followed by its padding.
SignedOutputGood ==
    pc = "done" /\ op = "sign" /\ WellFormed(image) /\ Fits(image, der) =>
        LET out == parse_pe(output)
        IN  /\ out.ok
            /\ out.sigpos > 0
            /\ authenticode_digest(output, out) = authenticode_digest(image, pe)
            /\ extract_signature(output, out) = Signature(PaddedDer(der))

\* An output reported as stripped parses, carries no signature and still
\* hashes to the digest that was signed.
StrippedOutputGood ==
    pc = "done" /\ op = "remove" /\ WellFormed(image) /\ Fits(image, << >>) =>
        LET out == parse_pe(output)
        IN  /\ out.ok
            /\ out.sigpos = 0
            /\ authenticode_digest(output, out) = authenticode_digest(image, pe)

\* What the command is for: the image with the new signature, or with none, as
\* a file that could be the input of the next command.
IsResult(file) ==
    LET out == parse_pe(file)
    IN  /\ WellFormed(file)
        /\ authenticode_digest(file, out) = authenticode_digest(image, pe)
        /\ IF op = "sign" THEN extract_signature(file, out) = Signature(PaddedDer(der))
           ELSE out.sigpos = 0

Output == INSTANCE Publish WITH
    accepted <- pe # InvalidPe,
    file     <- IF ~opened /\ output = Stale THEN "old"
                ELSE IF IsResult(output) THEN "result" ELSE "draft",
    outcome  <- IF Finished THEN pc ELSE "running"

\* The inputs this can be said of: those that parse are WellFormed and Fit.
InputsFit ==
    \A f \in Inputs : HeadersValid(f) => WellFormed(f) /\ \A d \in Ders : Fits(f, d)

\* The writer implements Publish: the output stays what it was until the input
\* is accepted, what was complete is broken again only by a write that is cut
\* short, and success is reported only of what is complete.  (For two paths, an
\* input nobody else writes, and InputsFit, which a run has to choose.)
OutputPublished == Output!Spec

\* The process died within the one write that clears the old directory entry:
\* an address that lost its low digits.
EntryCutShort ==
    \E k \in 1 .. 3 :
        output = write_at(ZeroedChecksum(image, pe), pe.cert_table_offset, Zeros(k))

\* Whenever the command dies, a file it opened at the output path that looks
\* signed is whole: it carries the complete new signature over the input's
\* digest, or it is still a plain copy of the beginning of the input (whose own
\* directory entry may become trailing when the copy is cut where it ends), or
\* its entry is cut short (and what is left of the address and the old size
\* happen to add up to the length of the file).
NoTornSignature ==
    opened /\ WellFormed(image) /\ Fits(image, der)
        /\ parse_pe(output).ok /\ parse_pe(output).sigpos > 0 =>
            LET out == parse_pe(output)
            IN  \/ /\ op = "sign"
                   /\ extract_signature(output, out) = Signature(PaddedDer(der))
                   /\ authenticode_digest(output, out) = authenticode_digest(image, pe)
                \/ output = Bytes(image, 0, Len(output))
                \/ EntryCutShort

\* The checksum stored last is the checksum of the file it is stored in: the
\* field excludes itself from the sum (when it is word-aligned).
ChecksumFinal ==
    pc = "done" /\ WellFormed(image) /\ pe.checksum_offset % 2 = 0 =>
        read_u32(output, pe.checksum_offset)
            = pe_calc_checksum(output, pe.checksum_offset)

\* Signing or stripping leaves nothing behind that a later signing would see:
\* the result is byte for byte the one the original input gives, or, after a
\* strip, what it gives with the padding kept.
ResigningForgets ==
    pc = "done" /\ WellFormed(image) /\ Fits(image, der) =>
        \A d \in Ders :
            write_signed_pe_to(output, parse_pe(output), d)
                = write_signed_pe_to(image, pe, d)

\* Every command comes to an end, also when its input shrinks under it.
Terminates == <>Finished

=============================================================================

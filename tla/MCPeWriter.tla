---------------------------- MODULE MCPeWriter ----------------------------
(***************************************************************************)
(* Small images for PeWriter: bytes 0..3, so that u32 fields hold 0..255   *)
(* and a whole file has some 30 to 60 bytes.  The headers keep the order   *)
(* and the overlaps of the real ones (e_lfanew may point inside the DOS    *)
(* header).                                                                *)
(***************************************************************************)
EXTENDS PeWriter

\* The DOS header, then the PE headers at h with directory entry << p, l >>;
\* a nonzero checksum field, and `extra` bytes of code after the headers.
Image(h, plus, p, l, extra) ==
    LET magic == IF plus THEN PE32PLUS_MAGIC ELSE PE32_MAGIC
        gap   == IF plus THEN PE32PLUS_SHIFT ELSE 0
        dos   == write_at(Put16(DOS_MAGIC), LFANEW_AT, Put32(h))
        sig   == write_at(dos, h, Put32(PE_SIGNATURE))
        opt   == write_at(sig, h + OPT_MAGIC_AT, Put16(magic))
        sum   == write_at(opt, h + CHECKSUM_AT, << 3, 1, 2, 1 >>)
        rvas  == write_at(sum, h + RVAS_AT + gap, Put32(5))
        dir   == write_at(rvas, h + CERT_TABLE_AT + gap, Put32(p) \o Put32(l))
    IN  write_at(dir, h + HEADERS, [i \in 1 .. extra |-> 1 + (i % 3)])

OtherEntry == Put32(8) \o Put16(0) \o Put16(0)

H == 8
Plain   == Image(H, FALSE, 0, 0, 3)             \* 37 bytes, PE32
Aligned == Image(H, TRUE, 0, 0, 6)              \* 40 bytes, PE32+
Inside  == Image(2, FALSE, 0, 0, 8)             \* headers overlap the DOS header
Odd     == Image(H + 1, FALSE, 0, 0, 1)         \* checksum field not word-aligned
Signed  == Image(H, FALSE, 40, 16, 6) \o WinCertificate(<< 1, 2, 3 >>)
Second  == Image(H, TRUE, 40, 24, 6) \o OtherEntry \o WinCertificate(<< 2, 1 >>)
Ignored == Image(H, FALSE, 40, 16, 6) \o WinCertificate(<< 3, 3 >>) \o << 1, 2, 1 >>
SizeOnly == Image(H, FALSE, 0, 40, 6)           \* VirtualAddress 0, Size = file size
Misread == Image(H, FALSE, 80, 16, 46) \o WinCertificate(<< 1, 3 >>)
                                                \* 80 = 64 + 16: see NoTornSignature
Short   == SubSeq(Plain, 1, 30)
BadSig  == write_at(Plain, H, << 0 >>)

MCInputs == {Plain, Aligned, Inside, Odd, Signed, Second, Ignored, SizeOnly, Misread,
             Short, BadSig}
MCDers   == {<< 1 >>, << 1, 2, 3, 1, 2, 3, 1, 2 >>, << 3, 2, 1, 3, 2, 1, 3, 2, 1 >>}
MCStale  == << 1, 1 >>

ASSUME MCInputsFit == InputsFit

=============================================================================

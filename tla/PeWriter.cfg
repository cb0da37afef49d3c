CONSTANTS
    Base = 4
    LFANEW_AT = 4
    MIN_FILE = 8
    MIN_HEADER = 2
    OPT_MAGIC_AT = 6
    CHECKSUM_AT = 8
    RVAS_AT = 12
    CERT_TABLE_AT = 16
    PE32PLUS_SHIFT = 2
    HEADERS = 26
    DOS_MAGIC = 6
    PE_SIGNATURE = 37
    PE32_MAGIC = 11
    PE32PLUS_MAGIC = 7
    WIN_CERT_REVISION_2_0 = 2
    WIN_CERT_TYPE_PKCS_SIGNED_DATA = 2
    Source = "in"
    Target = "out"
    Buf = 16
    Meddling = FALSE
    Inputs <- MCInputs
    Ders <- MCDers
    Stale <- MCStale
SPECIFICATION Spec
INVARIANTS
    TypeOK
    SignedOutputGood
    StrippedOutputGood
    NoTornSignature
    ChecksumFinal
    ResigningForgets
PROPERTY OutputPublished
\* The command ends: done and failed have no next step.
CHECK_DEADLOCK FALSE

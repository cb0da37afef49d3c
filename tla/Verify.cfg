CONSTANTS
    Blobs <- MCBlobs
    Nested <- MCNested
    Options <- MCOptions
SPECIFICATION Spec
INVARIANTS
    EverySignatureHolds
    EverySignerTrusted
    InvalidTokenRejected
    GoodAccepted
\* verify ends.
CHECK_DEADLOCK FALSE

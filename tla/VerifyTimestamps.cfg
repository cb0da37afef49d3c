CONSTANTS
    Blobs <- MCBlobs
    Nested <- MCNested
    Options <- MCOptions
SPECIFICATION Spec
INVARIANT AnyTimestampVerified
\* verify ends.
CHECK_DEADLOCK FALSE

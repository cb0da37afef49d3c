CONSTANTS
    Paths <- MCPaths
    Contents <- MCContents
    Strays <- MCStrays
    Workers = {w1, w2}
    Invocations <- MCInvocations
    MaxCommands = 3
SPECIFICATION Spec
INVARIANT AttachChecksDigest
CHECK_DEADLOCK FALSE

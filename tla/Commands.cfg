CONSTANTS
    Paths <- MCPaths
    Contents <- MCContents
    Strays <- MCStrays
    Workers = {w1, w2}
    Invocations <- MCInvocations
    MaxCommands = 3
SPECIFICATION Spec
SYMMETRY Symmetry
INVARIANTS
    TypeOK
    SuccessIsWhole
    EmbeddedIsNative
    RefusedKeepsOutput
\* All commands of the run may have ended.
CHECK_DEADLOCK FALSE

CONSTANTS
    TIMESTAMP_ATTEMPTS = 3
    Rfc3161Lists <- NoList
    AuthenticodeLists <- LegacyOne
    Inputs <- MCInputs
    TsaCerts <- MCTsaCerts
    Resets = 7
    Refusals = 1
SPECIFICATION Spec
INVARIANT OneResetIsHarmless
CHECK_DEADLOCK FALSE

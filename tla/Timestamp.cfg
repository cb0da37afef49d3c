CONSTANTS
    TIMESTAMP_ATTEMPTS = 3
    Rfc3161Lists <- MCRfc3161Lists
    AuthenticodeLists <- MCAuthenticodeLists
    Inputs <- MCInputs
    TsaCerts <- MCTsaCerts
    Resets = 7
    Refusals = 1
SPECIFICATION FairSpec
INVARIANTS
    TypeOK
    StampedOnce
    StampsFit
    CertsGrowOnly
    FallbackInOrder
    Rfc3161Survives
PROPERTY Terminates
\* The call returns: done and failed have no next step.
CHECK_DEADLOCK FALSE

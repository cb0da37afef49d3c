CONSTANTS
    Base = 16
    SEQUENCE = 3
    SET = 1
    INTEGER = 2
    OCTET_STRING = 4
    OID = 6
    CONTEXT_0 = 10
    Contents <- MCContents
    Rests <- MCRests
    Others <- MCOthers
SPECIFICATION Spec
INVARIANTS
    ContentRecovered
    CheckIsExact
    FailsOnlyUnreadable
PROPERTY PromiseKept
\* A failed operation ends the call.
CHECK_DEADLOCK FALSE

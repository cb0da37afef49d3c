CONSTANTS
    Threads = {1, 2, 3}
    Keys <- MCKeys
    CKA_ID <- MC_ID
    CKA_LABEL <- MC_LABEL
    Tokens <- MCTokens
    KeyIds <- MCKeyIds
    Messages <- MCMessages
    NoKey = "no_key"
    NoThread = 0
    Requests <- MCRequests
    Jobs <- MCJobs
    Certs <- MCCerts
    Bundles <- MCBundles
    CaFile <- MCCaFile
    Depth = 3
SPECIFICATION FairSpec
INVARIANTS
    TypeOK
    Isolated
    SignedVerifies
PROPERTIES
    SerialPromise
    EveryRequestAnswered
\* Requests come to an end.
CHECK_DEADLOCK FALSE

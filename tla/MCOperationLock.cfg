SPECIFICATION FairSpec
CONSTANTS
    a1 = a1
    a2 = a2
    x1 = x1
    NoCall = NoCall
    Calls <- MCCalls
    Requests <- MCRequests
    Fingerprint <- MCFingerprint
INVARIANTS
    TypeOK
    OneOperation
    ReplayFromConcurrentTwin
PROPERTIES
    CompleteIsFinal
    RefinesSerial
    EveryCallResolved
CHECK_DEADLOCK FALSE

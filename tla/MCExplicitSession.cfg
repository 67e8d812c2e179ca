SPECIFICATION Spec
CONSTANTS
    r1 = r1
    r2 = r2
    r3 = r3
    x1 = x1
    NoCall = NoCall
    NoRecord = NoRecord
    NoJob = NoJob
    Requests = {r1, r2}
    Resets = {}
    Digest <- MCDigest
    Streaming <- MCStreaming
    MaxCrashes = 1
    MaxCancels = 1
    MaxWriteFailures = 1
INVARIANTS
    TypeOK
    ReusableIsKnown
    AnsweredIsDurable
PROPERTIES
    FailsOnlyByOwnFault
    OnlyHolderChanges
SYMMETRY Symmetry
CHECK_DEADLOCK FALSE

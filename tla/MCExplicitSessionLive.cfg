SPECIFICATION FairSpec
CONSTANTS
    r1 = r1
    r2 = r2
    r3 = r3
    x1 = x1
    NoCall = NoCall
    NoRecord = NoRecord
    NoJob = NoJob
    Requests = {r3}
    Resets = {x1}
    Digest <- MCDigest
    Streaming <- MCStreaming
    MaxCrashes = 1
    MaxCancels = 2
    MaxWriteFailures = 2
PROPERTIES
    EveryRequestEnds
    OnlyHolderChanges
CHECK_DEADLOCK FALSE

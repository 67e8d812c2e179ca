SPECIFICATION Spec
CONSTANTS
    f1 = f1
    f2 = f2
    s1 = s1
    s2 = s2
    none = none
    NoFile <- none
    Files <- TwoFiles
    Sessions <- TwoSessions
    Capacity = 1
    MaxFailures = 1
    MaxCancels = 1
    MaxCrashes = 1
    MaxDrops = 1
INVARIANTS
    TypeOK
    NothingLost
    LeasedStays
    MappedIsReferenced
SYMMETRY Symmetric
CHECK_DEADLOCK FALSE

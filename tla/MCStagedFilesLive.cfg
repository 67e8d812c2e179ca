SPECIFICATION FairSpec
CONSTANTS
    f1 = f1
    f2 = f2
    s1 = s1
    s2 = s2
    none = none
    NoFile <- none
    Files <- OneFile
    Sessions <- OneSession
    Capacity = 1
    MaxFailures = 2
    MaxCancels = 2
    MaxCrashes = 1
    MaxDrops = 1
PROPERTIES ReferencesReconciled
CHECK_DEADLOCK FALSE

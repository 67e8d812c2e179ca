SPECIFICATION Spec
CONSTANTS
    Tasks = {t1, t2}
    Requests <- MCRequests
    Cookies = {c1}
    Accounts <- MCAccounts
    MaxRetries = 0
    MaxNodes = 3
    MaxFaults = 1
    NoRecord = NoRecord
    NoCookie = NoCookie
    c1 = c1
    u = u
    v = v
    w = w
SYMMETRY Symmetry
INVARIANTS AnswersInContext RecordsAreReal
PROPERTY FailedNotReused
CHECK_DEADLOCK FALSE

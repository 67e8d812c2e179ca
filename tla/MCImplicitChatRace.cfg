SPECIFICATION Spec
CONSTANTS
    Tasks = {t1, t2}
    Requests <- MCBranches
    Cookies = {c1}
    Accounts <- MCOneAccount
    MaxRetries = 0
    MaxNodes = 4
    MaxFaults = 0
    NoRecord = NoRecord
    NoCookie = NoCookie
    c1 = c1
    u = u
    v = v
    w = w
SYMMETRY Symmetry
INVARIANTS TurnsDoNotInterleave
CHECK_DEADLOCK FALSE

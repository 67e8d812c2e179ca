SPECIFICATION Spec
CONSTANTS
    Tasks = {t1, t2}
    c1 = c1
    Cookies = {c1}
    session = session
    sonnet = sonnet
    Windows = {session, sonnet}
    SonnetOnly = {sonnet}
    Permitted = {}
    Ops = {"stream", "web", "status"}
    WebCounts = TRUE
    MaxRetries = 0
    MaxRequests = 2
    MaxWindows = 2
    MaxFaults = 2
    NoRecord = NoRecord
    NoCookie = NoCookie
INVARIANTS UsageCounted ServedUnlessFault OneWindow
CHECK_DEADLOCK FALSE
SYMMETRY Symmetry

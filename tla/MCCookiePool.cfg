SPECIFICATION Spec
CONSTANTS
    c1 = c1
    c2 = c2
    c3 = c3
    k1 = k1
    NoCookie = NoCookie
    NoKey = NoKey
    Cookies = {c1, c2, c3}
    Keys = {k1}
    MaxSaves = 1
    MaxRestarts = 1
INVARIANTS
    TypeOK
    OnePlace
    ConfigCovers
PROPERTIES
    TakesTurns
    RestsUntilDue
SYMMETRY CookieSymmetry
CHECK_DEADLOCK FALSE

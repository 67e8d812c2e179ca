SPECIFICATION Spec
CONSTANTS
    Gets = {g1, g2}
    Refreshes = {}
    Submits = {s}
    Deletes = {d}
    NoStatus = NoStatus
INVARIANTS
    FreshAfterClear
CHECK_DEADLOCK FALSE

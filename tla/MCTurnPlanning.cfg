SPECIFICATION MCSpec
CONSTANTS
    a = a
    b = b
    Users = {u, v}
    Assistants = {a, b}
    Systems = {s, NoSystem}
    NoSystem = NoSystem
    Answers = {a, b, NoText}
    NoText = NoText
    NoSession = NoSession
    MaxLength = 4
    MaxNodes = 3
    Values = {d, e}
    Blank = Blank
    Names = {n}
    NoName = NoName
    MaxBlocks = 2
INVARIANTS
    AnsweredAsAsked
    RecordIsPath
    PlansLastPlace
    EchoContinues
    SentAsAWhole
SYMMETRY Symmetry
CHECK_DEADLOCK FALSE

SPECIFICATION Spec
CONSTANTS
    Modes <- MCModes
    Pieces <- MCPieces
    File = "f"
    Links <- MCLinks
    MaxDeltas = 3
    MaxBlocks = 2
INVARIANTS WellFormed ShownUpToFirstStop AnsweredIsCommitted RecordedAsShown CountedOnce
CHECK_DEADLOCK FALSE

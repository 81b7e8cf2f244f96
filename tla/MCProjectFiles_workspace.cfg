SPECIFICATION Spec
CONSTANTS
    a = a
    b = b
    c = c
    NoName = NoName
    Site <- TheHost
    Name = {a, b, c}
    Project <- SameMain
    MaxStrokes = 3
    MaxOps = 6
    Ops = {"save", "switch", "new", "remove"}
    SessionOps = {}
    Typists <- TheHost
    SessionTypists <- NoSite
    ExactNames = TRUE
    TypeAnywhere = FALSE
    MaxDatagram = 9
    PromptClose = TRUE
    FilesId = "F"
    Bar = "|"
    Nought = "0"
    Letter = {"x", "y", "e-acute"}
    WideLetter = {"e-acute"}
    Question = "?"
CHECK_DEADLOCK FALSE
INVARIANTS
    OwnContent
    NothingLost
    LabelTells
PROPERTY SavedStays

SPECIFICATION FairSpec
CONSTANTS
    a = a
    b = b
    c = c
    NoName = NoName
    Site <- BothSites
    Name = {a, b}
    Project <- OwnMain
    MaxStrokes = 3
    MaxOps = 3
    Ops = {"save", "switch", "new", "remove", "close"}
    SessionOps = {"save"}
    Typists <- BothSites
    SessionTypists <- TheHost
    ExactNames = TRUE
    TypeAnywhere = FALSE
    MaxDatagram = 4
    PromptClose = FALSE
    FilesId = "F"
    Bar = "|"
    Nought = "0"
    Letter = {"x", "y", "e-acute"}
    WideLetter = {"e-acute"}
    Question = "?"
CHECK_DEADLOCK FALSE
INVARIANTS
    TypeOK
    EditsReachBoth
PROPERTIES
    FilesArrive
    ReceivedAsSent
    MemberJoins

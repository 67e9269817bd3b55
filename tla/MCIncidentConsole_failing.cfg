SPECIFICATION Spec
CONSTANTS
    c1 = c1
    Tasks = {c1}
    Numbers = {1, 2}
    Seeded = {1}
    SelectFields = {"priority"}
    TextFields = {}
    Options = {"p1", "p2"}
    Unlisted = {"p5"}
    Texts = {"ana"}
    EmptyTexts = {}
    Empty = ""
    Null = Null
    Filters = {{1, 2}}
    PageSize = 1
    NotePage = 2
    Patient = TRUE
    CanFail = TRUE
    MaxPage = 2
    MaxNotes = 1
    MaxOthers = 0
INVARIANTS
    StalePanelIsAnnounced
PROPERTY
    FailureIsSeen
CHECK_DEADLOCK FALSE

SPECIFICATION Spec
CONSTANTS
    c1 = c1
    Tasks = {c1}
    Numbers = {1, 2}
    Seeded = {1}
    SelectFields = {}
    TextFields = {"assigned_to"}
    Options = {"p1", "p2"}
    Unlisted = {}
    Texts = {"ana"}
    EmptyTexts = {}
    Empty = ""
    Null = Null
    Filters = {{1, 2}}
    PageSize = 1
    NotePage = 1
    Patient = TRUE
    CanFail = FALSE
    MaxPage = 2
    MaxNotes = 2
    MaxOthers = 0
INVARIANT TimelineComplete
CHECK_DEADLOCK FALSE

SPECIFICATION Spec
CONSTANTS
    c1 = c1
    c2 = c2
    Tasks = {c1, c2}
    Numbers = {1, 2}
    Seeded = {1}
    SelectFields = {}
    TextFields = {"assigned_to"}
    Options = {"p1", "p2"}
    Unlisted = {}
    Texts = {"ana"}
    EmptyTexts = {}
    Empty = ""
    Null = Null
    Filters = {{1, 2}}
    PageSize = 2
    NotePage = 2
    Patient = FALSE
    CanFail = FALSE
    MaxPage = 1
    MaxNotes = 0
    MaxOthers = 0
INVARIANT ShownRecordIsStored
CHECK_DEADLOCK FALSE

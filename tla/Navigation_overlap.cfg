SPECIFICATION Spec
CONSTANTS
    Fields = {"closed_at"}
    Texts = {"ana"}
    Empty = ""
    Null = Null
    Seeded = 1
    PageSize = 1
    Tasks = {c1}
    CanFail = TRUE
    MaxRows = 2
    MaxOthers = 1
    Tiles = {"closed", "breached_sla"}
    Patient = FALSE
    MaxVisits = 2
INVARIANTS
    DashboardIsOfLastVisit

SPECIFICATION Spec
CONSTANTS
    t1 = t1
    t2 = t2
    state = state
    owner = owner
    Table = "incidents"
    Threads = {t1, t2}
    Seeded = {2}
    MaxSeq = 5
    PatchableFields = {state, owner}
    Required = {state}
    Ops = {"create", "get"}
    MaxRequests = 3
    MaxClock = 2
    MaxCrashes = 1
SYMMETRY Symmetry
INVARIANTS
    NumberNeverReused
CHECK_DEADLOCK FALSE

SPECIFICATION Spec
CONSTANTS
    t1 = t1
    t2 = t2
    t3 = t3
    state = state
    owner = owner
    Table = "incidents"
    Threads = {t1, t2, t3}
    Seeded = {2}
    MaxSeq = 3
    PatchableFields = {state, owner}
    Required = {state}
    Ops = {"create", "patch", "get"}
    MaxRequests = 3
    MaxClock = 1
    MaxCrashes = 1
SYMMETRY Symmetry
INVARIANTS
    AckedCreateIsStored
    AckedPatchIsStored
    PendingWriteKept
    UncommittedHasCommitter
    OpenedInNumberOrder
    CollisionHasWinner
PROPERTIES
    AckedIdentityStable
CHECK_DEADLOCK FALSE

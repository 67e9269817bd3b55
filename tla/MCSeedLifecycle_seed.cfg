SPECIFICATION FairSpec
CONSTANTS
    f1 = f1
    f2 = f2
    Fixture <- MCFixture
    BadStages = {1, 2, 3, 4}
    Creatable = {"incidents", "work_notes", "escalations"}
    Patchable = {"incidents", "escalations"}
    MaxWrites = 3
    MaxKills = 3
INVARIANTS
    ServesFullySeeded
    PatchesServed
PROPERTIES
    StartedServes
CHECK_DEADLOCK FALSE

SPECIFICATION Spec
CONSTANTS
    t1 = t1
    t2 = t2
    t3 = t3
    SeededNotes <- MCSeededNotes
    Threads = {t1, t2, t3}
    Incidents = {1, 2}
    SeededIncidents = {1}
    MaxRetries = 2
    PageSizes = {1}
    Pages = {1, 2}
    MaxRequests = 3
    MaxClock = 1
    MaxCrashes = 1
SYMMETRY Symmetry
INVARIANTS
    NotesHaveIncident
    AckedNoteIsStored
    NotesInOrder
    GivesUpOnlyUnderContention
    PagesAreStable
CHECK_DEADLOCK FALSE

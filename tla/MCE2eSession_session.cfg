SPECIFICATION FairSessionSpec
CONSTANTS
    MaxPolls = 2
    PipeLines = 12
    Incidents = 4
    Breaches <- MCBreaches
    PageSize = 2
    MaxScan = 3
    MaxSlaPolls = 1
    MaxPatches = 1
    MaxCalls = 2
    MaxRequests = 1
INVARIANTS
    NothingLeftRunning
    FixtureDelivers
PROPERTIES
    SessionEnds
CHECK_DEADLOCK FALSE

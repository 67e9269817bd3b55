SPECIFICATION FairSpec
CONSTANTS
    Callers = {k1}
    Requests <- MCRequests
    MaxTries = 3
    MaxKills = 1
INVARIANTS
    DuplicateHasLostAnswer
PROPERTIES
    ContractKept
    EveryCallEnds
CHECK_DEADLOCK FALSE

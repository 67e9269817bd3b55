SPECIFICATION Spec
CONSTANTS
    Clients = {c1}
    Pages <- MCPages
    Sizes <- MCSizes
    MaxRows = 4
    MaxMoves = 2
INVARIANTS
    WalkIsComplete
    PageAgreesWithTotal
CHECK_DEADLOCK FALSE

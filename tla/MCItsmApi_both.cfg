SPECIFICATION Spec
CONSTANTS
    t1 = t1
    t2 = t2
    state = state
    summary = summary
    Threads = {t1, t2}
    Ops = {"create", "patch", "get"}
    SeededIncidents = {1}
    MaxIncident = 2
    IncidentFields = {state}
    RequiredIncidentFields = {state}
    SeededEscalations = {1}
    MaxEscalation = 2
    EscalationFields = {summary}
    RequiredEscalationFields = {summary}
    MaxRequests = 2
    MaxClock = 1
    MaxCrashes = 1
SYMMETRY Symmetry
PROPERTIES
    RoutersUndisturbed
CHECK_DEADLOCK FALSE

------------------------------ MODULE ItsmApi ------------------------------
(***************************************************************************)
(* The incidents and the escalations routers in one process                *)
(* (app/main.py): they are mounted on one application, take their workers  *)
(* from one threadpool and write through one connection, so each of them   *)
(* commits, and sees, what the other one has pending.                      *)
(*                                                                         *)
(* Both are TicketApi, with their own table and fields.  What TicketApi    *)
(* says of the rest of the process is its action Elsewhere; that this is   *)
(* all that one router does to the other is what is checked here.          *)
(***************************************************************************)
EXTENDS SharedConnection

CONSTANTS
    Threads,           \* the threadpool that both routers share
    Ops,               \* the kinds of request the clients send
    SeededIncidents, MaxIncident, IncidentFields, RequiredIncidentFields,
    SeededEscalations, MaxEscalation, EscalationFields, RequiredEscalationFields,
    MaxRequests,       \* bound: requests received by each router
    MaxClock,          \* bound: readings of the clock that differ
    MaxCrashes         \* bound: kills of the process

VARIABLES
    clock, crashes,
    ipc, icall, iwrites, iissued, ireplies, ierrors,    \* routers/incidents.py
    epc, ecall, ewrites, eissued, ereplies, eerrors     \* routers/escalations.py

incidentVars == <<ipc, icall, iwrites, iissued, ireplies, ierrors>>
escalationVars == <<epc, ecall, ewrites, eissued, ereplies, eerrors>>

vars == <<connVars, clock, crashes, incidentVars, escalationVars>>

Incidents == INSTANCE TicketApi WITH
    Table <- "incidents", Seeded <- SeededIncidents, MaxSeq <- MaxIncident,
    PatchableFields <- IncidentFields, Required <- RequiredIncidentFields,
    pc <- ipc, call <- icall, writes <- iwrites, issued <- iissued,
    replies <- ireplies, errors <- ierrors

Escalations == INSTANCE TicketApi WITH
    Table <- "escalations", Seeded <- SeededEscalations, MaxSeq <- MaxEscalation,
    PatchableFields <- EscalationFields, Required <- RequiredEscalationFields,
    pc <- epc, call <- ecall, writes <- ewrites, issued <- eissued,
    replies <- ereplies, errors <- eerrors

ASSUME ItsmAssumption == Incidents!TicketAssumption /\ Escalations!TicketAssumption

Init ==
    /\ mem = [incidents |-> Incidents!SeededTable, escalations |-> Escalations!SeededTable]
    /\ disk = mem
    /\ inTxn = FALSE
    /\ Incidents!HandlersInit
    /\ Escalations!HandlersInit

-----------------------------------------------------------------------------
\* A worker makes the next call of a handler of one of the routers.
ServeIncidents(t) ==
    /\ epc[t] = "idle"
    /\ Incidents!Create(t) \/ Incidents!Patch(t) \/ Incidents!GetTicket(t)
    /\ UNCHANGED escalationVars

\* Mutant: a PATCH /escalations that fails rolls the connection back.
EscalationRollsBack(t) ==
    /\ ipc[t] = "idle"
    /\ \/ Escalations!PatchLookup(t)
       \/ /\ epc[t] = "update" /\ ecall[t].bad
          /\ Reopen
          /\ Escalations!Fail("patch", 500, ecall[t])
          /\ Escalations!Done(t)
          /\ UNCHANGED <<clock, crashes, ewrites, eissued>>
    /\ UNCHANGED incidentVars

ServeEscalations(t) ==
    /\ ipc[t] = "idle"
    /\ Escalations!Create(t) \/ Escalations!Patch(t) \/ Escalations!GetTicket(t)
    /\ UNCHANGED incidentVars

\* The routers live and die together.
Restart == Incidents!Restart /\ Escalations!Restart

Next == Restart \/ \E t \in Threads : ServeIncidents(t) \/ ServeEscalations(t)

Spec == Init /\ [][Next]_vars

-----------------------------------------------------------------------------
(***************************************************************************)
(* Each router, with its own table, is the TicketApi that the theorems are *)
(* about: the handlers of the other one do no more than Elsewhere allows.  *)
(***************************************************************************)
IncidentsOnly == INSTANCE TicketApi WITH
    Table <- "incidents", Seeded <- SeededIncidents, MaxSeq <- MaxIncident,
    PatchableFields <- IncidentFields, Required <- RequiredIncidentFields,
    mem <- [incidents |-> mem.incidents], disk <- [incidents |-> disk.incidents],
    pc <- ipc, call <- icall, writes <- iwrites, issued <- iissued,
    replies <- ireplies, errors <- ierrors

EscalationsOnly == INSTANCE TicketApi WITH
    Table <- "escalations", Seeded <- SeededEscalations, MaxSeq <- MaxEscalation,
    PatchableFields <- EscalationFields, Required <- RequiredEscalationFields,
    mem <- [escalations |-> mem.escalations], disk <- [escalations |-> disk.escalations],
    pc <- epc, call <- ecall, writes <- ewrites, issued <- eissued,
    replies <- ereplies, errors <- eerrors

\* Each router, sharing the connection and its transaction with the other, is
\* what it would be with a connection that others merely commit (db.py:30-63):
\* what is proved of TicketApi holds of both.
RoutersUndisturbed == IncidentsOnly!Spec /\ EscalationsOnly!Spec
=============================================================================

--------------------------- MODULE ItsmApiProofs ---------------------------
(***************************************************************************)
(* The two routers in one process, for any tables, bounds and workers.     *)
(***************************************************************************)
EXTENDS ItsmApi, TLAPS

-----------------------------------------------------------------------------
\* The connection has the two tables and no other: without that a write to one of
\* them would not be seen to leave the other alone.
TwoTables ==
    /\ mem = [incidents |-> mem.incidents, escalations |-> mem.escalations]
    /\ disk = [incidents |-> disk.incidents, escalations |-> disk.escalations]

\* And the clock is within its bound: while one router works, Elsewhere lets the
\* other one read the same clock again, the last reading included.
Shape == TwoTables /\ clock <= MaxClock

\* The statements of one router's table, as that router alone sees them, and as
\* the other one does.
LEMMA IncidentStatements ==
    ASSUME Shape
    PROVE  /\ \A key, row : Incidents!Write("incidents", key, row) =>
                /\ IncidentsOnly!Write("incidents", key, row)
                /\ EscalationsOnly!Rejected
                /\ TwoTables'
           /\ Incidents!Rejected => IncidentsOnly!Rejected /\ EscalationsOnly!Rejected /\ TwoTables'
           /\ Incidents!Commit => IncidentsOnly!Commit /\ EscalationsOnly!Commit /\ TwoTables'
<1>1. ASSUME NEW key, NEW row, Incidents!Write("incidents", key, row)
      PROVE  /\ IncidentsOnly!Write("incidents", key, row)
             /\ EscalationsOnly!Rejected
             /\ TwoTables'
  <2>1. mem' = [mem EXCEPT !["incidents"] = RowAdded(mem["incidents"], key, row)]
    BY <1>1 DEF Incidents!Write, Incidents!RowAdded, RowAdded
  <2>2. mem'.incidents = RowAdded(mem.incidents, key, row) /\ mem'.escalations = mem.escalations
    BY <2>1 DEF Shape, TwoTables
  <2>3. TwoTables'
    BY <1>1, <2>1 DEF Incidents!Write, Shape, TwoTables
  <2> QED
    BY <1>1, <2>2, <2>3 DEF Incidents!Write, IncidentsOnly!Write, IncidentsOnly!RowAdded, RowAdded,
       EscalationsOnly!Rejected
<1> QED
  BY <1>1 DEF Shape, TwoTables, Incidents!Rejected, IncidentsOnly!Rejected, EscalationsOnly!Rejected,
     Incidents!Commit, IncidentsOnly!Commit, EscalationsOnly!Commit

LEMMA EscalationStatements ==
    ASSUME Shape
    PROVE  /\ \A key, row : Escalations!Write("escalations", key, row) =>
                /\ EscalationsOnly!Write("escalations", key, row)
                /\ IncidentsOnly!Rejected
                /\ TwoTables'
           /\ Escalations!Rejected => EscalationsOnly!Rejected /\ IncidentsOnly!Rejected /\ TwoTables'
           /\ Escalations!Commit => EscalationsOnly!Commit /\ IncidentsOnly!Commit /\ TwoTables'
<1>1. ASSUME NEW key, NEW row, Escalations!Write("escalations", key, row)
      PROVE  /\ EscalationsOnly!Write("escalations", key, row)
             /\ IncidentsOnly!Rejected
             /\ TwoTables'
  <2>1. mem' = [mem EXCEPT !["escalations"] = RowAdded(mem["escalations"], key, row)]
    BY <1>1 DEF Escalations!Write, Escalations!RowAdded, RowAdded
  <2>2. mem'.escalations = RowAdded(mem.escalations, key, row) /\ mem'.incidents = mem.incidents
    BY <2>1 DEF Shape, TwoTables
  <2>3. TwoTables'
    BY <1>1, <2>1 DEF Escalations!Write, Shape, TwoTables
  <2> QED
    BY <1>1, <2>2, <2>3 DEF Escalations!Write, EscalationsOnly!Write, EscalationsOnly!RowAdded, RowAdded,
       IncidentsOnly!Rejected
<1> QED
  BY <1>1 DEF Shape, TwoTables, Escalations!Rejected, EscalationsOnly!Rejected, IncidentsOnly!Rejected,
     Escalations!Commit, EscalationsOnly!Commit, IncidentsOnly!Commit

\* Each call of POST /incidents is one that the router makes by itself.
LEMMA IncidentCreates ==
    ASSUME Shape, NEW t \in Threads, Incidents!Create(t)
    PROVE  IncidentsOnly!Create(t)
<1> USE DEF Incidents!Receive, IncidentsOnly!Receive, Incidents!GoTo,
        IncidentsOnly!GoTo, Incidents!Done, IncidentsOnly!Done, Incidents!connVars,
        IncidentsOnly!connVars, Incidents!rows, IncidentsOnly!rows, Incidents!NoCall,
        IncidentsOnly!NoCall, Incidents!NewCall, IncidentsOnly!NewCall
<1>1. CASE Incidents!CreateAllocate(t)
  BY <1>1 DEF Incidents!CreateAllocate, IncidentsOnly!CreateAllocate,
     Incidents!IsNextNumber, IncidentsOnly!IsNextNumber, Incidents!Numbers,
     IncidentsOnly!Numbers, IncidentsOnly!Create
<1>2. CASE Incidents!CreateStamp(t)
  BY <1>2 DEF Incidents!CreateStamp, IncidentsOnly!CreateStamp, IncidentsOnly!Create
<1>3. CASE Incidents!CreateInsert(t)
  BY <1>3, IncidentStatements DEF Incidents!CreateInsert, IncidentsOnly!CreateInsert,
     Incidents!NewRow, IncidentsOnly!NewRow, IncidentsOnly!Create
<1>4. CASE Incidents!CreateCollides(t)
  BY <1>4, IncidentStatements DEF Incidents!CreateCollides, IncidentsOnly!CreateCollides,
     Incidents!Fail, IncidentsOnly!Fail, IncidentsOnly!Create
<1>5. CASE Incidents!CreateCommit(t)
  BY <1>5, IncidentStatements DEF Incidents!CreateCommit, IncidentsOnly!CreateCommit,
     IncidentsOnly!Create
<1>6. CASE Incidents!CreateRespond(t)
  BY <1>6 DEF Incidents!CreateRespond, IncidentsOnly!CreateRespond, Incidents!Respond,
     IncidentsOnly!Respond, IncidentsOnly!Create
<1> QED  BY <1>1, <1>2, <1>3, <1>4, <1>5, <1>6 DEF Incidents!Create

\* So is each of PATCH /incidents/{number}.
LEMMA IncidentPatches ==
    ASSUME Shape, NEW t \in Threads, Incidents!Patch(t)
    PROVE  IncidentsOnly!Patch(t)
<1> USE DEF Incidents!Receive, IncidentsOnly!Receive, Incidents!GoTo,
        IncidentsOnly!GoTo, Incidents!Done, IncidentsOnly!Done, Incidents!connVars,
        IncidentsOnly!connVars, Incidents!rows, IncidentsOnly!rows, Incidents!NoCall,
        IncidentsOnly!NoCall, Incidents!NewCall, IncidentsOnly!NewCall
<1>1. CASE Incidents!PatchLookup(t)
  BY <1>1 DEF Incidents!PatchLookup, IncidentsOnly!PatchLookup, Incidents!Fail,
     IncidentsOnly!Fail, Incidents!Numbers, IncidentsOnly!Numbers, IncidentsOnly!Patch
<1>2. CASE Incidents!PatchUpdate(t)
  BY <1>2, IncidentStatements DEF Incidents!PatchUpdate, IncidentsOnly!PatchUpdate,
     IncidentsOnly!Patch
<1>3. CASE Incidents!PatchRejected(t)
  BY <1>3, IncidentStatements DEF Incidents!PatchRejected, IncidentsOnly!PatchRejected,
     Incidents!Fail, IncidentsOnly!Fail, IncidentsOnly!Patch
<1>4. CASE Incidents!PatchCommit(t)
  BY <1>4, IncidentStatements DEF Incidents!PatchCommit, IncidentsOnly!PatchCommit,
     IncidentsOnly!Patch
<1>5. CASE Incidents!PatchRespond(t)
  BY <1>5 DEF Incidents!PatchRespond, IncidentsOnly!PatchRespond, Incidents!Respond,
     IncidentsOnly!Respond, IncidentsOnly!Patch
<1> QED  BY <1>1, <1>2, <1>3, <1>4, <1>5 DEF Incidents!Patch

\* Each call of POST /escalations is one that the router makes by itself.
LEMMA EscalationCreates ==
    ASSUME Shape, NEW t \in Threads, Escalations!Create(t)
    PROVE  EscalationsOnly!Create(t)
<1> USE DEF Escalations!Receive, EscalationsOnly!Receive, Escalations!GoTo,
        EscalationsOnly!GoTo, Escalations!Done, EscalationsOnly!Done, Escalations!connVars,
        EscalationsOnly!connVars, Escalations!rows, EscalationsOnly!rows,
        Escalations!NoCall, EscalationsOnly!NoCall, Escalations!NewCall,
        EscalationsOnly!NewCall
<1>1. CASE Escalations!CreateAllocate(t)
  BY <1>1 DEF Escalations!CreateAllocate, EscalationsOnly!CreateAllocate,
     Escalations!IsNextNumber, EscalationsOnly!IsNextNumber, Escalations!Numbers,
     EscalationsOnly!Numbers, EscalationsOnly!Create
<1>2. CASE Escalations!CreateStamp(t)
  BY <1>2 DEF Escalations!CreateStamp, EscalationsOnly!CreateStamp,
     EscalationsOnly!Create
<1>3. CASE Escalations!CreateInsert(t)
  BY <1>3, EscalationStatements DEF Escalations!CreateInsert,
     EscalationsOnly!CreateInsert, Escalations!NewRow, EscalationsOnly!NewRow,
     EscalationsOnly!Create
<1>4. CASE Escalations!CreateCollides(t)
  BY <1>4, EscalationStatements DEF Escalations!CreateCollides,
     EscalationsOnly!CreateCollides, Escalations!Fail, EscalationsOnly!Fail,
     EscalationsOnly!Create
<1>5. CASE Escalations!CreateCommit(t)
  BY <1>5, EscalationStatements DEF Escalations!CreateCommit,
     EscalationsOnly!CreateCommit, EscalationsOnly!Create
<1>6. CASE Escalations!CreateRespond(t)
  BY <1>6 DEF Escalations!CreateRespond, EscalationsOnly!CreateRespond,
     Escalations!Respond, EscalationsOnly!Respond, EscalationsOnly!Create
<1> QED  BY <1>1, <1>2, <1>3, <1>4, <1>5, <1>6 DEF Escalations!Create

\* So is each of PATCH /escalations/{number}.
LEMMA EscalationPatches ==
    ASSUME Shape, NEW t \in Threads, Escalations!Patch(t)
    PROVE  EscalationsOnly!Patch(t)
<1> USE DEF Escalations!Receive, EscalationsOnly!Receive, Escalations!GoTo,
        EscalationsOnly!GoTo, Escalations!Done, EscalationsOnly!Done, Escalations!connVars,
        EscalationsOnly!connVars, Escalations!rows, EscalationsOnly!rows,
        Escalations!NoCall, EscalationsOnly!NoCall, Escalations!NewCall,
        EscalationsOnly!NewCall
<1>1. CASE Escalations!PatchLookup(t)
  BY <1>1 DEF Escalations!PatchLookup, EscalationsOnly!PatchLookup, Escalations!Fail,
     EscalationsOnly!Fail, Escalations!Numbers, EscalationsOnly!Numbers,
     EscalationsOnly!Patch
<1>2. CASE Escalations!PatchUpdate(t)
  BY <1>2, EscalationStatements DEF Escalations!PatchUpdate, EscalationsOnly!PatchUpdate,
     EscalationsOnly!Patch
<1>3. CASE Escalations!PatchRejected(t)
  BY <1>3, EscalationStatements DEF Escalations!PatchRejected,
     EscalationsOnly!PatchRejected, Escalations!Fail, EscalationsOnly!Fail,
     EscalationsOnly!Patch
<1>4. CASE Escalations!PatchCommit(t)
  BY <1>4, EscalationStatements DEF Escalations!PatchCommit, EscalationsOnly!PatchCommit,
     EscalationsOnly!Patch
<1>5. CASE Escalations!PatchRespond(t)
  BY <1>5 DEF Escalations!PatchRespond, EscalationsOnly!PatchRespond,
     Escalations!Respond, EscalationsOnly!Respond, EscalationsOnly!Patch
<1> QED  BY <1>1, <1>2, <1>3, <1>4, <1>5 DEF Escalations!Patch

-----------------------------------------------------------------------------
\* Whatever the incidents router does is no more than what the other one allows for.
LEMMA IncidentElsewhere ==
    ASSUME Shape, NEW t \in Threads, ServeIncidents(t)
    PROVE  EscalationsOnly!Elsewhere /\ TwoTables'
<1> USE DEF ServeIncidents, TwoTables, escalationVars, Incidents!Receive, Incidents!connVars, EscalationsOnly!connVars, EscalationsOnly!Elsewhere, Shape
<1>1. CASE Incidents!Create(t)
  BY <1>1, IncidentStatements DEF Incidents!Create, Incidents!CreateAllocate, Incidents!CreateStamp, Incidents!CreateInsert,
     Incidents!CreateCollides, Incidents!CreateCommit, Incidents!CreateRespond
<1>2. CASE Incidents!Patch(t)
  BY <1>2, IncidentStatements DEF Incidents!Patch, Incidents!PatchLookup, Incidents!PatchUpdate, Incidents!PatchRejected,
     Incidents!PatchCommit, Incidents!PatchRespond
<1>3. CASE Incidents!GetTicket(t)
  BY <1>3 DEF Incidents!GetTicket
<1> QED  BY <1>1, <1>2, <1>3

LEMMA IncidentSteps ==
    ASSUME Shape, NEW t \in Threads, ServeIncidents(t)
    PROVE  IncidentsOnly!Next
<1>1. Incidents!GetTicket(t) => IncidentsOnly!GetTicket(t)
  BY DEF Incidents!GetTicket, IncidentsOnly!GetTicket, Incidents!Receive, IncidentsOnly!Receive, Incidents!connVars, IncidentsOnly!connVars,
     Incidents!rows, IncidentsOnly!rows, Incidents!NewCall, IncidentsOnly!NewCall, Incidents!Numbers, IncidentsOnly!Numbers, Incidents!Respond,
     IncidentsOnly!Respond, Incidents!Fail, IncidentsOnly!Fail
<1> QED  BY <1>1, IncidentCreates, IncidentPatches DEF ServeIncidents, IncidentsOnly!Next

\* Whatever the escalations router does is no more than what the other one allows for.
LEMMA EscalationElsewhere ==
    ASSUME Shape, NEW t \in Threads, ServeEscalations(t)
    PROVE  IncidentsOnly!Elsewhere /\ TwoTables'
<1> USE DEF ServeEscalations, TwoTables, incidentVars, Escalations!Receive, Escalations!connVars, IncidentsOnly!connVars, IncidentsOnly!Elsewhere, Shape
<1>1. CASE Escalations!Create(t)
  BY <1>1, EscalationStatements DEF Escalations!Create, Escalations!CreateAllocate, Escalations!CreateStamp, Escalations!CreateInsert,
     Escalations!CreateCollides, Escalations!CreateCommit, Escalations!CreateRespond
<1>2. CASE Escalations!Patch(t)
  BY <1>2, EscalationStatements DEF Escalations!Patch, Escalations!PatchLookup, Escalations!PatchUpdate, Escalations!PatchRejected,
     Escalations!PatchCommit, Escalations!PatchRespond
<1>3. CASE Escalations!GetTicket(t)
  BY <1>3 DEF Escalations!GetTicket
<1> QED  BY <1>1, <1>2, <1>3

LEMMA EscalationSteps ==
    ASSUME Shape, NEW t \in Threads, ServeEscalations(t)
    PROVE  EscalationsOnly!Next
<1>1. Escalations!GetTicket(t) => EscalationsOnly!GetTicket(t)
  BY DEF Escalations!GetTicket, EscalationsOnly!GetTicket, Escalations!Receive, EscalationsOnly!Receive, Escalations!connVars, EscalationsOnly!connVars,
     Escalations!rows, EscalationsOnly!rows, Escalations!NewCall, EscalationsOnly!NewCall, Escalations!Numbers, EscalationsOnly!Numbers, Escalations!Respond,
     EscalationsOnly!Respond, Escalations!Fail, EscalationsOnly!Fail
<1> QED  BY <1>1, EscalationCreates, EscalationPatches DEF ServeEscalations, EscalationsOnly!Next

-----------------------------------------------------------------------------
LEMMA ShapeInit ==
    ASSUME Init
    PROVE  Shape
BY ItsmAssumption DEF Init, Shape, TwoTables, Incidents!HandlersInit, Incidents!TicketAssumption

LEMMA ShapeStep ==
    ASSUME Shape, [Next]_vars
    PROVE  Shape'
<1>1. CASE Restart
  BY <1>1 DEF Restart, Incidents!Restart, Incidents!Reopen, Shape, TwoTables
<1>2. CASE \E t \in Threads : ServeIncidents(t)
  BY <1>2, IncidentElsewhere DEF EscalationsOnly!Elsewhere, Shape
<1>3. CASE \E t \in Threads : ServeEscalations(t)
  BY <1>3, EscalationElsewhere DEF IncidentsOnly!Elsewhere, Shape
<1>4. CASE UNCHANGED vars
  BY <1>4 DEF vars, connVars, Shape, TwoTables
<1> QED  BY <1>1, <1>2, <1>3, <1>4 DEF Next

\* A kill of the process is one for each of the routers.
LEMMA RestartsBoth ==
    ASSUME Shape, Restart
    PROVE  IncidentsOnly!Restart /\ EscalationsOnly!Restart
BY DEF Shape, TwoTables, Restart, Incidents!Restart, IncidentsOnly!Restart, Incidents!Reopen,
   IncidentsOnly!Reopen, Escalations!Restart, EscalationsOnly!Restart, Escalations!Reopen,
   EscalationsOnly!Reopen, Incidents!NoCall, IncidentsOnly!NoCall, Incidents!NewCall,
   IncidentsOnly!NewCall, Escalations!NoCall, EscalationsOnly!NoCall, Escalations!NewCall,
   EscalationsOnly!NewCall

LEMMA IncidentsInit ==
    ASSUME Init
    PROVE  IncidentsOnly!Init
BY DEF Init, IncidentsOnly!Init, Incidents!HandlersInit, IncidentsOnly!HandlersInit,
   Incidents!NoCall, IncidentsOnly!NoCall, Incidents!NewCall, IncidentsOnly!NewCall,
   Incidents!SeededTable, IncidentsOnly!SeededTable, Incidents!NewRow, IncidentsOnly!NewRow

LEMMA EscalationsInit ==
    ASSUME Init
    PROVE  EscalationsOnly!Init
BY DEF Init, EscalationsOnly!Init, Escalations!HandlersInit, EscalationsOnly!HandlersInit,
   Escalations!NoCall, EscalationsOnly!NoCall, Escalations!NewCall, EscalationsOnly!NewCall,
   Escalations!SeededTable, EscalationsOnly!SeededTable, Escalations!NewRow,
   EscalationsOnly!NewRow

LEMMA StepOfBoth ==
    ASSUME Shape, [Next]_vars
    PROVE  [IncidentsOnly!Next]_IncidentsOnly!vars /\ [EscalationsOnly!Next]_EscalationsOnly!vars
<1>1. CASE Restart
  BY <1>1, RestartsBoth DEF IncidentsOnly!Next, EscalationsOnly!Next
<1>2. CASE \E t \in Threads : ServeIncidents(t)
  BY <1>2, IncidentSteps, IncidentElsewhere DEF EscalationsOnly!Next
<1>3. CASE \E t \in Threads : ServeEscalations(t)
  BY <1>3, EscalationSteps, EscalationElsewhere DEF IncidentsOnly!Next
<1>4. CASE UNCHANGED vars
  BY <1>4 DEF vars, connVars, incidentVars, escalationVars, IncidentsOnly!vars,
     IncidentsOnly!connVars, EscalationsOnly!vars, EscalationsOnly!connVars
<1> QED  BY <1>1, <1>2, <1>3, <1>4 DEF Next

\* Either router, sharing the connection and its transaction with the other one,
\* is the router of TicketApi, of which TicketApiProofs shows what clients may
\* rely on (app/db.py:30-63, routers/incidents.py, routers/escalations.py).
THEOREM RoutersImplementTicketApi == Spec => RoutersUndisturbed
<1>1. Init => Shape
  BY ShapeInit
<1>2. Shape /\ [Next]_vars => Shape'
  BY ShapeStep
<1>3. Init => IncidentsOnly!Init /\ EscalationsOnly!Init
  BY IncidentsInit, EscalationsInit
<1>4. Shape /\ [Next]_vars =>
        [IncidentsOnly!Next]_IncidentsOnly!vars /\ [EscalationsOnly!Next]_EscalationsOnly!vars
  BY StepOfBoth
<1> QED
  BY <1>1, <1>2, <1>3, <1>4, PTL DEF Spec, RoutersUndisturbed, IncidentsOnly!Spec,
     EscalationsOnly!Spec
=============================================================================

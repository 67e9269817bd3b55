-------------------------- MODULE TicketApiProofs --------------------------
(***************************************************************************)
(* TicketApi for any set of workers, any seeded numbers, any width of the  *)
(* number and any number of requests and kills.                            *)
(***************************************************************************)
EXTENDS TicketApi, TLAPS

-----------------------------------------------------------------------------
(***************************************************************************)
(* The operators of the model.                                             *)
(***************************************************************************)

\* Adding a row leaves every other row as it is and keeps the table's type.
LEMMA RowAddedType ==
    ASSUME NEW table, IsTable(table), NEW key \in Numbers, NEW row \in Row
    PROVE  IsTable(RowAdded(table, key, row))
BY DEF IsTable, RowAdded

\* What a statement that succeeds does to the table, seen from the model.
LEMMA WriteEffect ==
    ASSUME TypeOK, NEW key \in Numbers, NEW row \in Row, Write(Table, key, row)
    PROVE  /\ rows' = RowAdded(rows, key, row)
           /\ stored' = stored
           /\ Table \in DOMAIN mem' /\ IsTable(rows')
           /\ Table \in DOMAIN disk' /\ IsTable(stored')
           /\ inTxn' \in BOOLEAN
<1>1. rows' = RowAdded(rows, key, row) /\ Table \in DOMAIN mem'
  BY DEF TypeOK, Write, rows
<1>2. IsTable(rows')
  BY <1>1, RowAddedType DEF TypeOK
<1>3. stored' = stored /\ Table \in DOMAIN disk' /\ inTxn' \in BOOLEAN
  BY DEF TypeOK, Write, stored
<1>4. IsTable(stored')
  BY <1>3 DEF TypeOK, IsTable
<1> QED  BY <1>1, <1>2, <1>3, <1>4

\* A new row has the type of a row.
LEMMA NewRowType ==
    ASSUME NEW a \in Nat, NEW o \in Nat
    PROVE  NewRow(a, o) \in Row
BY DEF NewRow, Row

LEMMA NewCallType ==
    \A id \in Nat, n \in Nat, F \in SUBSET PatchableFields, bad \in BOOLEAN :
        NewCall(id, n, F, bad) \in Call /\ NewCall(id, n, F, bad).number = n
BY DEF NewCall, Call

\* A request without fields, which a POST and a GET are.
LEMMA PlainCallType ==
    \A id \in Nat, n \in Numbers :
        /\ NewCall(id, n, {}, FALSE) \in Call
        /\ NewCall(id, n, {}, FALSE).number = n
<1>1. {} \in SUBSET PatchableFields /\ FALSE \in BOOLEAN /\ Numbers \subseteq Nat
  BY DEF Numbers
<1> QED  BY <1>1, NewCallType

LEMMA NoCallType == NoCall \in Call
BY DEF NewCall, Call, NoCall

\* The responses and the errors a handler adds have their type.
LEMMA RespondType ==
    ASSUME TypeOK, NEW c \in Call, c.number \in DOMAIN rows,
           NEW op \in {"create", "patch", "get"}, Respond(op, c)
    PROVE  replies' \subseteq Reply /\ errors' \subseteq Error
<1>1. rows[c.number] \in Row /\ c.number \in Numbers
  BY DEF TypeOK, IsTable
<1>2. [op |-> op, id |-> c.id, number |-> c.number, fields |-> c.fields,
       wrote |-> c.wrote, row |-> rows[c.number]] \in Reply
  BY <1>1 DEF Reply, Call
<1> QED  BY <1>2 DEF Respond, TypeOK

LEMMA FailType ==
    ASSUME TypeOK, NEW c \in Call, c.number \in Numbers,
           NEW op \in {"create", "patch", "get"}, NEW status \in {404, 500},
           Fail(op, status, c)
    PROVE  replies' \subseteq Reply /\ errors' \subseteq Error
BY DEF Fail, TypeOK, Error, Call

-----------------------------------------------------------------------------
(***************************************************************************)
(* Types.                                                                  *)
(***************************************************************************)

\* A handler that has found or written its row still sees one under its
\* number: no statement of the two routers deletes a row.
RowHeld ==
    \A t \in Threads :
        pc[t] \in {"commit", "reread", "update", "patch_commit", "patch_reread"}
            => call[t].number \in DOMAIN rows

Typed == TypeOK /\ RowHeld

LEMMA TypedInit == Init => Typed
<1> SUFFICES ASSUME Init PROVE Typed
  OBVIOUS
<1>1. rows = [n \in Seeded |-> NewRow(0, 0)] /\ stored = rows
  BY DEF Init, HandlersInit, SeededTable, rows, stored
<1>2. IsTable(rows) /\ IsTable(stored)
  BY <1>1, NewRowType, TicketAssumption DEF IsTable, Numbers
<1>3. TypeOK
  BY <1>2, NoCallType DEF Init, HandlersInit, TypeOK, Labels
<1> QED  BY <1>3 DEF Init, HandlersInit, Typed, RowHeld

LEMMA TypedStep == Typed /\ [Next]_vars => Typed'
<1> SUFFICES ASSUME TypeOK, RowHeld, [Next]_vars PROVE TypeOK' /\ RowHeld'
  BY DEF Typed
<1> USE DEF Labels
<1>1. CASE UNCHANGED vars
  BY <1>1 DEF TypeOK, RowHeld, IsTable, vars, connVars, rows, stored
<1>2. CASE Restart
  <2>1. rows' = stored /\ stored' = stored /\ Table \in DOMAIN mem' /\ inTxn' = FALSE
        /\ Table \in DOMAIN disk'
    BY <1>2 DEF Restart, Reopen, rows, stored, TypeOK
  <2>2. IsTable(rows') /\ IsTable(stored')
    BY <2>1 DEF TypeOK, IsTable
  <2>3. pc' = [t \in Threads |-> "idle"] /\ call' = [t \in Threads |-> NoCall]
        /\ crashes' \in Nat /\ UNCHANGED <<clock, writes, issued, replies, errors>>
    BY <1>2 DEF Restart, TypeOK
  <2>4. TypeOK'
    BY <2>1, <2>2, <2>3, NoCallType DEF TypeOK
  <2>5. RowHeld'
    BY <2>3 DEF RowHeld
  <2> QED  BY <2>4, <2>5
<1>13. CASE Elsewhere
  <2>1. rows' = rows /\ Table \in DOMAIN mem' /\ inTxn' \in BOOLEAN
    BY <1>13 DEF Elsewhere, Commit, Rejected, connVars, rows, TypeOK
  <2>2. (stored' = stored \/ stored' = rows) /\ Table \in DOMAIN disk'
    BY <1>13 DEF Elsewhere, Commit, Rejected, connVars, rows, stored, TypeOK
  <2>3. IsTable(rows') /\ IsTable(stored')
    BY <2>1, <2>2 DEF TypeOK
  <2>4. clock' \in Nat /\ UNCHANGED <<pc, call, writes, issued, crashes, replies, errors>>
    BY <1>13 DEF Elsewhere, TypeOK
  <2>5. TypeOK'
    BY <2>1, <2>2, <2>3, <2>4 DEF TypeOK
  <2>6. RowHeld'
    BY <2>1, <2>4 DEF RowHeld
  <2> QED  BY <2>5, <2>6
<1>3. ASSUME NEW t \in Threads, CreateAllocate(t) PROVE TypeOK' /\ RowHeld'
  <2>1. PICK n \in Numbers :
          call' = [call EXCEPT ![t] = NewCall(issued', n, {}, FALSE)]
    BY <1>3 DEF CreateAllocate
  <2>2. issued' \in Nat /\ NewCall(issued', n, {}, FALSE) \in Call
        /\ NewCall(issued', n, {}, FALSE).number = n
    <3>1. issued' \in Nat
      BY <1>3 DEF CreateAllocate, Receive, TypeOK
    <3> QED  BY <3>1, PlainCallType
  <2>3. rows' = rows /\ stored' = stored /\ UNCHANGED <<mem, disk>>
    BY <1>3 DEF CreateAllocate, connVars, rows, stored
  <2>4. pc' = [pc EXCEPT ![t] = "stamp"] /\ issued' \in Nat
    BY <1>3 DEF CreateAllocate, GoTo, Receive, TypeOK
  <2>5. TypeOK'
    BY <1>3, <2>1, <2>2, <2>3, <2>4
    DEF CreateAllocate, connVars, TypeOK, IsTable
  <2>6. RowHeld'
    BY <2>1, <2>3, <2>4 DEF RowHeld, TypeOK
  <2> QED  BY <2>5, <2>6
<1>4. ASSUME NEW t \in Threads, CreateStamp(t) PROVE TypeOK' /\ RowHeld'
  <2>1. clock' \in Nat /\ call' = [call EXCEPT ![t].opened = clock']
        /\ pc' = [pc EXCEPT ![t] = "insert"] /\ pc[t] = "stamp"
    BY <1>4 DEF CreateStamp, GoTo, TypeOK
  <2>2. rows' = rows /\ stored' = stored /\ UNCHANGED <<mem, disk>>
    BY <1>4 DEF CreateStamp, connVars, rows, stored
  <2>3. call' \in [Threads -> Call]
    BY <2>1 DEF TypeOK, Call
  <2>4. TypeOK'
    BY <1>4, <2>1, <2>2, <2>3 DEF CreateStamp, connVars, TypeOK, IsTable
  <2>5. RowHeld'
    BY <2>1, <2>2 DEF RowHeld, TypeOK
  <2> QED  BY <2>4, <2>5
<1>5. ASSUME NEW t \in Threads, CreateInsert(t) PROVE TypeOK' /\ RowHeld'
  <2> DEFINE row == NewRow(call[t].id, call[t].opened)
  <2>1. call[t] \in Call /\ call[t].number \in Numbers /\ row \in Row
    BY <1>5, NewRowType DEF CreateInsert, TypeOK, Call
  <2>2. Write(Table, call[t].number, row) /\ pc' = [pc EXCEPT ![t] = "commit"]
        /\ pc[t] = "insert"
    BY <1>5 DEF CreateInsert, GoTo
  <2> HIDE DEF row
  <2>3. TypeOK'
    BY <1>5, <2>1, <2>2, WriteEffect DEF CreateInsert, TypeOK
  <2>5. rows' = RowAdded(rows, call[t].number, row)
    BY <2>1, <2>2, WriteEffect
  <2>6. DOMAIN rows' = DOMAIN rows \cup {call[t].number} /\ call' = call
    BY <1>5, <2>5 DEF RowAdded, CreateInsert
  <2>4. RowHeld'
    BY <2>2, <2>6 DEF RowHeld, TypeOK
  <2> QED  BY <2>3, <2>4
<1>6. ASSUME NEW t \in Threads, CreateCollides(t) PROVE TypeOK' /\ RowHeld'
  <2>1. UNCHANGED <<mem, disk>> /\ rows' = rows /\ stored' = stored /\ inTxn' = TRUE
        /\ pc' = [pc EXCEPT ![t] = "idle"] /\ call' = [call EXCEPT ![t] = NoCall]
    BY <1>6 DEF CreateCollides, Rejected, Done, GoTo, rows, stored
  <2>2. replies' \subseteq Reply /\ errors' \subseteq Error
    BY <1>6, FailType DEF CreateCollides, TypeOK
  <2> QED  BY <1>6, <2>1, <2>2, NoCallType DEF CreateCollides, TypeOK, RowHeld, IsTable
<1>7. ASSUME NEW t \in Threads, CreateCommit(t) \/ PatchCommit(t)
      PROVE TypeOK' /\ RowHeld'
  <2>1. mem' = mem /\ rows' = rows /\ stored' = rows /\ inTxn' = FALSE
        /\ Table \in DOMAIN disk'
    BY <1>7 DEF CreateCommit, PatchCommit, Commit, rows, stored, TypeOK
  <2>2. pc[t] \in {"commit", "patch_commit"} /\ pc' \in [Threads -> Labels]
        /\ \E l \in {"reread", "patch_reread"} : pc' = [pc EXCEPT ![t] = l]
    BY <1>7 DEF CreateCommit, PatchCommit, GoTo, TypeOK
  <2>3. TypeOK'
    BY <1>7, <2>1, <2>2 DEF CreateCommit, PatchCommit, TypeOK, IsTable
  <2>4. RowHeld'
    BY <1>7, <2>1, <2>2 DEF CreateCommit, PatchCommit, RowHeld, TypeOK
  <2> QED  BY <2>3, <2>4
<1>8. ASSUME NEW t \in Threads, CreateRespond(t) \/ PatchRespond(t)
      PROVE TypeOK' /\ RowHeld'
  <2>1. call[t] \in Call /\ call[t].number \in DOMAIN rows
    BY <1>8 DEF CreateRespond, PatchRespond, TypeOK, RowHeld
  <2>2. replies' \subseteq Reply /\ errors' \subseteq Error
    BY <1>8, <2>1, RespondType DEF CreateRespond, PatchRespond
  <2>3. UNCHANGED <<mem, disk, inTxn>> /\ rows' = rows /\ stored' = stored
        /\ pc' = [pc EXCEPT ![t] = "idle"] /\ call' = [call EXCEPT ![t] = NoCall]
    BY <1>8 DEF CreateRespond, PatchRespond, Done, GoTo, connVars, rows, stored
  <2> QED
    BY <1>8, <2>2, <2>3, NoCallType
    DEF CreateRespond, PatchRespond, TypeOK, RowHeld, IsTable
<1>9. ASSUME NEW t \in Threads, PatchLookup(t) PROVE TypeOK' /\ RowHeld'
  <2>1. PICK n \in Numbers, F \in SUBSET PatchableFields, bad \in BOOLEAN :
          LET c == NewCall(issued', n, F, bad)
          IN  \/ /\ n \notin DOMAIN rows
                 /\ Fail("patch", 404, c)
                 /\ UNCHANGED <<pc, call>>
              \/ /\ n \in DOMAIN rows
                 /\ GoTo(t, IF F = {} THEN "patch_reread" ELSE "update")
                 /\ call' = [call EXCEPT ![t] = c]
                 /\ UNCHANGED <<replies, errors>>
    BY <1>9 DEF PatchLookup
  <2> DEFINE c == NewCall(issued', n, F, bad)
  <2>3. rows' = rows /\ stored' = stored /\ issued' \in Nat /\ UNCHANGED <<mem, disk, inTxn>>
    BY <1>9 DEF PatchLookup, Receive, connVars, rows, stored, TypeOK
  <2>2. c \in Call /\ c.number = n
    BY <2>3, NewCallType DEF Numbers
  <2> HIDE DEF c
  <2>4. CASE Fail("patch", 404, c) /\ UNCHANGED <<pc, call>>
    <3>1. replies' \subseteq Reply /\ errors' \subseteq Error
      BY <2>2, <2>4, FailType
    <3> QED  BY <1>9, <2>3, <2>4, <3>1 DEF PatchLookup, TypeOK, RowHeld, IsTable
  <2>5. CASE /\ n \in DOMAIN rows
             /\ GoTo(t, IF F = {} THEN "patch_reread" ELSE "update")
             /\ call' = [call EXCEPT ![t] = c]
             /\ UNCHANGED <<replies, errors>>
    <3>1. \E l \in {"patch_reread", "update"} : pc' = [pc EXCEPT ![t] = l]
      BY <2>5 DEF GoTo
    <3> QED  BY <1>9, <2>2, <2>3, <2>5, <3>1 DEF PatchLookup, TypeOK, RowHeld, IsTable
  <2> QED  BY <2>1, <2>4, <2>5 DEF c
<1>10. ASSUME NEW t \in Threads, PatchUpdate(t) PROVE TypeOK' /\ RowHeld'
  <2> DEFINE old == rows[call[t].number]
             row == [old EXCEPT !.val = [f \in PatchableFields |->
                       IF f \in call[t].fields THEN writes' ELSE old.val[f]]]
  <2>1. writes' = writes + 1 /\ writes' \in Nat /\ Write(Table, call[t].number, row)
        /\ call' = [call EXCEPT ![t].wrote = writes']
        /\ pc' = [pc EXCEPT ![t] = "patch_commit"] /\ pc[t] = "update"
    BY <1>10 DEF PatchUpdate, GoTo, TypeOK
  <2>2. call[t].number \in DOMAIN rows /\ call[t].number \in Numbers /\ old \in Row
    BY <2>1 DEF RowHeld, TypeOK, IsTable
  <2>3. row \in Row
    BY <2>1, <2>2 DEF Row
  <2>4. call' \in [Threads -> Call] /\ \A u \in Threads : call'[u].number = call[u].number
    BY <2>1 DEF TypeOK, Call
  <2> HIDE DEF row, old
  <2>5. TypeOK'
    BY <1>10, <2>1, <2>2, <2>3, <2>4, WriteEffect DEF PatchUpdate, TypeOK
  <2>7. rows' = RowAdded(rows, call[t].number, row)
    BY <2>1, <2>2, <2>3, WriteEffect
  <2>8. DOMAIN rows' = DOMAIN rows
    BY <2>2, <2>7 DEF RowAdded
  <2>6. RowHeld'
    BY <2>1, <2>2, <2>4, <2>8 DEF RowHeld, TypeOK
  <2> QED  BY <2>5, <2>6
<1>11. ASSUME NEW t \in Threads, PatchRejected(t) PROVE TypeOK' /\ RowHeld'
  <2>1. UNCHANGED <<mem, disk>> /\ rows' = rows /\ stored' = stored /\ inTxn' = TRUE
        /\ pc' = [pc EXCEPT ![t] = "idle"] /\ call' = [call EXCEPT ![t] = NoCall]
    BY <1>11 DEF PatchRejected, Rejected, Done, GoTo, rows, stored
  <2>2. replies' \subseteq Reply /\ errors' \subseteq Error
    BY <1>11, FailType DEF PatchRejected, TypeOK
  <2> QED  BY <1>11, <2>1, <2>2, NoCallType DEF PatchRejected, TypeOK, RowHeld, IsTable
<1>12. ASSUME NEW t \in Threads, GetTicket(t) PROVE TypeOK' /\ RowHeld'
  <2>1. PICK n \in Numbers :
          LET c == NewCall(issued', n, {}, FALSE)
          IN  IF n \in DOMAIN rows THEN Respond("get", c) ELSE Fail("get", 404, c)
    BY <1>12 DEF GetTicket
  <2> DEFINE c == NewCall(issued', n, {}, FALSE)
  <2>4. rows' = rows /\ stored' = stored /\ issued' \in Nat /\ UNCHANGED <<mem, disk, inTxn>>
    BY <1>12 DEF GetTicket, Receive, connVars, rows, stored, TypeOK
  <2>2. c \in Call /\ c.number = n
    BY <2>4, PlainCallType
  <2> HIDE DEF c
  <2>5. IF n \in DOMAIN rows THEN Respond("get", c) ELSE Fail("get", 404, c)
    BY <2>1 DEF c
  <2>3. replies' \subseteq Reply /\ errors' \subseteq Error
    <3>1. CASE n \in DOMAIN rows
      BY <2>2, <2>5, <3>1, RespondType
    <3>2. CASE n \notin DOMAIN rows
      BY <2>2, <2>5, <3>2, FailType
    <3> QED  BY <3>1, <3>2
  <2> QED  BY <1>12, <2>3, <2>4 DEF GetTicket, TypeOK, RowHeld, IsTable
<1> QED
  BY <1>1, <1>2, <1>3, <1>4, <1>5, <1>6, <1>7, <1>8, <1>9, <1>10, <1>11, <1>12, <1>13
  DEF Next, Create, Patch

\* The type invariant, for every value of the constants.
THEOREM TypeCorrect == Spec => []TypeOK
<1>1. Spec => []Typed
  BY TypedInit, TypedStep, PTL DEF Spec
<1>2. Typed => TypeOK
  BY DEF Typed
<1> QED  BY <1>1, <1>2, PTL

-----------------------------------------------------------------------------
(***************************************************************************)
(* What each statement does to the table and to the file.                  *)
(***************************************************************************)

\* A row that is kept: the same ticket, with fields as new or newer.
RowKept(old, new) ==
    /\ new.account = old.account
    /\ new.opened = old.opened
    /\ \A f \in PatchableFields : new.val[f] >= old.val[f]

Kept(old, new) ==
    \A n \in DOMAIN old : n \in DOMAIN new /\ RowKept(old[n], new[n])

LEMMA KeptReflexive ==
    ASSUME NEW table, IsTable(table)
    PROVE  Kept(table, table)
BY DEF Kept, RowKept, IsTable, Row

LEMMA KeptTransitive ==
    ASSUME NEW a, IsTable(a), NEW b, IsTable(b), NEW c, IsTable(c),
           Kept(a, b), Kept(b, c)
    PROVE  Kept(a, c)
BY DEF Kept, RowKept, IsTable, Row

\* The value of the next UPDATE is newer than any there is.
Versions == \A n \in DOMAIN rows, f \in PatchableFields : rows[n].val[f] <= writes

LEMMA InsertEffect ==
    ASSUME Typed, NEW t \in Threads, CreateInsert(t)
    PROVE  /\ call[t].number \in Numbers \ DOMAIN rows
           /\ rows' = RowAdded(rows, call[t].number, NewRow(call[t].id, call[t].opened))
           /\ stored' = stored /\ writes' = writes
           /\ Kept(rows, rows')
<1> DEFINE row == NewRow(call[t].id, call[t].opened)
<1>1. call[t].number \in Numbers \ DOMAIN rows /\ row \in Row
  BY NewRowType DEF CreateInsert, Typed, TypeOK, Call
<1>2. Write(Table, call[t].number, row) /\ writes' = writes
  BY DEF CreateInsert
<1> HIDE DEF row
<1>3. rows' = RowAdded(rows, call[t].number, row) /\ stored' = stored
  BY <1>1, <1>2, WriteEffect DEF Typed
<1>4. Kept(rows, rows')
  BY <1>1, <1>3 DEF Kept, RowKept, RowAdded, IsTable, Row, Typed, TypeOK
<1> QED  BY <1>1, <1>2, <1>3, <1>4 DEF row

LEMMA UpdateEffect ==
    ASSUME Typed, Versions, NEW t \in Threads, PatchUpdate(t)
    PROVE  /\ call[t].number \in DOMAIN rows
           /\ DOMAIN rows' = DOMAIN rows
           /\ stored' = stored /\ writes' = writes + 1
           /\ Kept(rows, rows')
           /\ \A f \in call[t].fields : rows'[call[t].number].val[f] = writes'
           /\ \A n \in DOMAIN rows, f \in PatchableFields : rows'[n].val[f] <= writes'
<1> DEFINE k == call[t].number
           row == [rows[k] EXCEPT !.val = [f \in PatchableFields |->
                     IF f \in call[t].fields THEN writes' ELSE rows[k].val[f]]]
<1>1. writes' = writes + 1 /\ Write(Table, k, row) /\ pc[t] = "update" /\ writes \in Nat
  BY DEF PatchUpdate, Typed, TypeOK
<1>2. k \in DOMAIN rows /\ k \in Numbers /\ rows[k] \in Row
  BY <1>1 DEF Typed, RowHeld, TypeOK, IsTable
<1>3. row \in Row
  BY <1>1, <1>2 DEF Row
<1>4. rows' = RowAdded(rows, k, row) /\ stored' = stored
  BY <1>1, <1>2, <1>3, WriteEffect DEF Typed
<1>5. DOMAIN rows' = DOMAIN rows /\ rows'[k] = row
      /\ \A n \in DOMAIN rows : n # k => rows'[n] = rows[n]
  BY <1>2, <1>4 DEF RowAdded
<1>6. /\ row.account = rows[k].account /\ row.opened = rows[k].opened
      /\ \A f \in PatchableFields :
           row.val[f] = IF f \in call[t].fields THEN writes' ELSE rows[k].val[f]
  BY <1>2 DEF Row
<1>7. \A n \in DOMAIN rows, f \in PatchableFields :
         rows[n].val[f] \in Nat /\ rows[n].val[f] <= writes
  BY DEF Typed, TypeOK, IsTable, Row, Versions
<1>8. call[t].fields \subseteq PatchableFields
  BY DEF Typed, TypeOK, Call
<1> HIDE DEF row, k
<1>9. Kept(rows, rows')
  BY <1>1, <1>2, <1>5, <1>6, <1>7 DEF Kept, RowKept
<1>10. \A n \in DOMAIN rows, f \in PatchableFields : rows'[n].val[f] <= writes'
  BY <1>1, <1>2, <1>5, <1>6, <1>7
<1>11. \A f \in call[t].fields : rows'[k].val[f] = writes'
  BY <1>5, <1>6, <1>8
<1> QED  BY <1>1, <1>2, <1>4, <1>5, <1>9, <1>10, <1>11 DEF k

LEMMA CommitEffect ==
    ASSUME Typed, NEW t \in Threads, CreateCommit(t) \/ PatchCommit(t)
    PROVE  rows' = rows /\ stored' = rows /\ mem' = mem /\ disk' = mem
           /\ call' = call /\ writes' = writes
BY DEF CreateCommit, PatchCommit, Commit, rows, stored

LEMMA RestartEffect ==
    ASSUME Restart
    PROVE  rows' = stored /\ stored' = stored /\ mem' = disk /\ disk' = disk
           /\ pc' = [t \in Threads |-> "idle"]
           /\ call' = [t \in Threads |-> NoCall]
           /\ UNCHANGED <<clock, writes, issued, replies, errors>>
BY DEF Restart, Reopen, rows, stored

LEMMA ElsewhereEffect ==
    ASSUME Typed, Elsewhere
    PROVE  /\ rows' = rows /\ mem' = mem
           /\ (stored' = stored /\ disk' = disk) \/ (stored' = rows /\ disk' = mem)
           /\ UNCHANGED <<pc, call, writes, replies, errors>>
           /\ clock' \in Nat /\ clock <= clock'
BY DEF Elsewhere, Commit, Rejected, connVars, rows, stored, Typed, TypeOK

\* The steps that read the database, read the clock or fail.
Quiet(t) ==
    \/ CreateAllocate(t) \/ CreateStamp(t) \/ CreateCollides(t) \/ CreateRespond(t)
    \/ PatchLookup(t) \/ PatchRejected(t) \/ PatchRespond(t) \/ GetTicket(t)

LEMMA QuietEffect ==
    ASSUME NEW t \in Threads, Quiet(t)
    PROVE  UNCHANGED <<mem, disk, rows, stored, writes>>
BY DEF Quiet, CreateAllocate, CreateStamp, CreateCollides, CreateRespond, PatchLookup,
       PatchRejected, PatchRespond, GetTicket, Rejected, connVars, rows, stored

LEMMA StepCases ==
    ASSUME [Next]_vars
    PROVE  \/ UNCHANGED vars
           \/ Restart \/ Elsewhere
           \/ \E t \in Threads : \/ Quiet(t) \/ CreateInsert(t) \/ PatchUpdate(t)
                                 \/ CreateCommit(t) \/ PatchCommit(t)
BY DEF Next, Create, Patch, Quiet

LEMMA StutterEffect ==
    ASSUME UNCHANGED vars
    PROVE  UNCHANGED <<mem, disk, inTxn, rows, stored, pc, call, clock, writes, issued,
                       crashes, replies, errors>>
BY DEF vars, connVars, rows, stored

-----------------------------------------------------------------------------
(***************************************************************************)
(* The table and the file only grow.                                       *)
(***************************************************************************)

\* The connection is never behind the file, and no value is from the future.
Growing == Typed /\ Versions /\ Kept(stored, rows)

LEMMA RowsGrow ==
    ASSUME Growing, [Next]_vars, ~Restart
    PROVE  Kept(rows, rows')
<1>1. CASE UNCHANGED vars
  BY <1>1, StutterEffect, KeptReflexive DEF Growing, Typed, TypeOK
<1>2. ASSUME NEW t \in Threads, Quiet(t) PROVE Kept(rows, rows')
  BY <1>2, QuietEffect, KeptReflexive DEF Growing, Typed, TypeOK
<1>3. ASSUME NEW t \in Threads, CreateInsert(t) PROVE Kept(rows, rows')
  BY <1>3, InsertEffect DEF Growing
<1>4. ASSUME NEW t \in Threads, PatchUpdate(t) PROVE Kept(rows, rows')
  BY <1>4, UpdateEffect DEF Growing
<1>5. ASSUME NEW t \in Threads, CreateCommit(t) \/ PatchCommit(t) PROVE Kept(rows, rows')
  BY <1>5, CommitEffect, KeptReflexive DEF Growing, Typed, TypeOK
<1>6. CASE Elsewhere
  BY <1>6, ElsewhereEffect, KeptReflexive DEF Growing, Typed, TypeOK
<1> QED  BY <1>1, <1>2, <1>3, <1>4, <1>5, <1>6, StepCases

LEMMA StoredGrows ==
    ASSUME Growing, [Next]_vars
    PROVE  Kept(stored, stored')
<1>1. Kept(stored, stored) /\ Kept(stored, rows)
  BY KeptReflexive DEF Growing, Typed, TypeOK
<1>2. stored' = stored \/ stored' = rows
  BY StepCases, StutterEffect, RestartEffect, QuietEffect, InsertEffect, UpdateEffect,
     CommitEffect, ElsewhereEffect DEF Growing
<1> QED  BY <1>1, <1>2

LEMMA GrowingInit == Init => Growing
<1> SUFFICES ASSUME Init PROVE Growing
  OBVIOUS
<1>1. Typed
  BY TypedInit
<1>2. rows = [n \in Seeded |-> NewRow(0, 0)] /\ stored = rows /\ writes = 0
  BY DEF Init, HandlersInit, SeededTable, rows, stored
<1>3. Kept(stored, rows)
  BY <1>1, <1>2, KeptReflexive DEF Typed, TypeOK
<1>4. Versions
  BY <1>2 DEF Versions, NewRow
<1> QED  BY <1>1, <1>3, <1>4 DEF Growing

LEMMA GrowingStep == Growing /\ [Next]_vars => Growing'
<1> SUFFICES ASSUME Growing, [Next]_vars PROVE Versions' /\ Kept(stored, rows)'
  BY TypedStep DEF Growing
<1>1. Typed /\ Typed'
  BY TypedStep DEF Growing
<1>2. IsTable(rows) /\ IsTable(stored) /\ IsTable(rows') /\ IsTable(stored')
      /\ writes \in Nat /\ writes' \in Nat
  BY <1>1 DEF Typed, TypeOK, IsTable
<1>3. \A n \in DOMAIN rows, f \in PatchableFields : rows[n].val[f] <= writes
  BY DEF Growing, Versions
<1>4. Versions'
  <2>1. CASE UNCHANGED vars
    BY <2>1, <1>3, StutterEffect DEF Versions
  <2>2. CASE Restart
    <3>1. rows' = stored /\ writes' = writes
      BY <2>2, RestartEffect
    <3>2. \A n \in DOMAIN stored, f \in PatchableFields :
             /\ stored[n].val[f] \in Nat
             /\ n \in DOMAIN rows /\ rows[n].val[f] \in Nat
             /\ rows[n].val[f] >= stored[n].val[f]
      BY <1>2 DEF Growing, Kept, RowKept, IsTable, Row
    <3> QED  BY <1>2, <1>3, <3>1, <3>2 DEF Versions
  <2>3. ASSUME NEW t \in Threads, Quiet(t) PROVE Versions'
    BY <2>3, <1>3, QuietEffect DEF Versions
  <2>4. ASSUME NEW t \in Threads, CreateInsert(t) PROVE Versions'
    <3>1. writes' = writes
          /\ rows' = RowAdded(rows, call[t].number, NewRow(call[t].id, call[t].opened))
      BY <1>1, <2>4, InsertEffect
    <3> QED  BY <1>2, <1>3, <3>1 DEF Versions, RowAdded, NewRow
  <2>5. ASSUME NEW t \in Threads, PatchUpdate(t) PROVE Versions'
    BY <1>1, <2>5, UpdateEffect DEF Versions, Growing
  <2>6. ASSUME NEW t \in Threads, CreateCommit(t) \/ PatchCommit(t) PROVE Versions'
    BY <1>1, <1>3, <2>6, CommitEffect DEF Versions
  <2>7. CASE Elsewhere
    BY <1>1, <1>3, <2>7, ElsewhereEffect DEF Versions
  <2> QED  BY <2>1, <2>2, <2>3, <2>4, <2>5, <2>6, <2>7, StepCases
<1>5. Kept(stored', rows')
  <2>1. CASE Restart
    BY <1>2, <2>1, RestartEffect, KeptReflexive
  <2>2. CASE ~Restart
    <3>1. Kept(rows, rows')
      BY <2>2, RowsGrow
    <3>2. CASE stored' = stored
      BY <1>2, <3>1, <3>2, KeptTransitive DEF Growing
    <3>3. CASE stored' = rows
      BY <3>1, <3>3
    <3>4. stored' = stored \/ stored' = rows
      BY StepCases, StutterEffect, RestartEffect, QuietEffect, InsertEffect, UpdateEffect,
         CommitEffect, ElsewhereEffect DEF Growing
    <3> QED  BY <3>2, <3>3, <3>4
  <2> QED  BY <2>1, <2>2
<1> QED  BY <1>4, <1>5

-----------------------------------------------------------------------------
(***************************************************************************)
(* A handler finds what it wrote, and the responses are covered by the     *)
(* file.                                                                   *)
(***************************************************************************)

HandlerHolds ==
    \A t \in Threads :
        LET c == call[t]
        IN  /\ pc[t] = "commit" => rows[c.number].account = c.id
            /\ pc[t] = "reread" => /\ c.number \in DOMAIN stored
                                   /\ stored[c.number].account = c.id
            /\ pc[t] = "patch_commit" =>
                 \A f \in c.fields : rows[c.number].val[f] >= c.wrote
            /\ pc[t] = "patch_reread" =>
                 \A f \in c.fields : /\ c.number \in DOMAIN stored
                                     /\ stored[c.number].val[f] >= c.wrote

OpenedIsStored == \A r \in Acked : stored[r.number].opened = r.row.opened

Durable ==
    Growing /\ HandlerHolds /\ AckedCreateIsStored /\ AckedPatchIsStored /\ OpenedIsStored

\* A step of one worker leaves the others where they are.
LEMMA OthersUnmoved ==
    ASSUME TypeOK, NEW t \in Threads, NEW u \in Threads, u # t,
           Create(t) \/ Patch(t) \/ GetTicket(t)
    PROVE  pc'[u] = pc[u] /\ call'[u] = call[u]
BY DEF TypeOK, Create, Patch, GetTicket, CreateAllocate, CreateStamp, CreateInsert,
       CreateCollides, CreateCommit, CreateRespond, PatchLookup, PatchUpdate,
       PatchRejected, PatchCommit, PatchRespond, GoTo, Done

LEMMA QuietMoves ==
    ASSUME TypeOK, NEW t \in Threads, Quiet(t)
    PROVE  \/ pc'[t] \in {"idle", "stamp", "insert", "update"}
           \/ pc'[t] = "patch_reread" /\ call'[t].fields = {}
<1>1. CASE PatchLookup(t)
  <2>1. PICK n \in Numbers, F \in SUBSET PatchableFields, bad \in BOOLEAN :
          \/ UNCHANGED pc
          \/ /\ GoTo(t, IF F = {} THEN "patch_reread" ELSE "update")
             /\ call' = [call EXCEPT ![t] = NewCall(issued', n, F, bad)]
    BY <1>1 DEF PatchLookup
  <2>2. pc[t] = "idle"
    BY <1>1 DEF PatchLookup, Receive
  <2> QED  BY <2>1, <2>2 DEF GoTo, TypeOK, NewCall
<1>2. CASE GetTicket(t)
  BY <1>2 DEF GetTicket, Receive
<1>3. CASE CreateAllocate(t) \/ CreateStamp(t) \/ CreateCollides(t) \/ CreateRespond(t)
           \/ PatchRejected(t) \/ PatchRespond(t)
  BY <1>3 DEF TypeOK, CreateAllocate, CreateStamp, CreateCollides, CreateRespond,
              PatchRejected, PatchRespond, GoTo, Done
<1> QED  BY <1>1, <1>2, <1>3 DEF Quiet

LEMMA HandlerHoldsStep ==
    ASSUME Growing, HandlerHolds, [Next]_vars
    PROVE  HandlerHolds'
<1> DEFINE Holds(u) ==
      LET c == call[u]
      IN  /\ pc[u] = "commit" => rows[c.number].account = c.id
          /\ pc[u] = "reread" => /\ c.number \in DOMAIN stored
                                 /\ stored[c.number].account = c.id
          /\ pc[u] = "patch_commit" =>
               \A f \in c.fields : rows[c.number].val[f] >= c.wrote
          /\ pc[u] = "patch_reread" =>
               \A f \in c.fields : /\ c.number \in DOMAIN stored
                                   /\ stored[c.number].val[f] >= c.wrote
<1>1. Typed /\ TypeOK /\ RowHeld /\ Versions /\ Typed'
  BY TypedStep DEF Growing, Typed
<1>2. IsTable(rows) /\ IsTable(stored) /\ IsTable(rows') /\ IsTable(stored')
      /\ call \in [Threads -> Call]
  BY <1>1 DEF Typed, TypeOK, IsTable
\* Nothing a handler relies on is taken back while the handler does not move.
<1>3. ASSUME ~Restart, NEW u \in Threads, pc'[u] = pc[u], call'[u] = call[u]
      PROVE  Holds(u)'
  <2>1. Kept(rows, rows') /\ Kept(stored, stored')
    BY <1>3, RowsGrow, StoredGrows
  <2>2. Holds(u) /\ call[u].fields \subseteq PatchableFields /\ call[u].wrote \in Nat
    BY <1>2 DEF HandlerHolds, Call
  <2>3. pc[u] \in {"commit", "patch_commit"} =>
          /\ call[u].number \in DOMAIN rows /\ call[u].number \in DOMAIN rows'
          /\ rows'[call[u].number].account = rows[call[u].number].account
          /\ \A f \in PatchableFields :
               /\ rows[call[u].number].val[f] \in Nat
               /\ rows'[call[u].number].val[f] \in Nat
               /\ rows'[call[u].number].val[f] >= rows[call[u].number].val[f]
    BY <1>1, <1>2, <2>1 DEF RowHeld, Kept, RowKept, IsTable, Row
  <2>4. call[u].number \in DOMAIN stored =>
          /\ call[u].number \in DOMAIN stored'
          /\ stored'[call[u].number].account = stored[call[u].number].account
          /\ \A f \in PatchableFields :
               /\ stored[call[u].number].val[f] \in Nat
               /\ stored'[call[u].number].val[f] \in Nat
               /\ stored'[call[u].number].val[f] >= stored[call[u].number].val[f]
    BY <1>2, <2>1 DEF Kept, RowKept, IsTable, Row
  <2> QED  BY <1>3, <2>2, <2>3, <2>4
<1>4. CASE Restart
  BY <1>4, RestartEffect DEF HandlerHolds
<1>5. CASE UNCHANGED vars
  BY <1>5, StutterEffect DEF HandlerHolds
<1>6. ASSUME ~Restart, NEW t \in Threads, Create(t) \/ Patch(t) \/ GetTicket(t), Holds(t)'
      PROVE  HandlerHolds'
  <2>1. \A u \in Threads : Holds(u)'
    BY <1>1, <1>3, <1>6, OthersUnmoved
  <2> HIDE DEF Holds
  <2>2. (\A u \in Threads : Holds(u))'
    BY <2>1
  <2> QED  BY <2>2 DEF HandlerHolds, Holds
<1>7. ASSUME ~Restart, NEW t \in Threads, Quiet(t) PROVE HandlerHolds'
  <2>1. Holds(t)'
    BY <1>1, <1>7, QuietMoves
  <2> QED  BY <1>6, <1>7, <2>1 DEF Quiet, Create, Patch
<1>8. ASSUME ~Restart, NEW t \in Threads, CreateInsert(t) PROVE HandlerHolds'
  <2>1. rows' = RowAdded(rows, call[t].number, NewRow(call[t].id, call[t].opened))
    BY <1>1, <1>8, InsertEffect
  <2>2. pc'[t] = "commit" /\ call'[t] = call[t]
    BY <1>1, <1>8 DEF CreateInsert, GoTo, TypeOK
  <2>3. Holds(t)'
    BY <2>1, <2>2 DEF RowAdded, NewRow
  <2> QED  BY <1>6, <1>8, <2>3 DEF Create
<1>9. ASSUME ~Restart, NEW t \in Threads, PatchUpdate(t) PROVE HandlerHolds'
  <2>1. /\ \A f \in call[t].fields : rows'[call[t].number].val[f] = writes'
        /\ writes' = writes + 1 /\ writes' \in Nat
    BY <1>1, <1>9, UpdateEffect DEF TypeOK
  <2>2. pc'[t] = "patch_commit" /\ call' = [call EXCEPT ![t].wrote = writes']
    BY <1>1, <1>9 DEF PatchUpdate, GoTo, TypeOK
  <2>3. call'[t].number = call[t].number /\ call'[t].fields = call[t].fields
        /\ call'[t].wrote = writes'
    BY <1>2, <2>2 DEF Call
  <2>4. Holds(t)'
    BY <2>1, <2>2, <2>3
  <2> QED  BY <1>6, <1>9, <2>4 DEF Patch
<1>10. ASSUME ~Restart, NEW t \in Threads, CreateCommit(t) \/ PatchCommit(t)
       PROVE  HandlerHolds'
  <2>1. stored' = rows /\ call' = call
    BY <1>1, <1>10, CommitEffect
  <2>2. \/ pc[t] = "commit" /\ pc'[t] = "reread"
        \/ pc[t] = "patch_commit" /\ pc'[t] = "patch_reread"
    BY <1>1, <1>10 DEF CreateCommit, PatchCommit, GoTo, TypeOK
  <2>3. Holds(t) /\ call[t].number \in DOMAIN rows
    BY <1>1, <2>2 DEF HandlerHolds, RowHeld
  <2>4. Holds(t)'
    BY <2>1, <2>2, <2>3
  <2> QED  BY <1>6, <1>10, <2>4 DEF Create, Patch
<1>11. ASSUME ~Restart, Elsewhere PROVE HandlerHolds'
  <2>1. pc' = pc /\ call' = call
    BY <1>1, <1>11, ElsewhereEffect
  <2>2. \A u \in Threads : Holds(u)'
    BY <1>3, <1>11, <2>1
  <2> HIDE DEF Holds
  <2>3. (\A u \in Threads : Holds(u))'
    BY <2>2
  <2> QED  BY <2>3 DEF HandlerHolds, Holds
<1> QED  BY <1>4, <1>5, <1>7, <1>8, <1>9, <1>10, <1>11, StepCases

LEMMA RepliesGrow ==
    ASSUME [Next]_vars
    PROVE  \/ replies' = replies
           \/ \E t \in Threads :
                \/ CreateRespond(t) /\ Respond("create", call[t])
                \/ PatchRespond(t) /\ Respond("patch", call[t])
                \/ \E c : GetTicket(t) /\ Respond("get", c) /\ c.number \in DOMAIN rows
<1>1. CASE UNCHANGED vars
  BY <1>1, StutterEffect
<1>2. CASE Restart \/ Elsewhere
  BY <1>2, RestartEffect DEF Elsewhere
<1>3. ASSUME NEW t \in Threads, PatchLookup(t) PROVE replies' = replies
  BY <1>3 DEF PatchLookup, Fail
<1>4. ASSUME NEW t \in Threads, GetTicket(t)
      PROVE  \/ replies' = replies
             \/ \E c : Respond("get", c) /\ c.number \in DOMAIN rows
  <2>1. PICK n \in Numbers :
          LET c == NewCall(issued', n, {}, FALSE)
          IN  IF n \in DOMAIN rows THEN Respond("get", c) ELSE Fail("get", 404, c)
    BY <1>4 DEF GetTicket
  <2> DEFINE c == NewCall(issued', n, {}, FALSE)
  <2>2. c.number = n
    BY DEF NewCall
  <2>3. \/ Respond("get", c) /\ n \in DOMAIN rows
        \/ Fail("get", 404, c)
    BY <2>1
  <2> HIDE DEF c
  <2> QED  BY <2>2, <2>3 DEF Fail
<1>5. ASSUME NEW t \in Threads,
             \/ CreateAllocate(t) \/ CreateStamp(t) \/ CreateInsert(t) \/ CreateCollides(t)
             \/ CreateCommit(t) \/ PatchUpdate(t) \/ PatchRejected(t) \/ PatchCommit(t)
      PROVE  replies' = replies
  BY <1>5 DEF CreateAllocate, CreateStamp, CreateInsert, CreateCollides, CreateCommit,
              PatchUpdate, PatchRejected, PatchCommit, Fail
<1>6. ASSUME NEW t \in Threads, CreateRespond(t) PROVE Respond("create", call[t])
  BY <1>6 DEF CreateRespond
<1>7. ASSUME NEW t \in Threads, PatchRespond(t) PROVE Respond("patch", call[t])
  BY <1>7 DEF PatchRespond
<1> QED  BY <1>1, <1>2, <1>3, <1>4, <1>5, <1>6, <1>7 DEF Next, Create, Patch

LEMMA AckedStep ==
    ASSUME Durable, [Next]_vars
    PROVE  AckedCreateIsStored' /\ AckedPatchIsStored' /\ OpenedIsStored'
<1> DEFINE Covered(r) ==
      /\ r.op = "create" => /\ r.number \in DOMAIN stored
                            /\ stored[r.number].account = r.id
                            /\ r.row.account = r.id
                            /\ stored[r.number].opened = r.row.opened
      /\ r.op = "patch" => \A f \in r.fields :
                            /\ r.row.val[f] >= r.wrote
                            /\ r.number \in DOMAIN stored
                            /\ stored[r.number].val[f] >= r.wrote
<1>1. Growing /\ Typed /\ TypeOK /\ Typed' /\ Kept(stored, stored') /\ Kept(stored, rows)
  BY TypedStep, StoredGrows DEF Durable, Growing, Typed
<1>2. IsTable(rows) /\ IsTable(stored) /\ IsTable(stored') /\ call \in [Threads -> Call]
      /\ replies \subseteq Reply
  BY <1>1 DEF Typed, TypeOK, IsTable
<1>3. ASSUME NEW r \in replies PROVE Covered(r)'
  <2>1. Covered(r) /\ r.fields \subseteq PatchableFields /\ r.wrote \in Nat
    BY <1>2 DEF Durable, AckedCreateIsStored, AckedPatchIsStored, OpenedIsStored, Acked, Reply
  <2>2. r.number \in DOMAIN stored =>
          /\ r.number \in DOMAIN stored'
          /\ stored'[r.number].account = stored[r.number].account
          /\ stored'[r.number].opened = stored[r.number].opened
          /\ \A f \in PatchableFields :
               /\ stored[r.number].val[f] \in Nat /\ stored'[r.number].val[f] \in Nat
               /\ stored'[r.number].val[f] >= stored[r.number].val[f]
    BY <1>1, <1>2 DEF Kept, RowKept, IsTable, Row
  <2> QED  BY <2>1, <2>2
<1>4. ASSUME NEW r \in replies' \ replies PROVE Covered(r)'
  <2> DEFINE Reply1(op, c) == [op |-> op, id |-> c.id, number |-> c.number,
                fields |-> c.fields, wrote |-> c.wrote, row |-> rows[c.number]]
  <2>1. CASE \E t \in Threads : CreateRespond(t) /\ Respond("create", call[t])
    <3>1. PICK t \in Threads : CreateRespond(t) /\ Respond("create", call[t])
      BY <2>1
    <3>2. r = Reply1("create", call[t]) /\ pc[t] = "reread" /\ stored' = stored
      BY <1>4, <3>1 DEF Respond, CreateRespond, connVars, stored
    <3>3. /\ call[t].number \in DOMAIN stored
          /\ stored[call[t].number].account = call[t].id
      BY <3>2 DEF Durable, HandlerHolds
    <3>4. /\ rows[call[t].number].account = stored[call[t].number].account
          /\ rows[call[t].number].opened = stored[call[t].number].opened
      BY <1>1, <3>3 DEF Kept, RowKept
    <3> QED  BY <3>2, <3>3, <3>4
  <2>2. CASE \E t \in Threads : PatchRespond(t) /\ Respond("patch", call[t])
    <3>1. PICK t \in Threads : PatchRespond(t) /\ Respond("patch", call[t])
      BY <2>2
    <3>2. r = Reply1("patch", call[t]) /\ pc[t] = "patch_reread" /\ stored' = stored
      BY <1>4, <3>1 DEF Respond, PatchRespond, connVars, stored
    <3>3. \A f \in call[t].fields : /\ call[t].number \in DOMAIN stored
                                    /\ stored[call[t].number].val[f] >= call[t].wrote
      BY <3>2 DEF Durable, HandlerHolds
    <3>4. call[t].fields \subseteq PatchableFields /\ call[t].wrote \in Nat
      BY <1>2 DEF Call
    <3>5. call[t].number \in DOMAIN stored =>
            \A f \in PatchableFields :
               /\ stored[call[t].number].val[f] \in Nat
               /\ rows[call[t].number].val[f] \in Nat
               /\ rows[call[t].number].val[f] >= stored[call[t].number].val[f]
      BY <1>1, <1>2 DEF Kept, RowKept, IsTable, Row
    <3>6. \A f \in call[t].fields : rows[call[t].number].val[f] >= call[t].wrote
      BY <3>3, <3>4, <3>5
    <3> QED  BY <3>2, <3>3, <3>6
  <2>3. CASE \E t \in Threads : \E c :
               GetTicket(t) /\ Respond("get", c) /\ c.number \in DOMAIN rows
    <3>1. r.op = "get"
      BY <1>4, <2>3 DEF Respond
    <3> QED  BY <3>1
  <2> QED  BY <1>4, <2>1, <2>2, <2>3, RepliesGrow
<1>5. \A r \in replies' : Covered(r)'
  BY <1>3, <1>4
<1> QED  BY <1>5 DEF AckedCreateIsStored, AckedPatchIsStored, OpenedIsStored, Acked

LEMMA DurableInit == Init => Durable
BY GrowingInit DEF Init, HandlersInit, Durable, HandlerHolds, AckedCreateIsStored, AckedPatchIsStored,
                   OpenedIsStored, Acked

LEMMA DurableStep == Durable /\ [Next]_vars => Durable'
BY GrowingStep, HandlerHoldsStep, AckedStep DEF Durable

LEMMA DurableInvariant == Spec => []Durable
BY DurableInit, DurableStep, PTL DEF Spec

\* Every acknowledged POST is in the file, under its number, for good.
THEOREM CreateDurability == Spec => []AckedCreateIsStored
<1>1. Durable => AckedCreateIsStored
  BY DEF Durable
<1> QED  BY <1>1, DurableInvariant, PTL

\* Every acknowledged PATCH is in the file for good, and its answer shows it.
THEOREM PatchDurability == Spec => []AckedPatchIsStored
<1>1. Durable => AckedPatchIsStored
  BY DEF Durable
<1> QED  BY <1>1, DurableInvariant, PTL

\* No other request takes a handler's write away before it is committed.
THEOREM PendingWritesSafe == Spec => []PendingWriteKept
<1>1. Durable => PendingWriteKept
  <2> SUFFICES ASSUME Durable, NEW t \in Threads
               PROVE  LET c == call[t]
                      IN  /\ pc[t] \in {"commit", "reread"} =>
                               c.number \in DOMAIN rows /\ rows[c.number].account = c.id
                          /\ pc[t] \in {"patch_commit", "patch_reread"} =>
                               /\ c.number \in DOMAIN rows
                               /\ \A f \in c.fields : rows[c.number].val[f] >= c.wrote
    BY DEF PendingWriteKept
  <2>1. RowHeld /\ Kept(stored, rows) /\ IsTable(rows) /\ IsTable(stored)
        /\ call \in [Threads -> Call]
    BY DEF Durable, Growing, Typed, TypeOK
  <2>2. call[t].fields \subseteq PatchableFields /\ call[t].wrote \in Nat
    BY <2>1 DEF Call
  <2>3. call[t].number \in DOMAIN stored =>
          /\ rows[call[t].number].account = stored[call[t].number].account
          /\ \A f \in PatchableFields :
               /\ stored[call[t].number].val[f] \in Nat
               /\ rows[call[t].number].val[f] \in Nat
               /\ rows[call[t].number].val[f] >= stored[call[t].number].val[f]
    BY <2>1 DEF Kept, RowKept, IsTable, Row
  <2> QED  BY <2>1, <2>2, <2>3 DEF Durable, HandlerHolds, RowHeld
<1> QED  BY <1>1, DurableInvariant, PTL

\* A new 404 names a number that is not in the table.
LEMMA NotFoundStep ==
    ASSUME [Next]_vars, NEW e \in errors' \ errors, e.status = 404
    PROVE  e.number \notin DOMAIN rows
<1>1. CASE UNCHANGED vars
  BY <1>1, StutterEffect
<1>2. CASE Restart \/ Elsewhere
  BY <1>2, RestartEffect DEF Elsewhere
<1>3. ASSUME NEW t \in Threads, PatchLookup(t) PROVE e.number \notin DOMAIN rows
  <2>1. PICK n \in Numbers, F \in SUBSET PatchableFields, bad \in BOOLEAN :
          n \notin DOMAIN rows /\ Fail("patch", 404, NewCall(issued', n, F, bad))
    BY <1>3 DEF PatchLookup
  <2> QED  BY <2>1 DEF Fail, NewCall
<1>4. ASSUME NEW t \in Threads, GetTicket(t) PROVE e.number \notin DOMAIN rows
  <2>1. PICK n \in Numbers :
          LET c == NewCall(issued', n, {}, FALSE)
          IN  IF n \in DOMAIN rows THEN Respond("get", c) ELSE Fail("get", 404, c)
    BY <1>4 DEF GetTicket
  <2>2. n \notin DOMAIN rows /\ Fail("get", 404, NewCall(issued', n, {}, FALSE))
    BY <2>1 DEF Respond
  <2> QED  BY <2>2 DEF Fail, NewCall
<1>5. ASSUME NEW t \in Threads, CreateCollides(t) \/ PatchRejected(t) PROVE FALSE
  BY <1>5 DEF CreateCollides, PatchRejected, Fail
<1>6. ASSUME NEW t \in Threads,
             \/ CreateAllocate(t) \/ CreateStamp(t) \/ CreateInsert(t) \/ CreateCommit(t)
             \/ CreateRespond(t) \/ PatchUpdate(t) \/ PatchCommit(t) \/ PatchRespond(t)
      PROVE  FALSE
  BY <1>6 DEF CreateAllocate, CreateStamp, CreateInsert, CreateCommit, CreateRespond,
              PatchUpdate, PatchCommit, PatchRespond, Respond
<1> QED  BY <1>1, <1>2, <1>3, <1>4, <1>5, <1>6 DEF Next, Create, Patch

\* Every later answer about an acknowledged number is about the same ticket.
THEOREM AckedIdentity == Spec => AckedIdentityStable
<1> DEFINE Stable ==
      /\ \A r \in replies' \ replies : \A a \in Acked :
           a.number = r.number => /\ r.row.account = a.row.account
                                  /\ r.row.opened = a.row.opened
      /\ \A e \in errors' \ errors : \A a \in Acked :
           ~(e.status = 404 /\ e.number = a.number)
<1>1. ASSUME Durable, [Next]_vars PROVE Stable
  <2>1. \A a \in Acked : /\ a.number \in DOMAIN rows
                         /\ rows[a.number].account = a.row.account
                         /\ rows[a.number].opened = a.row.opened
    BY <1>1 DEF Durable, AckedCreateIsStored, OpenedIsStored, Growing, Kept, RowKept
  <2>2. \A r \in replies' \ replies : r.row = rows[r.number]
    BY <1>1, RepliesGrow DEF Respond
  <2> QED  BY <1>1, <2>1, <2>2, NotFoundStep
<1>2. Durable /\ [Next]_vars => [Stable]_vars
  BY <1>1
<1> QED  BY <1>2, DurableInvariant, PTL DEF Spec, AckedIdentityStable

-----------------------------------------------------------------------------
(***************************************************************************)
(* Uncommitted rows.                                                       *)
(***************************************************************************)

\* Whatever is visible and not in the file is about to be committed.
THEOREM UncommittedCommitted == Spec => []UncommittedHasCommitter
<1>1. Init => UncommittedHasCommitter
  BY DEF Init, UncommittedHasCommitter
<1>2. ASSUME TypeOK, UncommittedHasCommitter, [Next]_vars PROVE UncommittedHasCommitter'
  <2>1. CASE UNCHANGED vars
    BY <1>2, <2>1, StutterEffect DEF UncommittedHasCommitter
  <2>2. CASE Restart
    BY <2>2, RestartEffect DEF UncommittedHasCommitter
  <2>3. ASSUME NEW t \in Threads, Quiet(t) PROVE UncommittedHasCommitter'
    <3>1. UNCHANGED <<mem, disk>> /\ pc[t] \notin {"commit", "patch_commit"}
      BY <2>3, QuietEffect DEF Quiet, CreateAllocate, CreateStamp, CreateCollides,
         CreateRespond, PatchLookup, PatchRejected, PatchRespond, GetTicket, Receive
    <3>2. \A u \in Threads \ {t} : pc'[u] = pc[u]
      BY <1>2, <2>3, OthersUnmoved DEF Quiet, Create, Patch
    <3> QED  BY <1>2, <3>1, <3>2 DEF UncommittedHasCommitter
  <2>4. ASSUME NEW t \in Threads, CreateInsert(t) \/ PatchUpdate(t)
        PROVE  UncommittedHasCommitter'
    <3>1. pc'[t] \in {"commit", "patch_commit"}
      BY <1>2, <2>4 DEF CreateInsert, PatchUpdate, GoTo, TypeOK
    <3> QED  BY <3>1 DEF UncommittedHasCommitter
  <2>5. ASSUME NEW t \in Threads, CreateCommit(t) \/ PatchCommit(t)
        PROVE  UncommittedHasCommitter'
    BY <2>5 DEF CreateCommit, PatchCommit, Commit, UncommittedHasCommitter
  <2>6. CASE Elsewhere
    BY <1>2, <2>6 DEF Elsewhere, Commit, Rejected, connVars, UncommittedHasCommitter
  <2> QED  BY <1>2, <2>1, <2>2, <2>3, <2>4, <2>5, <2>6, StepCases
<1> QED  BY <1>1, <1>2, TypeCorrect, PTL DEF Spec

-----------------------------------------------------------------------------
(***************************************************************************)
(* Numbers and opening times.                                              *)
(***************************************************************************)

\* No ticket is from the future, nor is one that is about to be inserted.
OpenedInThePast ==
    /\ \A n \in DOMAIN rows : rows[n].opened <= clock
    /\ \A t \in Threads : pc[t] = "insert" => call[t].opened <= clock

\* A number that was allocated and is still free is the next one, and its
\* opening time, once read, is not before anybody's.
FreeNumberIsNext ==
    \A t \in Threads :
        LET c == call[t]
        IN  pc[t] \in {"stamp", "insert"} /\ c.number \notin DOMAIN rows =>
              /\ \A k \in DOMAIN rows : k < c.number
              /\ c.number = 1 \/ (c.number - 1) \in DOMAIN rows
              /\ pc[t] = "insert" =>
                   \A k \in DOMAIN rows : rows[k].account # 0 => rows[k].opened <= c.opened

\* The number past the last that the expression matches comes last.
NoGapAtEnd(table) == (MaxSeq + 1) \in DOMAIN table => MaxSeq \in DOMAIN table

Ordered ==
    /\ OpenedInThePast /\ FreeNumberIsNext
    /\ NoGapAtEnd(rows) /\ NoGapAtEnd(stored)
    /\ OpenedInNumberOrder

LEMMA OrderedInit == Init => Ordered
<1> SUFFICES ASSUME Init PROVE Ordered
  OBVIOUS
<1>1. rows = [n \in Seeded |-> NewRow(0, 0)] /\ stored = rows /\ clock = 0
      /\ pc = [t \in Threads |-> "idle"]
  BY DEF Init, HandlersInit, SeededTable, rows, stored
<1>2. (MaxSeq + 1) \notin Seeded
  BY TicketAssumption
<1> QED
  BY <1>1, <1>2 DEF Ordered, OpenedInThePast, FreeNumberIsNext, NoGapAtEnd,
                    OpenedInNumberOrder, NewRow

\* What next_incident_number() returns, when it is free, is past every row.
LEMMA NextIsLast ==
    ASSUME IsTable(rows), NoGapAtEnd(rows), NEW n \in Numbers, IsNextNumber(n),
           n \notin DOMAIN rows
    PROVE  /\ \A k \in DOMAIN rows : k < n
           /\ n = 1 \/ (n - 1) \in DOMAIN rows
<1>1. MaxSeq \in Nat \ {0} /\ \A k \in DOMAIN rows : k \in 1..(MaxSeq + 1)
  BY TicketAssumption DEF IsTable, Numbers
<1>2. SUFFICES ASSUME NEW k \in DOMAIN rows PROVE k < n
  BY DEF IsNextNumber
<1>3. CASE k <= MaxSeq
  BY <1>3 DEF IsNextNumber
<1>4. CASE k = MaxSeq + 1
  <2>1. MaxSeq < n
    BY <1>1, <1>4 DEF NoGapAtEnd, IsNextNumber
  <2>2. n = MaxSeq + 1
    BY <1>1, <2>1 DEF Numbers
  <2> QED  BY <1>4, <2>2
<1> QED  BY <1>1, <1>3, <1>4

LEMMA OrderedStep ==
    ASSUME Growing, Ordered, [Next]_vars
    PROVE  Ordered'
<1> DEFINE Free(u) ==
      LET c == call[u]
      IN  pc[u] \in {"stamp", "insert"} /\ c.number \notin DOMAIN rows =>
            /\ \A k \in DOMAIN rows : k < c.number
            /\ c.number = 1 \/ (c.number - 1) \in DOMAIN rows
            /\ pc[u] = "insert" =>
                 \A k \in DOMAIN rows : rows[k].account # 0 => rows[k].opened <= c.opened
<1>1. Typed /\ TypeOK /\ Typed' /\ Versions
  BY TypedStep DEF Growing, Typed
<1>2. IsTable(rows) /\ IsTable(stored) /\ call \in [Threads -> Call] /\ clock \in Nat
      /\ pc \in [Threads -> Labels]
  BY <1>1 DEF TypeOK
<1>3. \A n \in DOMAIN rows : rows[n].opened \in Nat /\ rows[n].opened <= clock
  BY <1>2 DEF Ordered, OpenedInThePast, IsTable, Row
<1>4. CASE UNCHANGED vars
  BY <1>4, StutterEffect DEF Ordered, OpenedInThePast, FreeNumberIsNext, NoGapAtEnd,
                             OpenedInNumberOrder
<1>5. CASE Restart
  <2>1. rows' = stored /\ stored' = stored /\ clock' = clock
        /\ pc' = [t \in Threads |-> "idle"]
    BY <1>5, RestartEffect
  <2>2. \A n \in DOMAIN stored : /\ n \in DOMAIN rows
                                 /\ stored[n].opened = rows[n].opened
                                 /\ stored[n].account = rows[n].account
    BY DEF Growing, Kept, RowKept
  <2> QED
    BY <1>3, <2>1, <2>2 DEF Ordered, OpenedInThePast, FreeNumberIsNext, NoGapAtEnd,
                            OpenedInNumberOrder
<1>6. ASSUME NEW t \in Threads, Quiet(t) PROVE Ordered'
  <2>1. rows' = rows /\ stored' = stored
    BY <1>6, QuietEffect
  <2>2. \A u \in Threads \ {t} : pc'[u] = pc[u] /\ call'[u] = call[u]
    BY <1>1, <1>6, OthersUnmoved DEF Quiet, Create, Patch
  <2>3. CASE CreateStamp(t)
    <3>1. /\ pc[t] = "stamp" /\ pc'[t] = "insert" /\ clock' \in Nat /\ clock <= clock'
          /\ call'[t].opened = clock' /\ call'[t].number = call[t].number
      BY <1>2, <2>3 DEF CreateStamp, GoTo, Call
    <3>2. OpenedInThePast'
      <4>1. \A u \in Threads : pc'[u] = "insert" => call'[u].opened <= clock'
        BY <1>2, <2>2, <3>1 DEF Ordered, OpenedInThePast, Call
      <4> QED  BY <1>2, <1>3, <2>1, <3>1, <4>1 DEF OpenedInThePast
    <3>3. FreeNumberIsNext'
      BY <1>2, <1>3, <2>1, <2>2, <3>1 DEF Ordered, FreeNumberIsNext
    <3> QED  BY <2>1, <3>2, <3>3 DEF Ordered, NoGapAtEnd, OpenedInNumberOrder
  <2>4. CASE CreateAllocate(t)
    <3>1. PICK n \in Numbers :
            IsNextNumber(n) /\ call' = [call EXCEPT ![t] = NewCall(issued', n, {}, FALSE)]
      BY <2>4 DEF CreateAllocate
    <3>2. pc'[t] = "stamp" /\ call'[t].number = n /\ clock' = clock
      BY <1>2, <2>4, <3>1 DEF CreateAllocate, GoTo, NewCall
    <3>3. n \notin DOMAIN rows => /\ \A k \in DOMAIN rows : k < n
                                  /\ n = 1 \/ (n - 1) \in DOMAIN rows
      BY <1>2, <3>1, NextIsLast DEF Ordered
    <3>4. FreeNumberIsNext'
      BY <2>1, <2>2, <3>2, <3>3 DEF Ordered, FreeNumberIsNext
    <3>5. OpenedInThePast'
      BY <2>1, <2>2, <3>2 DEF Ordered, OpenedInThePast
    <3> QED  BY <2>1, <3>4, <3>5 DEF Ordered, NoGapAtEnd, OpenedInNumberOrder
  <2>5. CASE ~CreateStamp(t) /\ ~CreateAllocate(t)
    <3>1. clock' = clock
      BY <1>6, <2>5 DEF Quiet, CreateCollides, CreateRespond, PatchLookup, PatchRejected,
                        PatchRespond, GetTicket
    <3>2. pc'[t] \notin {"stamp", "insert"}
      <4>1. CASE PatchLookup(t) \/ GetTicket(t)
        BY <1>2, <4>1 DEF PatchLookup, GetTicket, Receive, GoTo
      <4>2. CASE CreateCollides(t) \/ CreateRespond(t) \/ PatchRejected(t) \/ PatchRespond(t)
        BY <1>2, <4>2 DEF CreateCollides, CreateRespond, PatchRejected, PatchRespond, Done, GoTo
      <4> QED  BY <1>6, <2>5, <4>1, <4>2 DEF Quiet
    <3> QED
      BY <2>1, <2>2, <3>1, <3>2 DEF Ordered, OpenedInThePast, FreeNumberIsNext, NoGapAtEnd,
                                    OpenedInNumberOrder
  <2> QED  BY <2>3, <2>4, <2>5
<1>7. ASSUME NEW t \in Threads, CreateInsert(t) PROVE Ordered'
  <2> DEFINE k == call[t].number
             row == NewRow(call[t].id, call[t].opened)
  <2>1. k \in Numbers \ DOMAIN rows /\ rows' = RowAdded(rows, k, row) /\ stored' = stored
    BY <1>1, <1>7, InsertEffect
  <2>2. pc[t] = "insert" /\ pc'[t] = "commit" /\ call' = call /\ clock' = clock
    BY <1>2, <1>7 DEF CreateInsert, GoTo
  <2>3. \A u \in Threads \ {t} : pc'[u] = pc[u]
    BY <1>1, <1>7, OthersUnmoved DEF Create
  <2>4. /\ \A m \in DOMAIN rows : m < k
        /\ k = 1 \/ (k - 1) \in DOMAIN rows
        /\ \A m \in DOMAIN rows : rows[m].account # 0 => rows[m].opened <= call[t].opened
        /\ call[t].opened <= clock
    BY <2>1, <2>2 DEF Ordered, FreeNumberIsNext, OpenedInThePast
  <2>5. /\ DOMAIN rows' = DOMAIN rows \cup {k} /\ rows'[k] = row
        /\ \A m \in DOMAIN rows : rows'[m] = rows[m]
        /\ row.opened = call[t].opened /\ row.account = call[t].id
    BY <2>1 DEF RowAdded, NewRow
  <2>6. \A m \in DOMAIN rows : m \in 1..(MaxSeq + 1)
    BY <1>2 DEF IsTable, Numbers
  <2> HIDE DEF k, row
  <2>7. OpenedInThePast'
    BY <1>3, <2>2, <2>3, <2>4, <2>5 DEF Ordered, OpenedInThePast
  <2>8. NoGapAtEnd(rows')
    BY <2>1, <2>4, <2>5, TicketAssumption DEF Ordered, NoGapAtEnd, Numbers
  <2>9. OpenedInNumberOrder'
    <3> SUFFICES ASSUME NEW m \in DOMAIN rows', NEW n \in DOMAIN rows', m < n,
                        rows'[m].account # 0, rows'[n].account # 0
                 PROVE  rows'[m].opened <= rows'[n].opened
      BY DEF OpenedInNumberOrder
    <3>1. CASE n = k
      BY <2>1, <2>4, <2>5, <2>6, <3>1 DEF Numbers
    <3>2. CASE n # k
      <4>1. n \in DOMAIN rows /\ n < k /\ n \in Nat /\ m \in Nat /\ k \in Nat
        BY <2>1, <2>4, <2>5, <2>6, <3>2 DEF Numbers
      <4>2. m # k
        BY <4>1
      <4> QED  BY <2>5, <4>1, <4>2 DEF Ordered, OpenedInNumberOrder
    <3> QED  BY <3>1, <3>2
  \* Two workers that hold free numbers hold the same one.
  <2>10. FreeNumberIsNext'
    <3> SUFFICES ASSUME NEW u \in Threads, pc'[u] \in {"stamp", "insert"},
                        call'[u].number \notin DOMAIN rows'
                 PROVE  FALSE
      BY DEF FreeNumberIsNext
    <3> DEFINE j == call[u].number
    <3>1. u # t /\ pc[u] = pc'[u] /\ call'[u].number = j
      BY <2>2, <2>3
    <3>2. j \notin DOMAIN rows /\ j # k
      BY <2>5, <3>1
    <3>3. /\ \A m \in DOMAIN rows : m < j
          /\ j = 1 \/ (j - 1) \in DOMAIN rows
      BY <3>1, <3>2 DEF Ordered, FreeNumberIsNext
    <3>4. j \in Nat /\ k \in Nat /\ j > 0 /\ k > 0
      BY <1>1, <2>1, <3>1 DEF TypeOK, Numbers
    <3> HIDE DEF j
    <3>5. CASE j < k
      BY <2>4, <3>3, <3>4, <3>5
    <3>6. CASE k < j
      BY <2>4, <3>3, <3>4, <3>6
    <3> QED  BY <3>2, <3>4, <3>5, <3>6
  <2> QED  BY <2>1, <2>7, <2>8, <2>9, <2>10 DEF Ordered, NoGapAtEnd
<1>8. ASSUME NEW t \in Threads, PatchUpdate(t) PROVE Ordered'
  <2>1. DOMAIN rows' = DOMAIN rows /\ stored' = stored /\ Kept(rows, rows')
    BY <1>1, <1>8, UpdateEffect
  <2>2. \A n \in DOMAIN rows : /\ rows'[n].opened = rows[n].opened
                               /\ rows'[n].account = rows[n].account
    BY <2>1 DEF Kept, RowKept
  <2>3. pc[t] = "update" /\ pc'[t] = "patch_commit" /\ clock' = clock
    BY <1>2, <1>8 DEF PatchUpdate, GoTo
  <2>4. \A u \in Threads \ {t} : pc'[u] = pc[u] /\ call'[u] = call[u]
    BY <1>1, <1>8, OthersUnmoved DEF Patch
  <2> QED
    BY <2>1, <2>2, <2>3, <2>4 DEF Ordered, OpenedInThePast, FreeNumberIsNext, NoGapAtEnd,
                                  OpenedInNumberOrder
<1>9. ASSUME NEW t \in Threads, CreateCommit(t) \/ PatchCommit(t) PROVE Ordered'
  <2>1. rows' = rows /\ stored' = rows /\ call' = call
    BY <1>1, <1>9, CommitEffect
  <2>2. clock' = clock /\ pc'[t] \in {"reread", "patch_reread"}
    BY <1>2, <1>9 DEF CreateCommit, PatchCommit, GoTo
  <2>3. \A u \in Threads \ {t} : pc'[u] = pc[u]
    BY <1>1, <1>9, OthersUnmoved DEF Create, Patch
  <2> QED
    BY <2>1, <2>2, <2>3 DEF Ordered, OpenedInThePast, FreeNumberIsNext, NoGapAtEnd,
                            OpenedInNumberOrder
<1>10. CASE Elsewhere
  <2>1. rows' = rows /\ pc' = pc /\ call' = call /\ (stored' = stored \/ stored' = rows)
    BY <1>1, <1>10, ElsewhereEffect
  <2>2. clock' \in Nat /\ clock <= clock'
    BY <1>1, <1>10, ElsewhereEffect
  <2>3. OpenedInThePast'
    BY <1>2, <1>3, <2>1, <2>2 DEF Ordered, OpenedInThePast, Call
  <2> QED
    BY <2>1, <2>3 DEF Ordered, FreeNumberIsNext, NoGapAtEnd, OpenedInNumberOrder
<1> QED  BY <1>4, <1>5, <1>6, <1>7, <1>8, <1>9, <1>10, StepCases

\* Tickets created through the API were opened in the order of their numbers.
THEOREM OpeningOrder == Spec => []OpenedInNumberOrder
<1>1. Init => Growing /\ Ordered
  BY GrowingInit, OrderedInit
<1>2. (Growing /\ Ordered) /\ [Next]_vars => (Growing /\ Ordered)'
  BY GrowingStep, OrderedStep
<1>3. Growing /\ Ordered => OpenedInNumberOrder
  BY DEF Ordered
<1> QED  BY <1>1, <1>2, <1>3, PTL DEF Spec

-----------------------------------------------------------------------------
(***************************************************************************)
(* Who wins a number that several POSTs have chosen.                       *)
(***************************************************************************)

\* Requests under way have identities of their own, and none is from the future.
OwnIds ==
    /\ \A t \in Threads : pc[t] # "idle" => call[t].id \in 1..issued
    /\ \A t, u \in Threads :
         t # u /\ pc[t] # "idle" /\ pc[u] # "idle" => call[t].id # call[u].id
    /\ \A n \in DOMAIN rows : rows[n].account <= issued

\* The seeded tickets stay, and a ticket is seeded or somebody's.
SeededStay ==
    /\ Seeded \subseteq DOMAIN stored
    /\ \A n \in DOMAIN rows : rows[n].account = 0 => n \in Seeded

\* A POST before its INSERT: no ticket is its own yet, and its number has not
\* been that of a seeded one.
Trying ==
    \A t \in Threads : pc[t] \in {"stamp", "insert"} =>
        /\ call[t].number \notin Seeded
        /\ \A n \in DOMAIN rows : rows[n].account # call[t].id

\* The POST id has been told that n is its ticket, or is on its way to be told.
Wins(n, id) ==
    \/ \E r \in Acked : r.id = id /\ r.number = n
    \/ \E t \in Threads : /\ pc[t] \in {"commit", "reread"}
                          /\ call[t].id = id /\ call[t].number = n

OwnersWin == crashes = 0 => \A n \in DOMAIN rows : n \notin Seeded => Wins(n, rows[n].account)

LosersLost ==
    crashes = 0 =>
        \A e \in errors : e.op = "create" =>
            e.number \in DOMAIN rows \ Seeded /\ rows[e.number].account # e.id

Contest == OwnIds /\ SeededStay /\ Trying /\ OwnersWin /\ LosersLost

LEMMA ContestInit == Init => Contest
<1> SUFFICES ASSUME Init PROVE Contest
  OBVIOUS
<1>1. rows = [n \in Seeded |-> NewRow(0, 0)] /\ stored = rows /\ issued = 0 /\ errors = {}
      /\ pc = [t \in Threads |-> "idle"]
  BY DEF Init, HandlersInit, SeededTable, rows, stored
<1> QED
  BY <1>1 DEF Contest, OwnIds, SeededStay, Trying, OwnersWin, LosersLost, NewRow

\* Where a step leaves its own handler.
LEMMA HandlerMoves ==
    ASSUME TypeOK, NEW t \in Threads, Create(t) \/ Patch(t) \/ GetTicket(t)
    PROVE  /\ issued' \in {issued, issued + 1} /\ crashes' = crashes
           /\ \/ pc'[t] = "idle"
              \/ /\ pc[t] # "idle"
                 /\ call'[t].id = call[t].id /\ call'[t].number = call[t].number
              \/ pc[t] = "idle" /\ issued' = issued + 1 /\ call'[t].id = issued + 1
           /\ pc'[t] \in {"stamp", "insert"} =>
                \/ pc[t] \in {"stamp", "insert"}
                \/ pc[t] = "idle" /\ IsNextNumber(call'[t].number)
           /\ pc[t] \in {"commit", "reread"} => pc'[t] \in {"commit", "reread"} \/ CreateRespond(t)
<1> USE DEF TypeOK, GoTo, Done, Labels, Call
<1>1. CASE CreateAllocate(t)
  <2>1. PICK n \in Numbers :
          IsNextNumber(n) /\ call' = [call EXCEPT ![t] = NewCall(issued', n, {}, FALSE)]
    BY <1>1 DEF CreateAllocate
  <2>2. call'[t].id = issued' /\ call'[t].number = n
    BY <2>1 DEF NewCall
  <2>3. pc[t] = "idle" /\ pc'[t] = "stamp" /\ issued' = issued + 1 /\ crashes' = crashes
    BY <1>1 DEF CreateAllocate, Receive
  <2> QED  BY <2>1, <2>2, <2>3
<1>2. CASE PatchLookup(t)
  <2>1. PICK n \in Numbers, F \in SUBSET PatchableFields, bad \in BOOLEAN :
          \/ UNCHANGED pc
          \/ /\ GoTo(t, IF F = {} THEN "patch_reread" ELSE "update")
             /\ call' = [call EXCEPT ![t] = NewCall(issued', n, F, bad)]
    BY <1>2 DEF PatchLookup
  <2>2. pc[t] = "idle" /\ issued' = issued + 1 /\ crashes' = crashes
    BY <1>2 DEF PatchLookup, Receive
  <2> QED  BY <2>1, <2>2 DEF NewCall
<1>3. CASE GetTicket(t)
  BY <1>3 DEF GetTicket, Receive
<1>4. CASE CreateStamp(t) \/ CreateInsert(t) \/ CreateCollides(t) \/ CreateCommit(t)
           \/ CreateRespond(t)
  BY <1>4 DEF CreateStamp, CreateInsert, CreateCollides, CreateCommit, CreateRespond
<1>5. CASE PatchUpdate(t) \/ PatchRejected(t) \/ PatchCommit(t) \/ PatchRespond(t)
  BY <1>5 DEF PatchUpdate, PatchRejected, PatchCommit, PatchRespond
<1> QED  BY <1>1, <1>2, <1>3, <1>4, <1>5 DEF Create, Patch

\* Only an INSERT adds a row, and no statement changes whose a row is.
LEMMA OwnersKept ==
    ASSUME Growing, NEW t \in Threads, Create(t) \/ Patch(t) \/ GetTicket(t)
    PROVE  \/ /\ DOMAIN rows' = DOMAIN rows
              /\ \A n \in DOMAIN rows : rows'[n].account = rows[n].account
           \/ /\ CreateInsert(t)
              /\ call[t].number \notin DOMAIN rows
              /\ DOMAIN rows' = DOMAIN rows \cup {call[t].number}
              /\ rows'[call[t].number].account = call[t].id
              /\ \A n \in DOMAIN rows : rows'[n] = rows[n]
<1>1. Typed
  BY DEF Growing
<1>2. CASE Quiet(t) \/ CreateCommit(t) \/ PatchCommit(t)
  BY <1>1, <1>2, QuietEffect, CommitEffect
<1>3. CASE PatchUpdate(t)
  BY <1>1, <1>3, UpdateEffect DEF Growing, Kept, RowKept
<1>4. CASE CreateInsert(t)
  BY <1>1, <1>4, InsertEffect DEF RowAdded, NewRow
<1> QED  BY <1>2, <1>3, <1>4 DEF Create, Patch, Quiet

\* A POST that fails does so on a number that is in the table.
LEMMA NewLoser ==
    ASSUME TypeOK, NEW t \in Threads, Create(t) \/ Patch(t) \/ GetTicket(t),
           NEW e \in errors' \ errors, e.op = "create"
    PROVE  /\ pc[t] = "insert" /\ e.id = call[t].id /\ e.number = call[t].number
           /\ call[t].number \in DOMAIN rows
<1>1. CASE PatchLookup(t)
  <2>1. PICK n \in Numbers, F \in SUBSET PatchableFields, bad \in BOOLEAN :
          errors' = errors \/ Fail("patch", 404, NewCall(issued', n, F, bad))
    BY <1>1 DEF PatchLookup
  <2> QED  BY <2>1 DEF Fail
<1>2. CASE GetTicket(t)
  <2>1. PICK n \in Numbers :
          LET c == NewCall(issued', n, {}, FALSE)
          IN  IF n \in DOMAIN rows THEN Respond("get", c) ELSE Fail("get", 404, c)
    BY <1>2 DEF GetTicket
  <2>2. Fail("get", 404, NewCall(issued', n, {}, FALSE)) \/ errors' = errors
    BY <2>1 DEF Respond
  <2> QED  BY <2>2 DEF Fail, NewCall
<1>3. CASE CreateCollides(t)
  BY <1>3 DEF CreateCollides, Fail
<1>4. CASE PatchRejected(t)
  BY <1>4 DEF PatchRejected, Fail
<1>5. CASE CreateAllocate(t) \/ CreateStamp(t) \/ CreateInsert(t) \/ CreateCommit(t)
           \/ CreateRespond(t)
  BY <1>5 DEF CreateAllocate, CreateStamp, CreateInsert, CreateCommit, CreateRespond, Respond
<1>6. CASE PatchUpdate(t) \/ PatchCommit(t) \/ PatchRespond(t)
  BY <1>6 DEF PatchUpdate, PatchCommit, PatchRespond, Respond
<1> QED  BY <1>1, <1>2, <1>3, <1>4, <1>5, <1>6 DEF Create, Patch

\* What a winner is, it stays: the answer takes the handler's place.
LEMMA WinnerStays ==
    ASSUME TypeOK, NEW t \in Threads, Create(t) \/ Patch(t) \/ GetTicket(t),
           replies \subseteq replies', NEW n, NEW id, Wins(n, id)
    PROVE  Wins(n, id)'
<1>1. CASE \E r \in Acked : r.id = id /\ r.number = n
  BY <1>1 DEF Wins, Acked
<1>2. ASSUME NEW u \in Threads, pc[u] \in {"commit", "reread"},
             call[u].id = id, call[u].number = n
      PROVE  Wins(n, id)'
  <2>1. CASE u # t
    <3>1. pc'[u] = pc[u] /\ call'[u] = call[u]
      BY <2>1, OthersUnmoved
    <3> QED  BY <1>2, <3>1 DEF Wins
  <2>2. CASE u = t /\ pc'[t] \in {"commit", "reread"}
    BY <1>2, <2>2, HandlerMoves DEF Wins
  <2>3. CASE u = t /\ CreateRespond(t)
    <3>1. [op |-> "create", id |-> id, number |-> n, fields |-> call[t].fields,
           wrote |-> call[t].wrote, row |-> rows[n]] \in replies'
      BY <1>2, <2>3 DEF CreateRespond, Respond
    <3> QED  BY <3>1 DEF Wins, Acked
  <2> QED  BY <1>2, <2>1, <2>2, <2>3, HandlerMoves
<1> QED  BY <1>1, <1>2 DEF Wins

LEMMA ContestStep ==
    ASSUME Growing, Ordered, Contest, [Next]_vars
    PROVE  Contest'
<1>1. Typed /\ TypeOK /\ TypeOK' /\ Kept(stored, rows) /\ Kept(stored, stored')
  BY TypedStep, StoredGrows DEF Growing, Typed
<1>2. issued \in Nat /\ call \in [Threads -> Call] /\ IsTable(rows) /\ IsTable(rows')
      /\ pc \in [Threads -> Labels] /\ crashes \in Nat
  BY <1>1 DEF TypeOK
<1>3. \A n \in DOMAIN rows : rows[n].account \in Nat
  BY <1>2 DEF IsTable, Row
<1>4. Seeded \subseteq DOMAIN stored'
  BY <1>1 DEF Contest, SeededStay, Kept
<1>5. Seeded \subseteq DOMAIN rows
  BY <1>1 DEF Contest, SeededStay, Kept
<1>6. CASE UNCHANGED vars
  BY <1>6, StutterEffect DEF Contest, OwnIds, SeededStay, Trying, OwnersWin, LosersLost, Wins,
                             Acked
<1>7. CASE Restart
  <2>1. rows' = stored /\ pc' = [t \in Threads |-> "idle"] /\ issued' = issued /\ crashes' # 0
    BY <1>2, <1>7, RestartEffect DEF Restart
  <2>2. \A n \in DOMAIN stored : n \in DOMAIN rows /\ stored[n].account = rows[n].account
    BY <1>1 DEF Kept, RowKept
  <2> QED
    BY <1>4, <2>1, <2>2 DEF Contest, OwnIds, SeededStay, Trying, OwnersWin, LosersLost
<1>8. CASE Elsewhere
  <2>1. rows' = rows /\ UNCHANGED <<pc, call, issued, crashes, replies, errors>>
    BY <1>1, <1>8, ElsewhereEffect DEF Elsewhere
  <2> QED
    BY <1>4, <2>1 DEF Contest, OwnIds, SeededStay, Trying, OwnersWin, LosersLost, Wins, Acked
<1>9. ASSUME NEW t \in Threads, Create(t) \/ Patch(t) \/ GetTicket(t)
      PROVE  Contest'
  <2>1. \A u \in Threads \ {t} : pc'[u] = pc[u] /\ call'[u] = call[u]
    BY <1>1, <1>9, OthersUnmoved
  <2> DEFINE Moved ==
        /\ issued' \in {issued, issued + 1} /\ crashes' = crashes
        /\ \/ pc'[t] = "idle"
           \/ /\ pc[t] # "idle"
              /\ call'[t].id = call[t].id /\ call'[t].number = call[t].number
           \/ pc[t] = "idle" /\ issued' = issued + 1 /\ call'[t].id = issued + 1
        /\ pc'[t] \in {"stamp", "insert"} =>
             \/ pc[t] \in {"stamp", "insert"}
             \/ pc[t] = "idle" /\ IsNextNumber(call'[t].number)
        /\ pc[t] \in {"commit", "reread"} => pc'[t] \in {"commit", "reread"} \/ CreateRespond(t)
  <2>2. Moved
    BY <1>1, <1>9, HandlerMoves
  <2> DEFINE SameOwners ==
               /\ DOMAIN rows' = DOMAIN rows
               /\ \A n \in DOMAIN rows : rows'[n].account = rows[n].account
             Inserted ==
               /\ pc[t] = "insert" /\ pc'[t] = "commit"
               /\ call[t].number \notin DOMAIN rows
               /\ DOMAIN rows' = DOMAIN rows \cup {call[t].number}
               /\ rows'[call[t].number].account = call[t].id
               /\ \A n \in DOMAIN rows : rows'[n] = rows[n]
  <2>3. SameOwners \/ Inserted
    BY <1>2, <1>9, OwnersKept DEF CreateInsert, GoTo
  <2>4. replies \subseteq replies'
    BY RepliesGrow DEF Respond
  <2> HIDE DEF Moved, SameOwners, Inserted
  <2>5. OwnIds'
    <3>1. \A u \in Threads : pc'[u] # "idle" => call'[u].id \in 1..issued'
      BY <1>2, <2>1, <2>2 DEF Contest, OwnIds, Moved
    <3>2. ASSUME NEW u \in Threads \ {t}, pc'[t] # "idle", pc'[u] # "idle"
          PROVE  call'[t].id # call'[u].id
      BY <1>2, <2>1, <2>2, <3>2 DEF Contest, OwnIds, Moved
    <3>3. \A u, v \in Threads :
            u # v /\ pc'[u] # "idle" /\ pc'[v] # "idle" => call'[u].id # call'[v].id
      BY <2>1, <3>2 DEF Contest, OwnIds
    <3>4. ASSUME NEW n \in DOMAIN rows' PROVE rows'[n].account <= issued'
      BY <1>2, <1>3, <2>2, <2>3, <3>4 DEF Contest, OwnIds, Moved, SameOwners, Inserted
    <3> QED  BY <3>1, <3>3, <3>4 DEF OwnIds
  <2>6. SeededStay'
    <3>1. Inserted => call[t].id # 0
      BY <1>2 DEF Inserted, Contest, OwnIds
    <3> QED  BY <1>4, <2>3, <3>1 DEF Contest, SeededStay, SameOwners, Inserted
  <2>7. Trying'
    <3>1. ASSUME NEW u \in Threads, pc'[u] \in {"stamp", "insert"}
          PROVE  call'[u].number \notin Seeded
      <4>1. CASE pc[u] \in {"stamp", "insert"} /\ call'[u].number = call[u].number
        BY <4>1 DEF Contest, Trying
      <4>2. CASE u = t /\ pc[t] = "idle" /\ IsNextNumber(call'[t].number)
        BY <1>5, <4>2, TicketAssumption DEF IsNextNumber
      <4> QED  BY <2>1, <2>2, <3>1, <4>1, <4>2 DEF Moved
    <3>2. ASSUME NEW u \in Threads, pc'[u] \in {"stamp", "insert"}, NEW n \in DOMAIN rows'
          PROVE  rows'[n].account # call'[u].id
      <4>1. CASE pc[u] \in {"stamp", "insert"} /\ call'[u].id = call[u].id
        <5>1. \A k \in DOMAIN rows : rows[k].account # call[u].id
          BY <4>1 DEF Contest, Trying
        <5>2. Inserted => u # t
          BY <3>2 DEF Inserted
        <5>3. Inserted => call[t].id # call[u].id
          BY <4>1, <5>2 DEF Inserted, Contest, OwnIds
        <5> QED  BY <2>3, <4>1, <5>1, <5>3, <3>2 DEF SameOwners, Inserted
      <4>2. CASE u = t /\ pc[t] = "idle" /\ call'[t].id = issued + 1
        <5>1. SameOwners
          BY <2>3, <4>2 DEF Inserted
        <5> QED  BY <1>2, <1>3, <4>2, <5>1, <3>2 DEF SameOwners, Contest, OwnIds
      <4> QED  BY <2>1, <2>2, <3>2, <4>1, <4>2 DEF Moved
    <3> QED  BY <3>1, <3>2 DEF Trying
  <2>8. OwnersWin'
    <3> SUFFICES ASSUME crashes = 0, NEW n \in DOMAIN rows', n \notin Seeded,
                        NEW a, a = rows'[n].account
                 PROVE  Wins(n, a)'
      BY <2>2 DEF OwnersWin, Moved, Wins
    <3>1. CASE n \in DOMAIN rows
      <4>1. rows'[n].account = rows[n].account
        BY <2>3, <3>1 DEF SameOwners, Inserted
      <4>2. Wins(n, a)
        BY <3>1, <4>1 DEF Contest, OwnersWin
      <4> QED  BY <1>1, <1>9, <2>4, <4>2, WinnerStays
    <3>2. CASE n \notin DOMAIN rows
      <4>1. Inserted /\ n = call[t].number
        BY <2>3, <3>2 DEF SameOwners, Inserted
      <4>2. pc'[t] = "commit" /\ call'[t].id = a /\ call'[t].number = n
        BY <2>2, <4>1 DEF Moved, Inserted
      <4> QED  BY <4>2 DEF Wins
    <3> QED  BY <3>1, <3>2
  <2>9. LosersLost'
    <3> SUFFICES ASSUME crashes = 0, NEW e \in errors', e.op = "create"
                 PROVE  /\ e.number \in DOMAIN rows' \ Seeded
                        /\ rows'[e.number].account # e.id
      BY <2>2 DEF LosersLost, Moved
    <3>1. e.number \in DOMAIN rows \ Seeded /\ rows[e.number].account # e.id
      <4>1. CASE e \in errors
        BY <4>1 DEF Contest, LosersLost
      <4>2. CASE e \notin errors
        BY <1>1, <1>9, <4>2, NewLoser DEF Contest, Trying
      <4> QED  BY <4>1, <4>2
    <3> QED  BY <2>3, <3>1 DEF SameOwners, Inserted
  <2> QED  BY <2>5, <2>6, <2>7, <2>8, <2>9 DEF Contest
<1> QED  BY <1>6, <1>7, <1>8, <1>9 DEF Next

\* While the process lives, a POST that failed on its number lost it to one
\* that has been acknowledged or is about to be.
THEOREM CollisionsHaveWinners == Spec => []CollisionHasWinner
<1>1. Init => Growing /\ Ordered /\ Contest
  BY GrowingInit, OrderedInit, ContestInit
<1>2. (Growing /\ Ordered /\ Contest) /\ [Next]_vars => (Growing /\ Ordered /\ Contest)'
  BY GrowingStep, OrderedStep, ContestStep
<1>3. Growing /\ Ordered /\ Contest => CollisionHasWinner
  BY DEF Contest, OwnersWin, LosersLost, Wins, CollisionHasWinner
<1> QED  BY <1>1, <1>2, <1>3, PTL DEF Spec
=============================================================================

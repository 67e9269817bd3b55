---------------------------- MODULE TicketApi ------------------------------
(***************************************************************************)
(* A router of numbered tickets: POST, PATCH and GET of one ticket, served *)
(* by several worker threads over one connection.  The code has two such   *)
(* routers of the same shape: app/routers/incidents.py, whose names and    *)
(* lines are used here, and app/routers/escalations.py.  They differ in    *)
(* the table, the width of the number and the fields, all CONSTANTS.       *)
(*                                                                         *)
(* A handler is a sequence of calls on the connection, each an action      *)
(* here; between two of them any other handler may run, and the process    *)
(* may be killed.  A row's payload is abstracted to what the properties    *)
(* tell apart: "account" identifies the POST that supplied the immutable   *)
(* fields (0 for a seeded row), "opened" is opened_at, and val[f] says     *)
(* which UPDATE last wrote the patchable field f (0 for the INSERT).       *)
(***************************************************************************)
EXTENDS SharedConnection, FiniteSets

CONSTANTS
    Table,             \* "incidents" or "escalations"
    Threads,           \* the threadpool's workers, one request at a time each
    Seeded,            \* numbers of the tickets loaded by the seed command
    MaxSeq,            \* the largest suffix _NUMBER_RE matches (999999; 9999)
    PatchableFields,   \* _PATCHABLE_FIELDS
    Required,          \* those declared NOT NULL (state, priority; summary)
    Ops,               \* the kinds of request the clients send
    MaxRequests,       \* bound: requests received
    MaxClock,          \* bound: readings of the clock that differ
    MaxCrashes         \* bound: kills of the process

ASSUME TicketAssumption ==
    /\ MaxSeq \in Nat \ {0}
    /\ Seeded \subseteq 1..MaxSeq
    /\ Required \subseteq PatchableFields
    /\ Ops \subseteq {"create", "patch", "get"}
    /\ MaxRequests \in Nat /\ MaxClock \in Nat /\ MaxCrashes \in Nat

VARIABLES
    pc,         \* pc[t]: the call of its handler that thread t makes next
    call,       \* call[t]: the handler's locals
    clock,      \* datetime.now(timezone.utc)
    writes,     \* UPDATEs executed so far: what the next one will write
    issued,     \* requests received so far: the identity of the next one
    crashes,
    replies,    \* the 200 and 201 responses, as the clients received them
    errors      \* the 404 and 500 responses

vars == <<connVars, pc, call, clock, writes, issued, crashes, replies, errors>>

-----------------------------------------------------------------------------
\* The suffixes a number can carry: next_incident_number() formats at most
\* one that _NUMBER_RE no longer recognises.
Numbers == 1..(MaxSeq + 1)

Row == [account: Nat, opened: Nat, val: [PatchableFields -> Nat]]

Call == [id: Nat, number: Nat, opened: Nat, fields: SUBSET PatchableFields,
         bad: BOOLEAN, wrote: Nat]

Reply == [op: {"create", "patch", "get"}, id: Nat, number: Numbers,
          fields: SUBSET PatchableFields, wrote: Nat, row: Row]

Error == [op: {"create", "patch", "get"}, status: {404, 500}, id: Nat,
          number: Numbers]

\* The locals a handler starts with, and those of an idle worker.
NewCall(id, number, fields, bad) ==
    [id |-> id, number |-> number, opened |-> 0, fields |-> fields,
     bad |-> bad, wrote |-> 0]

NoCall == NewCall(0, 0, {}, FALSE)

rows == mem[Table]
stored == disk[Table]

-----------------------------------------------------------------------------
NewRow(account, opened) ==
    [account |-> account, opened |-> opened,
     val |-> [f \in PatchableFields |-> 0]]

\* The table as the seed command leaves it, and a process that has just started.
SeededTable == [n \in Seeded |-> NewRow(0, 0)]

HandlersInit ==
    /\ pc = [t \in Threads |-> "idle"]
    /\ call = [t \in Threads |-> NoCall]
    /\ clock = 0 /\ writes = 0 /\ issued = 0 /\ crashes = 0
    /\ replies = {} /\ errors = {}

Init ==
    /\ mem = [tb \in {Table} |-> SeededTable]
    /\ disk = mem
    /\ inTxn = FALSE
    /\ HandlersInit

\* A worker takes a request of kind op and starts its handler.
Receive(t, op) ==
    /\ pc[t] = "idle"
    /\ op \in Ops
    /\ issued < MaxRequests
    /\ issued' = issued + 1

\* The handler returns the row its last SELECT read.
Respond(op, c) ==
    /\ replies' = replies \cup
         {[op |-> op, id |-> c.id, number |-> c.number, fields |-> c.fields,
           wrote |-> c.wrote, row |-> rows[c.number]]}
    /\ UNCHANGED errors

\* The handler raises: HTTPException(404), or an error nothing catches (500).
Fail(op, status, c) ==
    /\ errors' = errors \cup
         {[op |-> op, status |-> status, id |-> c.id, number |-> c.number]}
    /\ UNCHANGED replies

GoTo(t, label) == pc' = [pc EXCEPT ![t] = label]

Done(t) == GoTo(t, "idle") /\ call' = [call EXCEPT ![t] = NoCall]

-----------------------------------------------------------------------------
(***************************************************************************)
(* POST /incidents, POST /escalations                                      *)
(***************************************************************************)

\* Mutant: a number derived from how many rows there are.
CountBasedNumber(n) == n = Cardinality(DOMAIN rows) + 1

\* n is what next_incident_number() (next_escalation_number()) returns: one
\* past the largest suffix the regular expression matches.  A number that has
\* outgrown the expression is in the table and is not counted.
IsNextNumber(n) ==
    /\ n = 1 \/ (n - 1) \in DOMAIN rows
    /\ \A k \in DOMAIN rows : k <= MaxSeq => k < n

CreateAllocate(t) ==
    /\ Receive(t, "create")
    /\ \E n \in Numbers :
         /\ IsNextNumber(n)
         /\ call' = [call EXCEPT ![t] = NewCall(issued', n, {}, FALSE)]
    /\ GoTo(t, "stamp")
    /\ UNCHANGED <<connVars, clock, writes, crashes, replies, errors>>

\* opened_at is read after the number; time may have passed or not.
CreateStamp(t) ==
    /\ pc[t] = "stamp"
    /\ clock' \in {clock, clock + 1} /\ clock' <= MaxClock
    /\ call' = [call EXCEPT ![t].opened = clock']
    /\ GoTo(t, "insert")
    /\ UNCHANGED <<connVars, writes, issued, crashes, replies, errors>>

\* Mutant: INSERT OR REPLACE.
CreateReplaces(t) ==
    /\ pc[t] = "insert"
    /\ Write(Table, call[t].number, NewRow(call[t].id, call[t].opened))
    /\ GoTo(t, "commit")
    /\ UNCHANGED <<call, clock, writes, issued, crashes, replies, errors>>

\* Mutant: the handler answers without a commit.
CreateInsertOnly(t) ==
    /\ pc[t] = "insert"
    /\ call[t].number \notin DOMAIN rows
    /\ Write(Table, call[t].number, NewRow(call[t].id, call[t].opened))
    /\ GoTo(t, "reread")
    /\ UNCHANGED <<call, clock, writes, issued, crashes, replies, errors>>

CreateInsert(t) ==
    /\ pc[t] = "insert"
    /\ call[t].number \notin DOMAIN rows
    /\ Write(Table, call[t].number, NewRow(call[t].id, call[t].opened))
    /\ GoTo(t, "commit")
    /\ UNCHANGED <<call, clock, writes, issued, crashes, replies, errors>>

\* Mutant: the handler takes a new number and retries, with the old opened_at.
CreateRetries(t) ==
    /\ pc[t] = "insert"
    /\ call[t].number \in DOMAIN rows
    /\ Rejected
    /\ \E n \in Numbers : IsNextNumber(n) /\ call' = [call EXCEPT ![t].number = n]
    /\ UNCHANGED <<pc, clock, writes, issued, crashes, replies, errors>>

\* Mutant: the handler rolls the shared connection back before it gives up.
CreateRollsBack(t) ==
    /\ pc[t] = "insert"
    /\ call[t].number \in DOMAIN rows
    /\ Reopen
    /\ Fail("create", 500, call[t])
    /\ Done(t)
    /\ UNCHANGED <<clock, writes, issued, crashes>>

\* Another POST has taken the number: IntegrityError, and no handler for it.
CreateCollides(t) ==
    /\ pc[t] = "insert"
    /\ call[t].number \in DOMAIN rows
    /\ Rejected
    /\ Fail("create", 500, call[t])
    /\ Done(t)
    /\ UNCHANGED <<clock, writes, issued, crashes>>

\* Mutant: the commit of a POST is lost.
CreateForgetsCommit(t) ==
    /\ pc[t] = "commit"
    /\ GoTo(t, "reread")
    /\ UNCHANGED <<connVars, call, clock, writes, issued, crashes, replies, errors>>

CreateCommit(t) ==
    /\ pc[t] = "commit"
    /\ Commit
    /\ GoTo(t, "reread")
    /\ UNCHANGED <<call, clock, writes, issued, crashes, replies, errors>>

CreateRespond(t) ==
    /\ pc[t] = "reread"
    /\ Respond("create", call[t])
    /\ Done(t)
    /\ UNCHANGED <<connVars, clock, writes, issued, crashes>>

-----------------------------------------------------------------------------
(***************************************************************************)
(* PATCH /incidents/{number}, PATCH /escalations/{number}                  *)
(***************************************************************************)

\* The body sets the fields F.  "bad" is an explicit null for a Required one:
\* The Patch model accepts it, and exclude_unset keeps it in the UPDATE.
PatchLookup(t) ==
    /\ Receive(t, "patch")
    /\ \E n \in Numbers, F \in SUBSET PatchableFields, bad \in BOOLEAN :
         LET c == NewCall(issued', n, F, bad)
         IN  /\ bad => F \cap Required # {}
             /\ \/ /\ n \notin DOMAIN rows
                   /\ Fail("patch", 404, c)
                   /\ UNCHANGED <<pc, call>>
                \/ /\ n \in DOMAIN rows
                   /\ GoTo(t, IF F = {} THEN "patch_reread" ELSE "update")
                   /\ call' = [call EXCEPT ![t] = c]
                   /\ UNCHANGED <<replies, errors>>
    /\ UNCHANGED <<connVars, clock, writes, crashes>>

\* UPDATE ... SET of the given fields only.
PatchUpdate(t) ==
    LET c == call[t]
        row == rows[c.number]
    IN  /\ pc[t] = "update"
        /\ ~c.bad
        /\ writes' = writes + 1
        /\ Write(Table, c.number,
                 [row EXCEPT !.val = [f \in PatchableFields |->
                                        IF f \in c.fields THEN writes' ELSE row.val[f]]])
        /\ call' = [call EXCEPT ![t].wrote = writes']
        /\ GoTo(t, "patch_commit")
        /\ UNCHANGED <<clock, issued, crashes, replies, errors>>

\* NOT NULL constraint failed: IntegrityError, and no handler for it.
PatchRejected(t) ==
    /\ pc[t] = "update"
    /\ call[t].bad
    /\ Rejected
    /\ Fail("patch", 500, call[t])
    /\ Done(t)
    /\ UNCHANGED <<clock, writes, issued, crashes>>

\* Mutant: the commit of a PATCH is lost.
PatchForgetsCommit(t) ==
    /\ pc[t] = "patch_commit"
    /\ GoTo(t, "patch_reread")
    /\ UNCHANGED <<connVars, call, clock, writes, issued, crashes, replies, errors>>

PatchCommit(t) ==
    /\ pc[t] = "patch_commit"
    /\ Commit
    /\ GoTo(t, "patch_reread")
    /\ UNCHANGED <<call, clock, writes, issued, crashes, replies, errors>>

PatchRespond(t) ==
    /\ pc[t] = "patch_reread"
    /\ Respond("patch", call[t])
    /\ Done(t)
    /\ UNCHANGED <<connVars, clock, writes, issued, crashes>>

-----------------------------------------------------------------------------
(***************************************************************************)
(* GET of one ticket: one SELECT on the shared connection.                 *)
(***************************************************************************)
GetTicket(t) ==
    /\ Receive(t, "get")
    /\ \E n \in Numbers :
         LET c == NewCall(issued', n, {}, FALSE)
         IN  IF n \in DOMAIN rows THEN Respond("get", c) ELSE Fail("get", 404, c)
    /\ UNCHANGED <<connVars, pc, call, clock, writes, crashes>>

-----------------------------------------------------------------------------
(***************************************************************************)
(* What the handlers of the other routers do to the connection: a write to *)
(* their own tables, or one that fails, opens the transaction for all, and *)
(* their commit ends it for all.  Time passes.                             *)
(***************************************************************************)
Elsewhere ==
    /\ Commit \/ Rejected \/ UNCHANGED connVars
    /\ clock' \in {clock, clock + 1} /\ clock' <= MaxClock
    /\ UNCHANGED <<pc, call, writes, issued, crashes, replies, errors>>

(***************************************************************************)
(* The process is killed and uvicorn is started again over the same file.  *)
(* No request that was being handled is ever answered.                     *)
(***************************************************************************)
Restart ==
    /\ crashes < MaxCrashes
    /\ crashes' = crashes + 1
    /\ Reopen
    /\ pc' = [t \in Threads |-> "idle"]
    /\ call' = [t \in Threads |-> NoCall]
    /\ UNCHANGED <<clock, writes, issued, replies, errors>>

Create(t) ==
    \/ CreateAllocate(t) \/ CreateStamp(t) \/ CreateInsert(t)
    \/ CreateCollides(t) \/ CreateCommit(t) \/ CreateRespond(t)

Patch(t) ==
    \/ PatchLookup(t) \/ PatchUpdate(t) \/ PatchRejected(t)
    \/ PatchCommit(t) \/ PatchRespond(t)

Next == Restart \/ Elsewhere \/ \E t \in Threads : Create(t) \/ Patch(t) \/ GetTicket(t)

Spec == Init /\ [][Next]_vars

-----------------------------------------------------------------------------
Labels == {"idle", "stamp", "insert", "commit", "reread",
           "update", "patch_commit", "patch_reread"}

IsTable(table) ==
    /\ DOMAIN table \subseteq Numbers
    /\ table \in [DOMAIN table -> Row]

\* The types of the variables; a handler past its lookup or its allocation
\* holds a number the table can have.
TypeOK ==
    /\ Table \in DOMAIN mem /\ IsTable(rows)
    /\ Table \in DOMAIN disk /\ IsTable(stored)
    /\ inTxn \in BOOLEAN
    /\ pc \in [Threads -> Labels]
    /\ call \in [Threads -> Call]
    /\ \A t \in Threads : pc[t] # "idle" => call[t].number \in Numbers
    /\ clock \in Nat /\ writes \in Nat /\ issued \in Nat /\ crashes \in Nat
    /\ replies \subseteq Reply
    /\ errors \subseteq Error

Acked == {r \in replies : r.op = "create"}

\* A 201 promises a ticket that is in the database file under the number it
\* names, with the content of that very POST, through every later request,
\* failure of another request and kill of the process.
AckedCreateIsStored ==
    \A r \in Acked :
        /\ r.number \in DOMAIN stored
        /\ stored[r.number].account = r.id
        /\ r.row.account = r.id

\* The answer to a PATCH shows its own fields or later ones, and they are in
\* the database file for good: no later PATCH of other fields, failed request
\* or kill brings an older value back.
AckedPatchIsStored ==
    \A r \in replies : r.op = "patch" =>
        \A f \in r.fields :
            /\ r.row.val[f] >= r.wrote
            /\ r.number \in DOMAIN stored
            /\ stored[r.number].val[f] >= r.wrote

\* What one handler has written on the shared connection is still there when
\* it commits and when it reads the row back: nothing that happens to another
\* request, a constraint failure included, takes it away.
PendingWriteKept ==
    \A t \in Threads :
        LET c == call[t]
        IN  /\ pc[t] \in {"commit", "reread"} =>
                 c.number \in DOMAIN rows /\ rows[c.number].account = c.id
            /\ pc[t] \in {"patch_commit", "patch_reread"} =>
                 /\ c.number \in DOMAIN rows
                 /\ \A f \in c.fields : rows[c.number].val[f] >= c.wrote

\* Rows that are visible and not in the file belong to a handler that is about
\* to commit: however the handlers interleave, the connection is never left
\* with a write that only a later request would save.
UncommittedHasCommitter ==
    mem # disk => \E t \in Threads : pc[t] \in {"commit", "patch_commit"}

\* Tickets that were created through the API were opened in the order of their
\* numbers, although opened_at is read after the number is chosen and the
\* INSERT comes later still.
OpenedInNumberOrder ==
    \A m, n \in DOMAIN rows :
        m < n /\ rows[m].account # 0 /\ rows[n].account # 0
            => rows[m].opened <= rows[n].opened

\* While the process lives, a POST that failed on its number lost it to another
\* POST, which has been acknowledged or is about to be: no number is wasted on
\* two requests that both fail.
CollisionHasWinner ==
    crashes = 0 =>
        \A e \in errors : e.op = "create" =>
            /\ e.number \in DOMAIN rows
            /\ LET winner == rows[e.number].account
               IN  /\ winner # e.id
                   /\ \/ \E r \in Acked : r.id = winner /\ r.number = e.number
                      \/ \E t \in Threads : /\ pc[t] \in {"commit", "reread"}
                                            /\ call[t].id = winner

\* Once a POST has been acknowledged, every later answer about that number is
\* about that same ticket: its immutable fields never change.  (A 404 for it
\* would be as wrong.)
AckedIdentityStable ==
    [][/\ \A r \in replies' \ replies : \A a \in Acked :
            a.number = r.number => /\ r.row.account = a.row.account
                                   /\ r.row.opened = a.row.opened
       /\ \A e \in errors' \ errors : \A a \in Acked :
            ~(e.status = 404 /\ e.number = a.number)]_vars

-----------------------------------------------------------------------------
(***************************************************************************)
(* What the documentation promises and the code does not keep.             *)
(***************************************************************************)

\* "guaranteed not to collide with any existing row": no POST fails on the
\* number the server itself has chosen.
PostNeverCollides == \A e \in errors : e.op # "create"

\* A state or a priority outside its values is answered with 422, so no PATCH
\* ends in an unhandled error.
PatchNeverErrors == \A e \in errors : e.op = "patch" => e.status = 404

\* A number "is never reused": all the answers that show a number show the
\* same ticket.
NumberNeverReused ==
    \A r1, r2 \in replies : r1.number = r2.number => r1.row.account = r2.row.account
=============================================================================

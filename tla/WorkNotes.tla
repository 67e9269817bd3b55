----------------------------- MODULE WorkNotes -----------------------------
(***************************************************************************)
(* The work notes router (app/routers/work_notes.py) over the shared       *)
(* connection: POST with its allocate-and-insert retry loop, and the list  *)
(* of an incident's notes, while POST /incidents adds incidents.           *)
(*                                                                         *)
(* A note's key is the sequence number of its sys_id.  "id" identifies the *)
(* request that supplied its body (0 for a seeded note) and "created" is   *)
(* created_at, which SQLite fills in at the INSERT.  Seeded notes are from *)
(* time 0: the fixtures' dates have passed.                                *)
(***************************************************************************)
EXTENDS SharedConnection, FiniteSets

CONSTANTS
    Threads,           \* the threadpool's workers, one request at a time each
    Incidents,         \* numbers of incidents, to be or not to be created
    SeededIncidents,   \* those the seed command has loaded
    SeededNotes,       \* SeededNotes[i]: the keys of incident i's seeded notes
    MaxRetries,        \* _MAX_SYS_ID_RETRIES (5)
    PageSizes, Pages,  \* the pages clients ask for
    MaxRequests,       \* bound: requests received
    MaxClock,          \* bound: readings of the clock that differ
    MaxCrashes         \* bound: kills of the process

ASSUME WorkNotesAssumption ==
    /\ SeededIncidents \subseteq Incidents /\ IsFiniteSet(SeededIncidents)
    /\ \A i \in SeededIncidents :
         SeededNotes[i] \subseteq Nat \ {0} /\ IsFiniteSet(SeededNotes[i])
    /\ \A i, j \in SeededIncidents : i # j => SeededNotes[i] \cap SeededNotes[j] = {}
    /\ MaxRetries \in Nat \ {0}
    /\ PageSizes \subseteq Nat \ {0} /\ Pages \subseteq Nat \ {0}
    /\ MaxRequests \in Nat /\ MaxClock \in Nat /\ MaxCrashes \in Nat

VARIABLES
    opening,    \* incidents inserted by a POST /incidents that has yet to commit
    pc,         \* pc[t]: the call of its handler that thread t makes next
    call,       \* call[t]: the handler's locals
    clock,      \* the time of day
    issued,     \* requests received so far: the identity of the next one
    crashes,
    replies,    \* the 200 and 201 responses, as the clients received them
    errors      \* the 404 and 500 responses

vars == <<connVars, opening, pc, call, clock, issued, crashes, replies, errors>>

-----------------------------------------------------------------------------
notes == mem.work_notes
storedNotes == disk.work_notes

Note == [id: Nat, incident: Incidents, created: Nat]

\* A row of a page: the sys_id and the rest of the note.
Item == [seq: Nat, note: Note]

\* The locals of a handler: the parameters of its request, and what it has
\* allocated or read so far.  "first" is the first key a POST tried; the code
\* has no use for it.
NewCall(id, incident, page, size) ==
    [id |-> id, incident |-> incident, seq |-> 0, tries |-> 0, first |-> 0,
     page |-> page, size |-> size, items |-> {}]

NoCall == NewCall(0, 0, 0, 0)

Call == [id: Nat, incident: Incidents \cup {0}, seq: Nat, tries: Nat, first: Nat,
         page: Pages \cup {0}, size: PageSizes \cup {0}, items: SUBSET Item]

SeededKeys == UNION {SeededNotes[i] : i \in SeededIncidents}

Init ==
    /\ mem = [incidents |-> [i \in SeededIncidents |-> 0],
              work_notes |-> [s \in SeededKeys |->
                  [id |-> 0, created |-> 0,
                   incident |-> CHOOSE i \in SeededIncidents : s \in SeededNotes[i]]]]
    /\ disk = mem
    /\ inTxn = FALSE
    /\ opening = {}
    /\ pc = [t \in Threads |-> "idle"]
    /\ call = [t \in Threads |-> NoCall]
    /\ clock = 0 /\ issued = 0 /\ crashes = 0
    /\ replies = {} /\ errors = {}

\* A worker takes a request; its handler first looks the incident up.
Receive(t, c) ==
    /\ pc[t] = "idle"
    /\ issued < MaxRequests
    /\ issued' = issued + 1
    /\ call' = [call EXCEPT ![t] = c]

GoTo(t, label) == pc' = [pc EXCEPT ![t] = label]

Done(t) == GoTo(t, "idle") /\ call' = [call EXCEPT ![t] = NoCall]

\* INCIDENT_NOT_FOUND, or the RuntimeError that nothing catches.
Fail(status, c) ==
    /\ errors' = errors \cup {[status |-> status, call |-> c]}
    /\ UNCHANGED replies

Found(incident) == incident \in DOMAIN mem.incidents

-----------------------------------------------------------------------------
(***************************************************************************)
(* POST /incidents/{number}/work_notes                                     *)
(***************************************************************************)

\* Mutant: the incident is not looked up.
NoteUnchecked(t) ==
    /\ \E i \in Incidents : Receive(t, NewCall(issued + 1, i, 0, 0))
    /\ GoTo(t, "allocate")
    /\ UNCHANGED <<connVars, opening, clock, crashes, replies, errors>>

NoteLookup(t) ==
    /\ \E i \in Incidents :
         /\ Found(i)
         /\ Receive(t, NewCall(issued + 1, i, 0, 0))
    /\ GoTo(t, "allocate")
    /\ UNCHANGED <<connVars, opening, clock, crashes, replies, errors>>

\* Mutant: a key is set aside for every POST under way.
ReservedSeqs ==
    LET taken == DOMAIN notes \cup {call[u].seq : u \in {v \in Threads : pc[v] = "insert"}}
    IN  {n \in {1} \cup {k + 1 : k \in taken} : \A k \in taken : k < n}

\* The one key allocate_work_note_sys_id() can return: past the largest.
NextSeqs == {n \in {1} \cup {k + 1 : k \in DOMAIN notes} : \A k \in DOMAIN notes : k < n}

Tries(c, n) == [c EXCEPT !.seq = n, !.first = IF c.tries = 0 THEN n ELSE c.first]

NoteAllocate(t) ==
    /\ pc[t] = "allocate"
    /\ \E n \in NextSeqs : call' = [call EXCEPT ![t] = Tries(@, n)]
    /\ GoTo(t, "insert")
    /\ UNCHANGED <<connVars, opening, clock, issued, crashes, replies, errors>>

\* Mutant: the handler leaves the loop without a commit.
NoteInsertOnly(t) ==
    /\ pc[t] = "insert"
    /\ call[t].seq \notin DOMAIN notes
    /\ clock' \in {clock, clock + 1} /\ clock' <= MaxClock
    /\ Write("work_notes", call[t].seq,
             [id |-> call[t].id, incident |-> call[t].incident, created |-> clock'])
    /\ GoTo(t, "reread")
    /\ UNCHANGED <<opening, call, issued, crashes, replies, errors>>

\* created_at is datetime('now') of the INSERT; time may have passed or not.
NoteInsert(t) ==
    /\ pc[t] = "insert"
    /\ call[t].seq \notin DOMAIN notes
    /\ clock' \in {clock, clock + 1} /\ clock' <= MaxClock
    /\ Write("work_notes", call[t].seq,
             [id |-> call[t].id, incident |-> call[t].incident, created |-> clock'])
    /\ GoTo(t, "commit")
    /\ UNCHANGED <<opening, call, issued, crashes, replies, errors>>

\* Mutant: the loop tries the same key again.
NoteCollidesAgain(t) ==
    /\ pc[t] = "insert"
    /\ call[t].seq \in DOMAIN notes
    /\ Rejected
    /\ IF call[t].tries + 1 < MaxRetries
         THEN /\ call' = [call EXCEPT ![t].tries = @ + 1]
              /\ UNCHANGED <<pc, replies, errors>>
         ELSE Fail(500, call[t]) /\ Done(t)
    /\ UNCHANGED <<opening, clock, issued, crashes>>

\* IntegrityError: the loop takes a fresh key, or gives up after its last try.
NoteCollides(t) ==
    /\ pc[t] = "insert"
    /\ call[t].seq \in DOMAIN notes
    /\ Rejected
    /\ IF call[t].tries + 1 < MaxRetries
         THEN /\ GoTo(t, "allocate")
              /\ call' = [call EXCEPT ![t].tries = @ + 1]
              /\ UNCHANGED <<replies, errors>>
         ELSE Fail(500, call[t]) /\ Done(t)
    /\ UNCHANGED <<opening, clock, issued, crashes>>

NoteCommit(t) ==
    /\ pc[t] = "commit"
    /\ Commit
    /\ GoTo(t, "reread")
    /\ UNCHANGED <<opening, call, clock, issued, crashes, replies, errors>>

NoteRespond(t) ==
    /\ pc[t] = "reread"
    /\ replies' = replies \cup
         {[op |-> "note", id |-> call[t].id, seq |-> call[t].seq, note |-> notes[call[t].seq]]}
    /\ Done(t)
    /\ UNCHANGED <<connVars, opening, clock, issued, crashes, errors>>

-----------------------------------------------------------------------------
(***************************************************************************)
(* GET /incidents/{number}/work_notes: the rows of a page, then the total. *)
(***************************************************************************)
NotesOf(incident) == {s \in DOMAIN notes : notes[s].incident = incident}

\* Mutant: the newest note first.
NewestFirst(r, s) ==
    \/ notes[r].created > notes[s].created
    \/ notes[r].created = notes[s].created /\ r > s

\* ORDER BY created_at ASC, sys_id ASC
Before(r, s) ==
    \/ notes[r].created < notes[s].created
    \/ notes[r].created = notes[s].created /\ r < s

\* How many of the incident's notes come before s.
Rank(s) == Cardinality({r \in NotesOf(notes[s].incident) : Before(r, s)})

\* LIMIT size OFFSET (page - 1) * size
InPage(rank, page, size) == (page - 1) * size <= rank /\ rank < page * size

ListLookup(t) ==
    /\ \E i \in Incidents, page \in Pages, size \in PageSizes :
         /\ Found(i)
         /\ Receive(t, NewCall(issued + 1, i, page, size))
    /\ GoTo(t, "list_rows")
    /\ UNCHANGED <<connVars, opening, clock, crashes, replies, errors>>

PageRows(c) ==
    {[seq |-> s, note |-> notes[s]] :
        s \in {n \in NotesOf(c.incident) : InPage(Rank(n), c.page, c.size)}}

ListRows(t) ==
    /\ pc[t] = "list_rows"
    /\ call' = [call EXCEPT ![t].items = PageRows(call[t])]
    /\ GoTo(t, "list_count")
    /\ UNCHANGED <<connVars, opening, clock, issued, crashes, replies, errors>>

ListReply(c, total) ==
    replies' = replies \cup
        {[op |-> "list", id |-> c.id, incident |-> c.incident, page |-> c.page,
          size |-> c.size, items |-> c.items, total |-> total]}

ListCount(t) ==
    /\ pc[t] = "list_count"
    /\ ListReply(call[t], Cardinality(NotesOf(call[t].incident)))
    /\ Done(t)
    /\ UNCHANGED <<connVars, opening, clock, issued, crashes, errors>>

\* Both handlers answer 404 for an incident the connection does not see.
NotFound(t) ==
    /\ pc[t] = "idle" /\ issued < MaxRequests
    /\ issued' = issued + 1
    /\ \E i \in Incidents : ~Found(i) /\ Fail(404, NewCall(issued + 1, i, 0, 0))
    /\ UNCHANGED <<connVars, opening, pc, call, clock, crashes>>

-----------------------------------------------------------------------------
(***************************************************************************)
(* What else happens on the connection: a POST /incidents, whose INSERT is *)
(* visible before its commit, and the end of the process.                  *)
(***************************************************************************)
IncidentInsert(i) ==
    /\ ~Found(i)
    /\ Write("incidents", i, 0)
    /\ opening' = opening \cup {i}
    /\ UNCHANGED <<pc, call, clock, issued, crashes, replies, errors>>

IncidentCommit(i) ==
    /\ i \in opening
    /\ Commit
    /\ opening' = opening \ {i}
    /\ UNCHANGED <<pc, call, clock, issued, crashes, replies, errors>>

\* Any other handler: a write to another table, or a failed one, opens the
\* transaction for all; its commit ends it for all.
Elsewhere ==
    /\ Commit \/ Rejected
    /\ UNCHANGED <<opening, pc, call, clock, issued, crashes, replies, errors>>

Restart ==
    /\ crashes < MaxCrashes
    /\ crashes' = crashes + 1
    /\ Reopen
    /\ opening' = {}
    /\ pc' = [t \in Threads |-> "idle"]
    /\ call' = [t \in Threads |-> NoCall]
    /\ UNCHANGED <<clock, issued, replies, errors>>

CreateNote(t) ==
    \/ NoteLookup(t) \/ NoteAllocate(t) \/ NoteInsert(t)
    \/ NoteCollides(t) \/ NoteCommit(t) \/ NoteRespond(t)

ListNotes(t) == ListLookup(t) \/ ListRows(t) \/ ListCount(t)

Next ==
    \/ Restart \/ Elsewhere
    \/ \E i \in Incidents : IncidentInsert(i) \/ IncidentCommit(i)
    \/ \E t \in Threads : CreateNote(t) \/ ListNotes(t) \/ NotFound(t)

Spec == Init /\ [][Next]_vars

-----------------------------------------------------------------------------
Labels == {"idle", "allocate", "insert", "commit", "reread", "list_rows", "list_count"}

IsNotes(table) ==
    /\ DOMAIN table \subseteq Nat \ {0}
    /\ table \in [DOMAIN table -> Note]

Reply ==
    [op: {"note"}, id: Nat, seq: Nat, note: Note] \cup
    [op: {"list"}, id: Nat, incident: Incidents, page: Pages, size: PageSizes,
     items: SUBSET Item, total: Nat]

\* The types of the variables; a handler past its lookup has its incident.
TypeOK ==
    /\ DOMAIN mem = {"incidents", "work_notes"} /\ DOMAIN disk = DOMAIN mem
    /\ IsNotes(notes) /\ IsNotes(storedNotes)
    /\ DOMAIN mem.incidents \subseteq Incidents /\ DOMAIN disk.incidents \subseteq Incidents
    /\ inTxn \in BOOLEAN
    /\ opening \subseteq Incidents
    /\ pc \in [Threads -> Labels]
    /\ call \in [Threads -> Call]
    /\ \A t \in Threads : pc[t] # "idle" => call[t].incident \in Incidents
    /\ clock \in Nat /\ issued \in Nat /\ crashes \in Nat
    /\ replies \subseteq Reply
    /\ errors \subseteq [status: {404, 500}, call: Call]

\* No note in the database file is an orphan, although foreign keys are not
\* enforced and a note may be posted to an incident that is not committed yet,
\* on a connection that may die before that commit.
NotesHaveIncident ==
    \A s \in DOMAIN storedNotes : storedNotes[s].incident \in DOMAIN disk.incidents

\* A 201 promises a note that stays in the file as it was answered, under a
\* sys_id that no other POST has been given.
AckedNoteIsStored ==
    \A r \in replies : r.op = "note" =>
        /\ r.seq \in DOMAIN storedNotes
        /\ storedNotes[r.seq] = r.note
        /\ r.note.id = r.id

\* The order of the sys_ids is the order in which notes were written, whatever
\* keys the retries went through: an incident's timeline has no inversions.
NotesInOrder ==
    \A r, s \in DOMAIN notes :
        r < s /\ notes[r].id # 0 /\ notes[s].id # 0 => notes[r].created <= notes[s].created

\* A POST gives up only after losing every one of its tries to a different
\* note, written while it ran: the limit is one of contention.
GivesUpOnlyUnderContention ==
    crashes = 0 =>
        \A e \in errors : e.status = 500 =>
            Cardinality({s \in DOMAIN notes : s >= e.call.first /\ notes[s].id # e.call.id})
                >= MaxRetries

\* A note of a page that has been answered is still there as it was shown.
StillShown(item) == item.seq \in DOMAIN notes /\ notes[item.seq] = item.note

\* A note stays on the page it was listed on: later notes only lengthen the
\* list, so a client that turns the pages sees no note twice.  A kill may take
\* a note that was listed before its commit, and the next note gets its sys_id:
\* that is another note, and it need not be on the same page.
PagesAreStable ==
    \A r \in replies : r.op = "list" =>
        \A item \in r.items : StillShown(item) => InPage(Rank(item.seq), r.page, r.size)
=============================================================================

-------------------------- MODULE WorkNotesProofs --------------------------
(***************************************************************************)
(* WorkNotes for any workers, incidents and seeded notes, any limit on the *)
(* retries and any number of requests and kills.                           *)
(***************************************************************************)
EXTENDS WorkNotes, FiniteSetTheorems, TLAPS

-----------------------------------------------------------------------------
(***************************************************************************)
(* What each statement does to the tables.                                 *)
(***************************************************************************)

\* The requests and answers that leave the tables alone.
Reads(t) ==
    \/ NoteLookup(t) \/ NoteAllocate(t) \/ NoteCollides(t) \/ NoteRespond(t)
    \/ ListLookup(t) \/ ListRows(t) \/ ListCount(t) \/ NotFound(t)

\* One table extends another: the same notes, and perhaps more.
Extends(old, new) == \A s \in DOMAIN old : s \in DOMAIN new /\ new[s] = old[s]

LEMMA ReadEffect ==
    ASSUME NEW t \in Threads, Reads(t)
    PROVE  /\ UNCHANGED <<mem, disk, opening, clock, crashes>>
           /\ inTxn' = inTxn \/ inTxn' = TRUE
BY DEF Reads, NoteLookup, NoteAllocate, NoteCollides, NoteRespond, ListLookup,
       ListRows, ListCount, NotFound, Rejected, connVars

\* The row an INSERT writes, and the connection's notes after it.
NewNote(t) == [id |-> call[t].id, incident |-> call[t].incident, created |-> clock']

LEMMA InsertEffect ==
    ASSUME TypeOK, NEW t \in Threads, NoteInsert(t)
    PROVE  /\ notes' = RowAdded(notes, call[t].seq, NewNote(t))
           /\ call[t].seq \notin DOMAIN notes
           /\ mem'.incidents = mem.incidents /\ DOMAIN mem' = DOMAIN mem
           /\ disk' = disk /\ inTxn' = TRUE
           /\ pc[t] = "insert" /\ pc' = [pc EXCEPT ![t] = "commit"]
           /\ clock' \in Nat /\ clock <= clock'
           /\ NewNote(t) \in Note
           /\ UNCHANGED <<opening, call, issued, crashes, replies, errors>>
<1>1. /\ Write("work_notes", call[t].seq, NewNote(t))
      /\ call[t].seq \notin DOMAIN notes
      /\ pc[t] = "insert" /\ pc' = [pc EXCEPT ![t] = "commit"]
      /\ clock' \in Nat /\ clock <= clock'
      /\ UNCHANGED <<opening, call, issued, crashes, replies, errors>>
  BY DEF NoteInsert, NewNote, GoTo, TypeOK
<1>2. NewNote(t) \in Note
  BY <1>1 DEF NewNote, Note, TypeOK, Call
<1> HIDE DEF NewNote
<1>3. /\ notes' = RowAdded(notes, call[t].seq, NewNote(t))
      /\ mem'.incidents = mem.incidents /\ DOMAIN mem' = DOMAIN mem
      /\ disk' = disk /\ inTxn' = TRUE
  BY <1>1 DEF Write, TypeOK, notes
<1> QED  BY <1>1, <1>2, <1>3

LEMMA IncidentInsertEffect ==
    ASSUME TypeOK, NEW i \in Incidents, IncidentInsert(i)
    PROVE  /\ notes' = notes /\ DOMAIN mem' = DOMAIN mem
           /\ DOMAIN mem'.incidents = DOMAIN mem.incidents \cup {i}
           /\ disk' = disk /\ inTxn' = TRUE
           /\ opening' = opening \cup {i}
           /\ UNCHANGED <<pc, call, clock, issued, crashes, replies, errors>>
BY DEF IncidentInsert, Write, RowAdded, TypeOK, notes

\* A commit, by whoever it is, and a failed statement of another router.
Commits ==
    \/ \E t \in Threads : NoteCommit(t)
    \/ \E i \in Incidents : IncidentCommit(i)
    \/ Elsewhere

LEMMA CommitEffect ==
    ASSUME Commits
    PROVE  /\ mem' = mem /\ (disk' = mem \/ disk' = disk)
           /\ inTxn' \in BOOLEAN
           /\ UNCHANGED <<call, clock, issued, crashes, replies, errors>>
           /\ opening' \subseteq opening
           /\ \/ pc' = pc
              \/ /\ disk' = mem
                 /\ \E t \in Threads : pc[t] = "commit" /\ pc' = [pc EXCEPT ![t] = "reread"]
<1>1. CASE \E t \in Threads : NoteCommit(t)
  BY <1>1 DEF NoteCommit, Commit, GoTo
<1>2. CASE \E i \in Incidents : IncidentCommit(i)
  BY <1>2 DEF IncidentCommit, Commit
<1>3. CASE Elsewhere
  BY <1>3 DEF Elsewhere, Commit, Rejected
<1> QED  BY <1>1, <1>2, <1>3 DEF Commits

LEMMA RestartEffect ==
    ASSUME Restart
    PROVE  /\ mem' = disk /\ disk' = disk /\ notes' = storedNotes /\ inTxn' = FALSE
           /\ pc' = [t \in Threads |-> "idle"]
           /\ call' = [t \in Threads |-> NoCall]
           /\ opening' = {} /\ crashes' = crashes + 1
           /\ UNCHANGED <<clock, issued, replies, errors>>
BY DEF Restart, Reopen, notes, storedNotes

\* Every step is one of these.
LEMMA StepKinds ==
    ASSUME [Next]_vars
    PROVE  \/ UNCHANGED vars
           \/ Restart
           \/ Commits
           \/ \E i \in Incidents : IncidentInsert(i)
           \/ \E t \in Threads : NoteInsert(t)
           \/ \E t \in Threads : Reads(t)
BY DEF Next, CreateNote, ListNotes, Commits, Reads

-----------------------------------------------------------------------------
(***************************************************************************)
(* The operators of the model.                                             *)
(***************************************************************************)

\* Adding a note under a new key keeps the others, the type and finiteness.
LEMMA NoteAdded ==
    ASSUME NEW old, IsNotes(old), IsFiniteSet(DOMAIN old),
           NEW s, s \in Nat \ {0}, s \notin DOMAIN old, NEW note, note \in Note,
           NEW new, new = RowAdded(old, s, note)
    PROVE  /\ IsNotes(new)
           /\ DOMAIN new = DOMAIN old \cup {s}
           /\ IsFiniteSet(DOMAIN new)
           /\ new[s] = note
           /\ Extends(old, new)
<1>1. DOMAIN new = DOMAIN old \cup {s}
  BY DEF RowAdded
<1>2. IsFiniteSet(DOMAIN new)
  BY <1>1, FS_AddElement
<1>3. new[s] = note /\ Extends(old, new)
  BY DEF RowAdded, Extends
<1>4. IsNotes(new)
  BY DEF RowAdded, IsNotes
<1> QED  BY <1>1, <1>2, <1>3, <1>4

\* allocate_work_note_sys_id() returns one key only, and it is a new one.
LEMMA NextSeqIsFree ==
    ASSUME IsNotes(notes), NEW m \in NextSeqs, NEW n \in NextSeqs
    PROVE  m \in Nat \ {0} /\ m \notin DOMAIN notes /\ m = n
<1>1. \A k \in DOMAIN notes : k \in Nat \ {0} /\ k < m /\ k < n
  BY DEF NextSeqs, IsNotes
<1>2. m = 1 \/ \E k \in DOMAIN notes : m = k + 1
  BY DEF NextSeqs
<1>3. n = 1 \/ \E k \in DOMAIN notes : n = k + 1
  BY DEF NextSeqs
<1> QED  BY <1>1, <1>2, <1>3

LEMMA NewCallType ==
    ASSUME NEW id \in Nat, NEW i \in Incidents \cup {0}, NEW page \in Pages \cup {0},
           NEW size \in PageSizes \cup {0}
    PROVE  /\ NewCall(id, i, page, size) \in Call
           /\ NewCall(id, i, page, size).id = id
           /\ NewCall(id, i, page, size).incident = i
           /\ NewCall(id, i, page, size).page = page
           /\ NewCall(id, i, page, size).size = size
           /\ NewCall(id, i, page, size).tries = 0
           /\ NewCall(id, i, page, size).items = {}
BY DEF NewCall, Call

LEMMA NoCallType == NoCall \in Call /\ NoCall.items = {}
BY NewCallType DEF NoCall

LEMMA TriesType ==
    ASSUME NEW c \in Call, NEW n \in Nat
    PROVE  /\ Tries(c, n) \in Call
           /\ Tries(c, n).seq = n
           /\ Tries(c, n).first = IF c.tries = 0 THEN n ELSE c.first
           /\ Tries(c, n).id = c.id /\ Tries(c, n).incident = c.incident
           /\ Tries(c, n).tries = c.tries /\ Tries(c, n).items = c.items
BY DEF Tries, Call

-----------------------------------------------------------------------------
(***************************************************************************)
(* Types.                                                                  *)
(***************************************************************************)

\* What a handler holds at each of its calls.
HasLocals(t) ==
    /\ pc[t] \in {"insert", "commit", "reread"} => call[t].seq \in Nat \ {0}
    /\ pc[t] \in {"commit", "reread"} => call[t].seq \in DOMAIN notes
    /\ pc[t] \in {"list_rows", "list_count"} =>
         call[t].page \in Pages /\ call[t].size \in PageSizes

Finite == IsFiniteSet(DOMAIN notes) /\ IsFiniteSet(DOMAIN storedNotes)

\* Nothing but a kill takes a note away, and that only back to the file.
StoredIsOnConnection == Extends(storedNotes, notes)

Typed ==
    /\ TypeOK
    /\ \A t \in Threads : HasLocals(t)
    /\ Finite
    /\ StoredIsOnConnection

LEMMA SeedIsFinite == IsFiniteSet(SeededKeys) /\ SeededKeys \subseteq Nat \ {0}
<1> DEFINE S == {SeededNotes[i] : i \in SeededIncidents}
<1>1. IsFiniteSet(S)
  <2> DEFINE f == [i \in SeededIncidents |-> SeededNotes[i]]
  <2>1. f \in Surjection(SeededIncidents, S)
    BY DEF Surjection
  <2> QED  BY <2>1, FS_Surjection, WorkNotesAssumption
<1>2. \A x \in S : IsFiniteSet(x)
  BY WorkNotesAssumption
<1>3. IsFiniteSet(UNION S)
  BY <1>1, <1>2, FS_UNION
<1> QED  BY <1>3, WorkNotesAssumption DEF SeededKeys

LEMMA SeedIsHomed ==
    ASSUME Init
    PROVE  /\ DOMAIN mem.incidents = SeededIncidents
           /\ DOMAIN notes = SeededKeys
           /\ \A s \in DOMAIN notes :
                /\ notes[s] \in Note
                /\ notes[s].id = 0 /\ notes[s].created = 0
                /\ notes[s].incident \in SeededIncidents
           /\ notes \in [DOMAIN notes -> Note]
<1> DEFINE Home(s) == CHOOSE i \in SeededIncidents : s \in SeededNotes[i]
<1>1. mem.incidents = [i \in SeededIncidents |-> 0]
      /\ notes = [s \in SeededKeys |-> [id |-> 0, created |-> 0, incident |-> Home(s)]]
  BY DEF Init, notes
<1>2. ASSUME NEW s \in SeededKeys PROVE Home(s) \in SeededIncidents
  <2>1. \E i \in SeededIncidents : s \in SeededNotes[i]
    BY DEF SeededKeys
  <2> QED  BY <2>1
<1> HIDE DEF Home
<1>3. \A s \in SeededKeys : Home(s) \in Incidents
  BY <1>2, WorkNotesAssumption
<1>4. \A s \in DOMAIN notes :
         /\ notes[s] \in Note /\ notes[s].id = 0 /\ notes[s].created = 0
         /\ notes[s].incident \in SeededIncidents
  BY <1>1, <1>2, <1>3 DEF Note
<1> QED  BY <1>1, <1>4

LEMMA TypedInit == Init => Typed
<1> SUFFICES ASSUME Init PROVE Typed
  OBVIOUS
<1>1. disk = mem /\ storedNotes = notes /\ DOMAIN mem = {"incidents", "work_notes"}
      /\ pc = [t \in Threads |-> "idle"] /\ call = [t \in Threads |-> NoCall]
      /\ clock = 0 /\ issued = 0 /\ crashes = 0 /\ replies = {} /\ errors = {}
      /\ opening = {} /\ inTxn = FALSE
  BY DEF Init, notes, storedNotes
<1>2. IsNotes(notes) /\ DOMAIN mem.incidents \subseteq Incidents /\ Finite
  BY <1>1, SeedIsHomed, SeedIsFinite, WorkNotesAssumption DEF IsNotes, Finite
<1>3. TypeOK
  BY <1>1, <1>2, NoCallType DEF TypeOK, Labels
<1> QED  BY <1>1, <1>2, <1>3 DEF Typed, HasLocals, StoredIsOnConnection, Extends

\* A step that leaves the tables alone and the types of the rest right.
LEMMA TypedAfterRead ==
    ASSUME Typed, NEW t \in Threads, Reads(t),
           pc' \in [Threads -> Labels], call' \in [Threads -> Call],
           \A u \in Threads : u # t => pc'[u] = pc[u] /\ call'[u] = call[u],
           pc'[t] # "idle" => call'[t].incident \in Incidents,
           pc'[t] \in {"insert", "commit", "reread"} => call'[t].seq \in Nat \ {0},
           pc'[t] \notin {"commit", "reread"},
           pc'[t] \in {"list_rows", "list_count"} =>
               call'[t].page \in Pages /\ call'[t].size \in PageSizes,
           issued' \in Nat, replies' \subseteq Reply,
           errors' \subseteq [status: {404, 500}, call: Call]
    PROVE  Typed'
<1>0. /\ UNCHANGED <<mem, disk, opening, clock, crashes>>
      /\ inTxn' = inTxn \/ inTxn' = TRUE
  BY ReadEffect
<1>1. /\ inTxn' \in BOOLEAN /\ notes' = notes /\ storedNotes' = storedNotes
      /\ UNCHANGED <<mem, disk, opening, clock, crashes>>
  BY <1>0 DEF Typed, TypeOK, notes, storedNotes
<1>2. TypeOK'
  BY <1>1 DEF Typed, TypeOK, IsNotes
<1>3. ASSUME NEW u \in Threads PROVE HasLocals(u)'
  BY <1>1, <1>3 DEF Typed, HasLocals
<1> QED  BY <1>1, <1>2, <1>3 DEF Typed, Finite, StoredIsOnConnection, Extends

LEMMA ItemsType ==
    ASSUME TypeOK, NEW c \in Call
    PROVE  /\ PageRows(c) \subseteq Item
           /\ \A item \in PageRows(c) :
                /\ item.seq \in NotesOf(c.incident) /\ item.note = notes[item.seq]
                /\ InPage(Rank(item.seq), c.page, c.size)
<1>1. \A s \in NotesOf(c.incident) :
         [seq |-> s, note |-> notes[s]] \in Item
  BY DEF TypeOK, IsNotes, Item, NotesOf
<1>2. ASSUME NEW item \in PageRows(c)
      PROVE  \E s \in NotesOf(c.incident) : /\ item = [seq |-> s, note |-> notes[s]]
                                             /\ InPage(Rank(s), c.page, c.size)
  BY DEF PageRows
<1>3. ASSUME NEW item \in PageRows(c)
      PROVE  /\ item \in Item
             /\ item.seq \in NotesOf(c.incident) /\ item.note = notes[item.seq]
             /\ InPage(Rank(item.seq), c.page, c.size)
  <2>1. PICK s \in NotesOf(c.incident) : /\ item = [seq |-> s, note |-> notes[s]]
                                          /\ InPage(Rank(s), c.page, c.size)
    BY <1>2
  <2> QED  BY <1>1, <2>1
<1> QED  BY <1>3

LEMMA TypedRead == ASSUME Typed, NEW t \in Threads, Reads(t) PROVE Typed'
<1> USE DEF Labels
<1>0. /\ pc \in [Threads -> Labels] /\ call \in [Threads -> Call] /\ issued \in Nat
      /\ replies \subseteq Reply /\ errors \subseteq [status: {404, 500}, call: Call]
      /\ HasLocals(t)
      /\ pc[t] # "idle" => call[t].incident \in Incidents
  BY DEF Typed, TypeOK
<1>1. CASE NoteLookup(t)
  <2>1. PICK i \in Incidents : call' = [call EXCEPT ![t] = NewCall(issued + 1, i, 0, 0)]
    BY <1>1 DEF NoteLookup, Receive
  <2>2. NewCall(issued + 1, i, 0, 0) \in Call /\ NewCall(issued + 1, i, 0, 0).incident = i
    BY <1>0, NewCallType
  <2>3. pc' = [pc EXCEPT ![t] = "allocate"] /\ issued' \in Nat /\ UNCHANGED <<replies, errors>>
    BY <1>0, <1>1 DEF NoteLookup, GoTo, Receive
  <2> QED  BY <1>0, <2>1, <2>2, <2>3, TypedAfterRead
<1>2. CASE NoteAllocate(t)
  <2>1. PICK n \in NextSeqs :
          call' = [call EXCEPT ![t] = Tries(call[t], n)]
    BY <1>2 DEF NoteAllocate
  <2>2. n \in Nat \ {0}
    BY NextSeqIsFree DEF Typed, TypeOK
  <2> DEFINE c == call'[t]
  <2>3. c \in Call /\ c.incident = call[t].incident /\ c.seq = n
    BY <1>0, <2>1, <2>2, TriesType
  <2>4. /\ pc[t] = "allocate" /\ pc' = [pc EXCEPT ![t] = "insert"]
        /\ UNCHANGED <<issued, replies, errors>>
    BY <1>2 DEF NoteAllocate, GoTo
  <2>5. call' \in [Threads -> Call] /\ \A u \in Threads : u # t => call'[u] = call[u]
    BY <1>0, <2>1, <2>3
  <2> QED  BY <1>0, <2>2, <2>3, <2>4, <2>5, TypedAfterRead
<1>3. CASE NoteCollides(t)
  <2>1. pc[t] = "insert" /\ UNCHANGED issued
    BY <1>3 DEF NoteCollides
  <2>2. CASE call[t].tries + 1 < MaxRetries
    <3>1. /\ pc' = [pc EXCEPT ![t] = "allocate"]
          /\ call' = [call EXCEPT ![t] = [call[t] EXCEPT !.tries = call[t].tries + 1]]
          /\ UNCHANGED <<replies, errors>>
      BY <1>3, <2>2 DEF NoteCollides, GoTo
    <3>2. call'[t] \in Call /\ call'[t].incident = call[t].incident
      BY <1>0, <3>1 DEF Call
    <3>3. call' \in [Threads -> Call] /\ \A u \in Threads : u # t => call'[u] = call[u]
      BY <1>0, <3>1, <3>2
    <3> QED  BY <1>0, <2>1, <3>1, <3>2, <3>3, TypedAfterRead
  <2>3. CASE ~(call[t].tries + 1 < MaxRetries)
    <3>1. /\ pc' = [pc EXCEPT ![t] = "idle"] /\ call' = [call EXCEPT ![t] = NoCall]
          /\ UNCHANGED replies /\ errors' = errors \cup {[status |-> 500, call |-> call[t]]}
      BY <1>3, <2>3 DEF NoteCollides, GoTo, Done, Fail
    <3> QED  BY <1>0, <2>1, <3>1, NoCallType, TypedAfterRead
  <2> QED  BY <2>2, <2>3
<1>4. CASE NoteRespond(t)
  <2>1. /\ pc[t] = "reread" /\ UNCHANGED <<issued, errors>>
        /\ pc' = [pc EXCEPT ![t] = "idle"] /\ call' = [call EXCEPT ![t] = NoCall]
        /\ replies' = replies \cup {[op |-> "note", id |-> call[t].id, seq |-> call[t].seq,
                                     note |-> notes[call[t].seq]]}
    BY <1>4 DEF NoteRespond, Done, GoTo
  <2>2. notes[call[t].seq] \in Note
    BY <1>0, <2>1 DEF HasLocals, Typed, TypeOK, IsNotes
  <2>3. replies' \subseteq Reply
    BY <1>0, <2>1, <2>2 DEF Reply, Call
  <2> QED  BY <1>0, <2>1, <2>3, NoCallType, TypedAfterRead
<1>5. CASE ListLookup(t)
  <2>1. PICK i \in Incidents, page \in Pages, size \in PageSizes :
          call' = [call EXCEPT ![t] = NewCall(issued + 1, i, page, size)]
    BY <1>5 DEF ListLookup, Receive
  <2> DEFINE c == NewCall(issued + 1, i, page, size)
  <2>2. c \in Call /\ c.incident = i /\ c.page = page /\ c.size = size
    <3>1. /\ issued + 1 \in Nat /\ i \in Incidents \cup {0}
          /\ page \in Pages \cup {0} /\ size \in PageSizes \cup {0}
      BY <1>0
    <3> QED  BY <3>1, NewCallType
  <2>3. pc' = [pc EXCEPT ![t] = "list_rows"] /\ issued' \in Nat /\ UNCHANGED <<replies, errors>>
    BY <1>0, <1>5 DEF ListLookup, GoTo, Receive
  <2> HIDE DEF c
  <2> QED  BY <1>0, <2>1, <2>2, <2>3, TypedAfterRead DEF c
<1>6. CASE ListRows(t)
  <2> DEFINE items == PageRows(call[t])
  <2>1. /\ call' = [call EXCEPT ![t] = [call[t] EXCEPT !.items = items]]
        /\ pc[t] = "list_rows" /\ pc' = [pc EXCEPT ![t] = "list_count"]
        /\ UNCHANGED <<issued, replies, errors>>
    BY <1>6 DEF ListRows, GoTo
  <2>2. items \subseteq Item
    BY <1>0, ItemsType DEF Typed
  <2> HIDE DEF items
  <2>3. /\ call'[t] \in Call /\ call'[t].incident = call[t].incident
        /\ call'[t].page = call[t].page /\ call'[t].size = call[t].size
    BY <1>0, <2>1, <2>2 DEF Call
  <2>4. call' \in [Threads -> Call] /\ \A u \in Threads : u # t => call'[u] = call[u]
    BY <1>0, <2>1, <2>3
  <2> QED  BY <1>0, <2>1, <2>3, <2>4, TypedAfterRead DEF HasLocals
<1>7. CASE ListCount(t)
  <2> DEFINE total == Cardinality(NotesOf(call[t].incident))
  <2>1. /\ pc[t] = "list_count" /\ UNCHANGED <<issued, errors>>
        /\ pc' = [pc EXCEPT ![t] = "idle"] /\ call' = [call EXCEPT ![t] = NoCall]
        /\ ListReply(call[t], total)
    BY <1>7 DEF ListCount, Done, GoTo
  <2>2. total \in Nat
    <3>1. NotesOf(call[t].incident) \in SUBSET DOMAIN notes
      BY DEF NotesOf
    <3> QED  BY <3>1, FS_Subset, FS_CardinalityType DEF Typed, Finite
  <2> HIDE DEF total
  <2>3. replies' \subseteq Reply
    BY <1>0, <2>1, <2>2 DEF Reply, Call, ListReply, HasLocals
  <2> QED  BY <1>0, <2>1, <2>3, NoCallType, TypedAfterRead
<1>8. CASE NotFound(t)
  <2>1. PICK i \in Incidents :
          errors' = errors \cup {[status |-> 404, call |-> NewCall(issued + 1, i, 0, 0)]}
    BY <1>8 DEF NotFound, Fail
  <2>2. /\ pc[t] = "idle" /\ UNCHANGED <<pc, call, replies>> /\ issued' \in Nat
    BY <1>0, <1>8 DEF NotFound, Fail
  <2>3. NewCall(issued + 1, i, 0, 0) \in Call
    BY <1>0, NewCallType
  <2>4. errors' \subseteq [status: {404, 500}, call: Call]
    BY <1>0, <2>1, <2>3
  <2> QED  BY <1>0, <2>2, <2>4, TypedAfterRead
<1> QED
  BY <1>1, <1>2, <1>3, <1>4, <1>5, <1>6, <1>7, <1>8 DEF Reads

\* The notes after an INSERT.
LEMMA InsertedNote ==
    ASSUME Typed, NEW t \in Threads, NoteInsert(t)
    PROVE  /\ call[t].seq \in Nat \ {0}
           /\ notes'[call[t].seq] = NewNote(t)
           /\ DOMAIN notes' = DOMAIN notes \cup {call[t].seq}
           /\ IsNotes(notes') /\ IsFiniteSet(DOMAIN notes')
           /\ Extends(notes, notes')
           /\ storedNotes' = storedNotes
<1>1. /\ notes' = RowAdded(notes, call[t].seq, NewNote(t)) /\ NewNote(t) \in Note
      /\ call[t].seq \notin DOMAIN notes /\ pc[t] = "insert" /\ disk' = disk
  BY InsertEffect DEF Typed
<1>2. call[t].seq \in Nat \ {0} /\ IsNotes(notes) /\ IsFiniteSet(DOMAIN notes)
  BY <1>1 DEF Typed, TypeOK, HasLocals, Finite
<1> HIDE DEF NewNote
<1>3. storedNotes' = storedNotes
  BY <1>1 DEF storedNotes
<1>4. /\ IsNotes(notes') /\ DOMAIN notes' = DOMAIN notes \cup {call[t].seq}
      /\ IsFiniteSet(DOMAIN notes') /\ notes'[call[t].seq] = NewNote(t)
      /\ Extends(notes, notes')
  <2> DEFINE old == notes
             s == call[t].seq
             note == NewNote(t)
             new == notes'
  <2>1. /\ IsNotes(old) /\ IsFiniteSet(DOMAIN old)
        /\ s \in Nat \ {0} /\ s \notin DOMAIN old /\ note \in Note
        /\ new = RowAdded(old, s, note)
    BY <1>1, <1>2
  <2> HIDE DEF old, s, note, new
  <2>2. /\ IsNotes(new) /\ DOMAIN new = DOMAIN old \cup {s} /\ IsFiniteSet(DOMAIN new)
        /\ new[s] = note /\ Extends(old, new)
    BY <2>1, NoteAdded
  <2> QED  BY <2>2 DEF old, s, note, new
<1> QED  BY <1>2, <1>3, <1>4

LEMMA TypedInsert == ASSUME Typed, NEW t \in Threads, NoteInsert(t) PROVE Typed'
<1>1. /\ mem'.incidents = mem.incidents /\ DOMAIN mem' = DOMAIN mem
      /\ disk' = disk /\ inTxn' = TRUE
      /\ pc[t] = "insert" /\ pc' = [pc EXCEPT ![t] = "commit"]
      /\ clock' \in Nat
      /\ UNCHANGED <<opening, call, issued, crashes, replies, errors>>
  BY InsertEffect DEF Typed
<1>2. /\ call[t].seq \in Nat \ {0}
      /\ DOMAIN notes' = DOMAIN notes \cup {call[t].seq}
      /\ IsNotes(notes') /\ IsFiniteSet(DOMAIN notes')
      /\ Extends(notes, notes') /\ storedNotes' = storedNotes
  BY InsertedNote
<1>3. TypeOK'
  BY <1>1, <1>2 DEF Typed, TypeOK, Labels
<1>4. ASSUME NEW u \in Threads PROVE HasLocals(u)'
  BY <1>1, <1>2 DEF Typed, TypeOK, HasLocals
<1>5. Finite' /\ StoredIsOnConnection'
  BY <1>2 DEF Typed, Finite, StoredIsOnConnection, Extends
<1> QED  BY <1>3, <1>4, <1>5 DEF Typed

LEMMA TypedCommits == ASSUME Typed, Commits PROVE Typed'
<1>1. /\ mem' = mem /\ (disk' = mem \/ disk' = disk) /\ inTxn' \in BOOLEAN
      /\ UNCHANGED <<call, clock, issued, crashes, replies, errors>>
      /\ opening' \subseteq opening
      /\ pc' = pc \/ \E t \in Threads : pc[t] = "commit" /\ pc' = [pc EXCEPT ![t] = "reread"]
  BY CommitEffect
<1>2. /\ notes' = notes /\ (storedNotes' = notes \/ storedNotes' = storedNotes)
  BY <1>1 DEF notes, storedNotes
<1>3. TypeOK'
  <2>1. pc' \in [Threads -> Labels]
        /\ \A t \in Threads : pc'[t] # "idle" => call'[t].incident \in Incidents
    BY <1>1 DEF Typed, TypeOK, Labels
  <2>2. /\ IsNotes(notes)' /\ IsNotes(storedNotes)'
        /\ DOMAIN mem' = {"incidents", "work_notes"} /\ DOMAIN disk' = DOMAIN mem'
        /\ DOMAIN mem'.incidents \subseteq Incidents
        /\ DOMAIN disk'.incidents \subseteq Incidents
    BY <1>1, <1>2 DEF Typed, TypeOK, IsNotes
  <2> QED  BY <1>1, <2>1, <2>2 DEF Typed, TypeOK
<1>4. ASSUME NEW u \in Threads PROVE HasLocals(u)'
  BY <1>1, <1>2 DEF Typed, TypeOK, HasLocals
<1>5. Finite' /\ StoredIsOnConnection'
  BY <1>2 DEF Typed, Finite, StoredIsOnConnection, Extends
<1> QED  BY <1>3, <1>4, <1>5 DEF Typed

LEMMA TypedStep == Typed /\ [Next]_vars => Typed'
<1> SUFFICES ASSUME Typed, [Next]_vars PROVE Typed'
  OBVIOUS
<1>1. CASE UNCHANGED vars
  <2>1. UNCHANGED <<mem, disk, inTxn, opening, pc, call, clock, issued, crashes, replies, errors>>
        /\ notes' = notes /\ storedNotes' = storedNotes
    BY <1>1 DEF vars, connVars, notes, storedNotes
  <2> QED
    BY <2>1 DEF Typed, TypeOK, IsNotes, HasLocals, Finite, StoredIsOnConnection, Extends
<1>2. CASE Restart
  <2>1. /\ mem' = disk /\ disk' = disk /\ notes' = storedNotes /\ inTxn' = FALSE
        /\ pc' = [t \in Threads |-> "idle"] /\ call' = [t \in Threads |-> NoCall]
        /\ opening' = {} /\ crashes' = crashes + 1 /\ storedNotes' = storedNotes
        /\ UNCHANGED <<clock, issued, replies, errors>>
    BY <1>2, RestartEffect DEF storedNotes
  <2>3. /\ pc' \in [Threads -> Labels] /\ call' \in [Threads -> Call]
        /\ \A t \in Threads : pc'[t] = "idle"
    BY <2>1, NoCallType DEF Labels
  <2>4. /\ IsNotes(notes') /\ IsNotes(storedNotes')
        /\ DOMAIN mem' = {"incidents", "work_notes"} /\ DOMAIN disk' = DOMAIN mem'
        /\ DOMAIN mem'.incidents \subseteq Incidents
        /\ DOMAIN disk'.incidents \subseteq Incidents
        /\ crashes' \in Nat
    BY <2>1 DEF Typed, TypeOK
  <2>2. TypeOK'
    BY <2>1, <2>3, <2>4 DEF Typed, TypeOK
  <2> QED  BY <2>1, <2>2 DEF Typed, HasLocals, Finite, StoredIsOnConnection, Extends
<1>3. CASE Commits
  BY <1>3, TypedCommits
<1>4. ASSUME NEW i \in Incidents, IncidentInsert(i) PROVE Typed'
  <2>1. /\ notes' = notes /\ DOMAIN mem' = DOMAIN mem
        /\ DOMAIN mem'.incidents = DOMAIN mem.incidents \cup {i}
        /\ disk' = disk /\ inTxn' = TRUE /\ opening' = opening \cup {i}
        /\ UNCHANGED <<pc, call, clock, issued, crashes, replies, errors>>
    BY <1>4, IncidentInsertEffect DEF Typed
  <2>2. storedNotes' = storedNotes
    BY <2>1 DEF storedNotes
  <2>3. TypeOK'
    BY <2>1, <2>2 DEF Typed, TypeOK, IsNotes
  <2> QED
    BY <2>1, <2>2, <2>3 DEF Typed, HasLocals, Finite, StoredIsOnConnection, Extends
<1>5. ASSUME NEW t \in Threads, NoteInsert(t) PROVE Typed'
  BY <1>5, TypedInsert
<1>6. ASSUME NEW t \in Threads, Reads(t) PROVE Typed'
  BY <1>6, TypedRead
<1> QED  BY <1>1, <1>2, <1>3, <1>4, <1>5, <1>6, StepKinds

\* The type invariant, for every value of the constants.
THEOREM TypeCorrect == Spec => []TypeOK
<1>1. Spec => []Typed
  BY TypedInit, TypedStep, PTL DEF Spec
<1>2. Typed => TypeOK
  BY DEF Typed
<1> QED  BY <1>1, <1>2, PTL

-----------------------------------------------------------------------------
(***************************************************************************)
(* What a step does to the handlers, to the tables and to the answers.     *)
(***************************************************************************)
Starts(u) ==
    /\ pc[u] = "idle" /\ pc'[u] \in {"allocate", "list_rows"}
    /\ issued' = issued + 1 /\ call'[u].id = issued'
    /\ call'[u].incident \in DOMAIN mem.incidents
    /\ call'[u].tries = 0 /\ call'[u].items = {}
    /\ UNCHANGED <<mem, disk>>

Allocates(u) ==
    /\ pc[u] = "allocate" /\ pc'[u] = "insert"
    /\ \E n \in NextSeqs : call'[u] = Tries(call[u], n)
    /\ UNCHANGED <<mem, disk, issued>>

TriesAgain(u) ==
    /\ pc[u] = "insert" /\ pc'[u] = "allocate"
    /\ call[u].seq \in DOMAIN notes
    /\ call'[u] = [call[u] EXCEPT !.tries = call[u].tries + 1]
    /\ UNCHANGED <<mem, disk, issued>>

ReadsPage(u) ==
    /\ pc[u] = "list_rows" /\ pc'[u] = "list_count"
    /\ call'[u] = [call[u] EXCEPT !.items = PageRows(call[u])]
    /\ UNCHANGED <<mem, disk, issued>>

\* All that can happen to one handler in one step.
Moves(u) ==
    \/ pc'[u] = pc[u] /\ call'[u] = call[u]
    \/ pc'[u] = "idle" /\ call'[u] = NoCall
    \/ Starts(u)
    \/ Allocates(u)
    \/ TriesAgain(u)
    \/ NoteInsert(u) /\ pc[u] = "insert" /\ pc'[u] = "commit" /\ call'[u] = call[u]
    \/ disk' = mem /\ pc[u] = "commit" /\ pc'[u] = "reread" /\ call'[u] = call[u]
    \/ ReadsPage(u)

\* A handler moves alone, but for a kill.
OthersStay(t) == \A u \in Threads : u # t => pc'[u] = pc[u] /\ call'[u] = call[u]

LEMMA ReadMoves ==
    ASSUME Typed, NEW t \in Threads, Reads(t)
    PROVE  Moves(t) /\ OthersStay(t) /\ issued' \in {issued, issued + 1}
<1>0. /\ pc \in [Threads -> Labels] /\ call \in [Threads -> Call] /\ issued \in Nat
      /\ UNCHANGED <<mem, disk>>
  BY ReadEffect DEF Typed, TypeOK
<1>1. CASE NoteLookup(t)
  <2>1. PICK i \in Incidents : Found(i) /\ Receive(t, NewCall(issued + 1, i, 0, 0))
    BY <1>1 DEF NoteLookup
  <2>2. /\ NewCall(issued + 1, i, 0, 0).id = issued + 1
        /\ NewCall(issued + 1, i, 0, 0).incident = i
        /\ NewCall(issued + 1, i, 0, 0).tries = 0 /\ NewCall(issued + 1, i, 0, 0).items = {}
    BY DEF NewCall
  <2>3. /\ pc[t] = "idle" /\ pc' = [pc EXCEPT ![t] = "allocate"]
        /\ issued' = issued + 1 /\ call' = [call EXCEPT ![t] = NewCall(issued + 1, i, 0, 0)]
        /\ i \in DOMAIN mem.incidents
    BY <1>1, <2>1 DEF NoteLookup, GoTo, Receive, Found
  <2>4. Starts(t) /\ OthersStay(t)
    BY <1>0, <2>2, <2>3 DEF Starts, OthersStay
  <2> QED  BY <2>3, <2>4 DEF Moves
<1>2. CASE NoteAllocate(t)
  <2>1. /\ pc[t] = "allocate" /\ pc' = [pc EXCEPT ![t] = "insert"] /\ issued' = issued
        /\ \E n \in NextSeqs : call' = [call EXCEPT ![t] = Tries(call[t], n)]
    BY <1>2 DEF NoteAllocate, GoTo
  <2>2. Allocates(t) /\ OthersStay(t)
    BY <1>0, <2>1 DEF Allocates, OthersStay
  <2> QED  BY <2>1, <2>2 DEF Moves
<1>3. CASE NoteCollides(t)
  <2>1. pc[t] = "insert" /\ issued' = issued /\ call[t].seq \in DOMAIN notes
    BY <1>3 DEF NoteCollides
  <2>2. CASE call[t].tries + 1 < MaxRetries
    <3>1. /\ pc' = [pc EXCEPT ![t] = "allocate"]
          /\ call' = [call EXCEPT ![t] = [call[t] EXCEPT !.tries = call[t].tries + 1]]
      BY <1>3, <2>2 DEF NoteCollides, GoTo
    <3>2. TriesAgain(t) /\ OthersStay(t)
      BY <1>0, <2>1, <3>1 DEF TriesAgain, OthersStay
    <3> QED  BY <2>1, <3>2 DEF Moves
  <2>3. CASE ~(call[t].tries + 1 < MaxRetries)
    <3>1. /\ pc' = [pc EXCEPT ![t] = "idle"] /\ call' = [call EXCEPT ![t] = NoCall]
      BY <1>3, <2>3 DEF NoteCollides, GoTo, Done
    <3> QED  BY <1>0, <2>1, <3>1 DEF Moves, OthersStay
  <2> QED  BY <2>2, <2>3
<1>4. CASE NoteRespond(t) \/ ListCount(t)
  <2>1. /\ pc' = [pc EXCEPT ![t] = "idle"] /\ call' = [call EXCEPT ![t] = NoCall]
        /\ issued' = issued
    BY <1>4 DEF NoteRespond, ListCount, Done, GoTo
  <2> QED  BY <1>0, <2>1 DEF Moves, OthersStay
<1>5. CASE ListLookup(t)
  <2>1. PICK i \in Incidents, page \in Pages, size \in PageSizes :
          Found(i) /\ Receive(t, NewCall(issued + 1, i, page, size))
    BY <1>5 DEF ListLookup
  <2> DEFINE c == NewCall(issued + 1, i, page, size)
  <2>2. c.id = issued + 1 /\ c.incident = i /\ c.tries = 0 /\ c.items = {}
    <3>1. /\ issued + 1 \in Nat /\ i \in Incidents \cup {0}
          /\ page \in Pages \cup {0} /\ size \in PageSizes \cup {0}
      BY <1>0
    <3> QED  BY <3>1, NewCallType
  <2>3. /\ pc[t] = "idle" /\ pc' = [pc EXCEPT ![t] = "list_rows"]
        /\ issued' = issued + 1 /\ call' = [call EXCEPT ![t] = c]
        /\ i \in DOMAIN mem.incidents
    BY <1>5, <2>1 DEF ListLookup, GoTo, Receive, Found
  <2> HIDE DEF c
  <2>4. Starts(t) /\ OthersStay(t)
    BY <1>0, <2>2, <2>3 DEF Starts, OthersStay
  <2> QED  BY <2>3, <2>4 DEF Moves
<1>6. CASE ListRows(t)
  <2>1. /\ call' = [call EXCEPT ![t] = [call[t] EXCEPT !.items = PageRows(call[t])]]
        /\ pc[t] = "list_rows" /\ pc' = [pc EXCEPT ![t] = "list_count"] /\ issued' = issued
    BY <1>6 DEF ListRows, GoTo
  <2>2. ReadsPage(t) /\ OthersStay(t)
    BY <1>0, <2>1 DEF ReadsPage, OthersStay
  <2> QED  BY <2>1, <2>2 DEF Moves
<1>7. CASE NotFound(t)
  <2>1. UNCHANGED <<pc, call>> /\ issued' = issued + 1
    BY <1>7 DEF NotFound
  <2> QED  BY <2>1 DEF Moves, OthersStay
<1> QED
  BY <1>1, <1>2, <1>3, <1>4, <1>5, <1>6, <1>7 DEF Reads

LEMMA HandlerStep ==
    ASSUME Typed, [Next]_vars
    PROVE  /\ \A u \in Threads : Moves(u)
           /\ \/ pc' = [u \in Threads |-> "idle"]
              \/ \A u \in Threads : pc'[u] = pc[u] /\ call'[u] = call[u]
              \/ \E t \in Threads : OthersStay(t)
           /\ issued' \in {issued, issued + 1}
<1> USE DEF Labels
<1>1. CASE UNCHANGED vars
  BY <1>1 DEF vars, Moves
<1>2. CASE Restart
  BY <1>2, RestartEffect DEF Moves
<1>3. CASE Commits
  <2>1. call' = call /\ issued' = issued
        /\ \/ pc' = pc
           \/ /\ disk' = mem
              /\ \E t \in Threads : pc[t] = "commit" /\ pc' = [pc EXCEPT ![t] = "reread"]
    BY <1>3, CommitEffect
  <2> QED  BY <2>1 DEF Moves, OthersStay, Typed, TypeOK
<1>4. CASE \E i \in Incidents : IncidentInsert(i)
  BY <1>4 DEF IncidentInsert, Moves
<1>5. ASSUME NEW t \in Threads, NoteInsert(t)
      PROVE  Moves(t) /\ OthersStay(t) /\ issued' = issued
  <2>1. /\ pc[t] = "insert" /\ pc' = [pc EXCEPT ![t] = "commit"]
        /\ call' = call /\ issued' = issued
    BY <1>5 DEF NoteInsert, GoTo
  <2> QED  BY <1>5, <2>1 DEF Moves, OthersStay, Typed, TypeOK
<1>6. ASSUME NEW t \in Threads, Moves(t), OthersStay(t) PROVE \A u \in Threads : Moves(u)
  BY <1>6 DEF Moves, OthersStay
<1> QED  BY <1>1, <1>2, <1>3, <1>4, <1>5, <1>6, ReadMoves, StepKinds

\* Notes are only added, one at a time, and a commit saves them all.
LEMMA NotesStep ==
    ASSUME Typed, [Next]_vars
    PROVE  /\ \/ Restart
              \/ notes' = notes /\ storedNotes' \in {notes, storedNotes}
              \/ \E t \in Threads : NoteInsert(t)
           /\ Restart \/ Extends(notes, notes')
           /\ Extends(storedNotes, storedNotes')
<1>1. CASE UNCHANGED vars
  <2>1. notes' = notes /\ storedNotes' = storedNotes
    BY <1>1 DEF vars, connVars, notes, storedNotes
  <2> QED  BY <2>1 DEF Extends
<1>2. CASE Restart
  <2>1. storedNotes' = storedNotes
    BY <1>2, RestartEffect DEF storedNotes
  <2> QED  BY <1>2, <2>1 DEF Extends
<1>3. CASE Commits
  <2>1. notes' = notes /\ storedNotes' \in {notes, storedNotes}
    BY <1>3, CommitEffect DEF notes, storedNotes
  <2> QED  BY <2>1 DEF Extends, Typed, StoredIsOnConnection
<1>4. ASSUME NEW i \in Incidents, IncidentInsert(i)
      PROVE  notes' = notes /\ storedNotes' = storedNotes
  BY <1>4, IncidentInsertEffect DEF Typed, storedNotes
<1>5. ASSUME NEW t \in Threads, NoteInsert(t)
      PROVE  Extends(notes, notes') /\ storedNotes' = storedNotes
  BY <1>5, InsertedNote
<1>6. ASSUME NEW t \in Threads, Reads(t)
      PROVE  notes' = notes /\ storedNotes' = storedNotes
  BY <1>6, ReadEffect DEF notes, storedNotes
<1> QED  BY <1>1, <1>2, <1>3, <1>4, <1>5, <1>6, StepKinds DEF Extends

\* The answer of a POST shows the note it reads back; that of a list, its page.
LEMMA RepliesStep ==
    ASSUME Typed, [Next]_vars, NEW r \in replies', r \notin replies
    PROVE  /\ notes' = notes /\ storedNotes' = storedNotes
           /\ \E t \in Threads :
                \/ /\ r.op = "note" /\ pc[t] = "reread"
                   /\ r.id = call[t].id /\ r.seq = call[t].seq
                   /\ r.note = notes[call[t].seq]
                \/ /\ r.op = "list" /\ pc[t] = "list_count"
                   /\ r.items = call[t].items
                   /\ r.page = call[t].page /\ r.size = call[t].size
<1>1. CASE UNCHANGED vars
  BY <1>1 DEF vars
<1>2. CASE Restart
  BY <1>2 DEF Restart
<1>3. CASE Commits
  BY <1>3, CommitEffect
<1>4. CASE \E i \in Incidents : IncidentInsert(i)
  BY <1>4 DEF IncidentInsert
<1>5. CASE \E t \in Threads : NoteInsert(t)
  BY <1>5 DEF NoteInsert
<1>6. ASSUME NEW t \in Threads, Reads(t)
      PROVE  /\ notes' = notes /\ storedNotes' = storedNotes
             /\ \/ /\ r.op = "note" /\ pc[t] = "reread"
                   /\ r.id = call[t].id /\ r.seq = call[t].seq
                   /\ r.note = notes[call[t].seq]
                \/ /\ r.op = "list" /\ pc[t] = "list_count"
                   /\ r.items = call[t].items
                   /\ r.page = call[t].page /\ r.size = call[t].size
  <2>1. notes' = notes /\ storedNotes' = storedNotes
    BY <1>6, ReadEffect DEF notes, storedNotes
  <2>2. CASE NoteRespond(t)
    BY <2>1, <2>2 DEF NoteRespond
  <2>3. CASE ListCount(t)
    BY <2>1, <2>3 DEF ListCount, ListReply
  <2>4. CASE NoteLookup(t) \/ NoteAllocate(t) \/ ListLookup(t) \/ ListRows(t)
    BY <2>4 DEF NoteLookup, NoteAllocate, ListLookup, ListRows
  <2>5. CASE NoteCollides(t) \/ NotFound(t)
    BY <2>5 DEF NoteCollides, NotFound, Fail
  <2> QED  BY <1>6, <2>2, <2>3, <2>4, <2>5 DEF Reads
<1> QED  BY <1>1, <1>2, <1>3, <1>4, <1>5, <1>6, StepKinds

-----------------------------------------------------------------------------
(***************************************************************************)
(* No orphans.                                                             *)
(***************************************************************************)

\* The handlers whose note is still to be written.
Unwritten == {t \in Threads : pc[t] \in {"allocate", "insert"}}

\* A note that is written goes to an incident that is visible, and is not
\* committed before it: the same commit saves both.
Homed ==
    /\ \A s \in DOMAIN notes : notes[s].incident \in DOMAIN mem.incidents
    /\ NotesHaveIncident
    /\ \A t \in Unwritten : call[t].incident \in DOMAIN mem.incidents

LEMMA UnwrittenStep ==
    ASSUME Typed, [Next]_vars, NEW t \in Unwritten'
    PROVE  \/ /\ t \in Unwritten /\ call'[t].id = call[t].id
              /\ call'[t].incident = call[t].incident
           \/ /\ issued' = issued + 1 /\ call'[t].id = issued'
              /\ call'[t].incident \in DOMAIN mem.incidents
              /\ UNCHANGED <<mem, disk>>
<1>1. t \in Threads /\ pc'[t] \in {"allocate", "insert"} /\ call[t] \in Call
  BY DEF Unwritten, Typed, TypeOK
<1>2. Moves(t)
  BY <1>1, HandlerStep
<1>3. CASE pc'[t] = pc[t] /\ call'[t] = call[t]
  BY <1>1, <1>3 DEF Unwritten
<1>4. CASE Starts(t)
  BY <1>4 DEF Starts
<1>5. CASE Allocates(t)
  <2>1. PICK n \in NextSeqs : call'[t] = Tries(call[t], n)
    BY <1>5 DEF Allocates
  <2>2. n \in Nat
    BY NextSeqIsFree DEF Typed, TypeOK
  <2> QED  BY <1>1, <1>5, <2>1, <2>2, TriesType DEF Allocates, Unwritten
<1>6. CASE TriesAgain(t)
  BY <1>1, <1>6 DEF TriesAgain, Unwritten, Call
<1> QED  BY <1>1, <1>2, <1>3, <1>4, <1>5, <1>6 DEF Moves, ReadsPage

LEMMA HomedInit == Init => Homed
<1> SUFFICES ASSUME Init PROVE Homed
  OBVIOUS
<1>1. storedNotes = notes /\ disk = mem /\ Unwritten = {}
  BY DEF Init, notes, storedNotes, Unwritten
<1> QED  BY <1>1, SeedIsHomed DEF Homed, NotesHaveIncident

LEMMA HomedStep == Typed /\ Homed /\ [Next]_vars => Homed'
<1> SUFFICES ASSUME Typed, Homed, [Next]_vars PROVE Homed'
  OBVIOUS
<1>1. CASE UNCHANGED vars
  BY <1>1 DEF vars, connVars, notes, storedNotes, Homed, NotesHaveIncident, Unwritten
<1>2. CASE Restart
  <2>1. Unwritten' = {} /\ storedNotes' = storedNotes
    BY <1>2, RestartEffect DEF Unwritten, storedNotes
  <2> QED  BY <1>2, <2>1, RestartEffect DEF Homed, NotesHaveIncident
<1>3. ASSUME DOMAIN mem.incidents \subseteq DOMAIN mem'.incidents
      PROVE  \A t \in Unwritten' : call'[t].incident \in DOMAIN mem'.incidents
  BY <1>3, UnwrittenStep DEF Homed
<1>4. CASE Commits
  <2>1. mem' = mem /\ (disk' = mem \/ disk' = disk)
    BY <1>4, CommitEffect
  <2> QED  BY <1>3, <2>1 DEF Homed, NotesHaveIncident, notes, storedNotes
<1>5. ASSUME NEW i \in Incidents, IncidentInsert(i) PROVE Homed'
  <2>1. /\ notes' = notes /\ DOMAIN mem'.incidents = DOMAIN mem.incidents \cup {i}
        /\ disk' = disk
    BY <1>5, IncidentInsertEffect DEF Typed
  <2> QED  BY <1>3, <2>1 DEF Homed, NotesHaveIncident, storedNotes
<1>6. ASSUME NEW t \in Threads, NoteInsert(t) PROVE Homed'
  <2>1. /\ call[t].seq \notin DOMAIN notes
        /\ mem'.incidents = mem.incidents /\ disk' = disk /\ pc[t] = "insert"
    BY <1>6, InsertEffect DEF Typed
  <2>2. /\ notes'[call[t].seq] = NewNote(t)
        /\ DOMAIN notes' = DOMAIN notes \cup {call[t].seq}
        /\ Extends(notes, notes')
    BY <1>6, InsertedNote
  <2>3. NewNote(t).incident \in DOMAIN mem.incidents
    BY <2>1 DEF Homed, Unwritten, NewNote
  <2>4. \A s \in DOMAIN notes' : notes'[s].incident \in DOMAIN mem'.incidents
    BY <2>1, <2>2, <2>3 DEF Homed, Extends
  <2> QED  BY <1>3, <2>1, <2>4 DEF Homed, NotesHaveIncident, storedNotes
<1>7. ASSUME NEW t \in Threads, Reads(t) PROVE Homed'
  <2>1. UNCHANGED <<mem, disk>>
    BY <1>7, ReadEffect
  <2> QED  BY <1>3, <2>1 DEF Homed, NotesHaveIncident, notes, storedNotes
<1> QED  BY <1>1, <1>2, <1>4, <1>5, <1>6, <1>7, StepKinds

\* No note in the file is an orphan, although a note may be posted to an
\* incident that is not committed and no foreign key is enforced.
THEOREM NoOrphans == Spec => []NotesHaveIncident
<1>1. Typed /\ Homed /\ [Next]_vars => (Typed /\ Homed)'
  BY TypedStep, HomedStep
<1>2. Homed => NotesHaveIncident
  BY DEF Homed
<1> QED  BY <1>1, <1>2, TypedInit, HomedInit, PTL DEF Spec

-----------------------------------------------------------------------------
(***************************************************************************)
(* Durability.                                                             *)
(***************************************************************************)

\* What a handler knows of its note at each of its calls, and the answers.
Durable ==
    /\ \A t \in Threads : pc[t] = "commit" => notes[call[t].seq].id = call[t].id
    /\ \A t \in Threads : pc[t] = "reread" =>
         call[t].seq \in DOMAIN storedNotes /\ storedNotes[call[t].seq].id = call[t].id
    /\ AckedNoteIsStored

LEMMA DurableStep == Typed /\ Durable /\ [Next]_vars => Durable'
<1> SUFFICES ASSUME Typed, Durable, [Next]_vars PROVE Durable'
  OBVIOUS
<1>1. /\ Extends(storedNotes, storedNotes')
      /\ Restart \/ Extends(notes, notes')
      /\ StoredIsOnConnection
      /\ \A u \in Threads : pc[u] \in {"commit", "reread"} => call[u].seq \in DOMAIN notes
  BY NotesStep DEF Typed, HasLocals
<1>2. ASSUME NEW u \in Threads, pc'[u] = "commit"
      PROVE  notes'[call'[u].seq].id = call'[u].id
  <2>1. ~Restart
    BY <1>2, RestartEffect
  <2>2. CASE pc'[u] = pc[u] /\ call'[u] = call[u]
    BY <1>1, <1>2, <2>1, <2>2 DEF Durable, Extends
  <2>3. CASE NoteInsert(u) /\ call'[u] = call[u]
    <3>1. NewNote(u).id = call[u].id
      BY DEF NewNote
    <3>2. notes'[call[u].seq] = NewNote(u)
      BY <2>3, InsertedNote
    <3> QED  BY <2>3, <3>1, <3>2
  <2> QED
    BY <1>2, <2>2, <2>3, HandlerStep DEF Moves, Starts, Allocates, TriesAgain, ReadsPage
<1>3. ASSUME NEW u \in Threads, pc'[u] = "reread"
      PROVE  /\ call'[u].seq \in DOMAIN storedNotes'
             /\ storedNotes'[call'[u].seq].id = call'[u].id
  <2>1. CASE pc'[u] = pc[u] /\ call'[u] = call[u]
    BY <1>1, <1>3, <2>1 DEF Durable, Extends
  <2>2. CASE disk' = mem /\ pc[u] = "commit" /\ call'[u] = call[u]
    BY <1>1, <2>2 DEF Durable, notes, storedNotes
  <2> QED
    BY <1>3, <2>1, <2>2, HandlerStep DEF Moves, Starts, Allocates, TriesAgain, ReadsPage
<1>4. ASSUME NEW r \in replies', r.op = "note"
      PROVE  /\ r.seq \in DOMAIN storedNotes' /\ storedNotes'[r.seq] = r.note
             /\ r.note.id = r.id
  <2>1. CASE r \in replies
    BY <1>1, <1>4, <2>1 DEF Durable, AckedNoteIsStored, Extends
  <2>2. CASE r \notin replies
    <3>1. PICK t \in Threads : /\ pc[t] = "reread" /\ r.id = call[t].id
                               /\ r.seq = call[t].seq /\ r.note = notes[call[t].seq]
      BY <1>4, <2>2, RepliesStep
    <3>2. storedNotes' = storedNotes
      BY <2>2, RepliesStep
    <3> QED  BY <1>1, <3>1, <3>2 DEF Durable, StoredIsOnConnection, Extends
  <2> QED  BY <2>1, <2>2
<1> QED  BY <1>2, <1>3, <1>4 DEF Durable, AckedNoteIsStored

\* A 201 promises a note that is in the file for good, as it was answered.
THEOREM NoteDurability == Spec => []AckedNoteIsStored
<1>1. Init => Durable
  BY DEF Init, Durable, AckedNoteIsStored
<1>2. Typed /\ Durable /\ [Next]_vars => (Typed /\ Durable)'
  BY TypedStep, DurableStep
<1>3. Durable => AckedNoteIsStored
  BY DEF Durable
<1> QED  BY <1>1, <1>2, <1>3, TypedInit, PTL DEF Spec

-----------------------------------------------------------------------------
(***************************************************************************)
(* The order of the notes.                                                 *)
(***************************************************************************)

\* Two handlers may hold keys at once, so that a key which was the next one may
\* have been taken; one that is still free is still the next one.
FreeSeqIsNext ==
    \A t \in Threads :
        pc[t] = "insert" /\ call[t].seq \notin DOMAIN notes => call[t].seq \in NextSeqs

InTime ==
    /\ \A s \in DOMAIN notes : notes[s].created <= clock
    /\ \A r, s \in DOMAIN notes : r < s => notes[r].created <= notes[s].created

\* What is not in the file yet comes after all that is.
UncommittedIsLast ==
    \A s \in DOMAIN storedNotes, r \in DOMAIN notes \ DOMAIN storedNotes : s < r

Ordered == FreeSeqIsNext /\ InTime /\ UncommittedIsLast

\* A note that is inserted becomes the last one.
LEMMA InsertedIsLast ==
    ASSUME Typed, Ordered, NEW t \in Threads, NoteInsert(t)
    PROVE  /\ call[t].seq \in NextSeqs /\ call[t].seq \notin DOMAIN notes
           /\ \A s \in DOMAIN notes : /\ s \in Nat /\ s < call[t].seq
                                      /\ notes[s].created \in Nat
                                      /\ notes[s].created <= clock'
                                      /\ notes'[s] = notes[s]
           /\ notes'[call[t].seq].created = clock'
           /\ DOMAIN notes' = DOMAIN notes \cup {call[t].seq}
           /\ call[t].seq \in Nat /\ clock' \in Nat
<1>1. /\ call[t].seq \notin DOMAIN notes /\ pc[t] = "insert"
      /\ clock \in Nat /\ clock' \in Nat /\ clock <= clock'
  BY InsertEffect DEF Typed, TypeOK
<1>2. call[t].seq \in NextSeqs
  BY <1>1 DEF Ordered, FreeSeqIsNext
<1>3. \A s \in DOMAIN notes : s \in Nat /\ s < call[t].seq
  BY <1>2 DEF NextSeqs, Typed, TypeOK, IsNotes
<1>4. \A s \in DOMAIN notes : /\ notes[s].created \in Nat
                              /\ notes[s].created <= clock'
  BY <1>1 DEF Ordered, InTime, Typed, TypeOK, IsNotes, Note
<1>5. /\ notes'[call[t].seq] = NewNote(t) /\ call[t].seq \in Nat
      /\ DOMAIN notes' = DOMAIN notes \cup {call[t].seq}
      /\ \A s \in DOMAIN notes : notes'[s] = notes[s]
  BY InsertedNote DEF Extends
<1>6. NewNote(t).created = clock'
  BY DEF NewNote
<1> QED  BY <1>1, <1>2, <1>3, <1>4, <1>5, <1>6

LEMMA OrderedInit == Init => Ordered
<1> SUFFICES ASSUME Init PROVE Ordered
  OBVIOUS
<1>1. storedNotes = notes /\ clock = 0 /\ \A t \in Threads : pc[t] = "idle"
  BY DEF Init, notes, storedNotes
<1>2. \A s \in DOMAIN notes : notes[s].created = 0
  BY SeedIsHomed
<1> QED  BY <1>1, <1>2 DEF Ordered, FreeSeqIsNext, InTime, UncommittedIsLast

LEMMA OrderedStep == Typed /\ Ordered /\ [Next]_vars => Ordered'
<1> SUFFICES ASSUME Typed, Ordered, [Next]_vars PROVE Ordered'
  OBVIOUS
<1>0. /\ IsNotes(notes) /\ IsNotes(storedNotes) /\ clock \in Nat
      /\ Extends(storedNotes, notes) /\ call \in [Threads -> Call]
  BY DEF Typed, TypeOK, StoredIsOnConnection
<1>1. CASE Restart
  <2>1. notes' = storedNotes /\ storedNotes' = storedNotes /\ clock' = clock
        /\ \A t \in Threads : pc'[t] = "idle"
    BY <1>1, RestartEffect DEF storedNotes
  <2> QED
    BY <1>0, <2>1 DEF Ordered, FreeSeqIsNext, InTime, UncommittedIsLast, Extends
<1>2. ASSUME NEW t \in Threads, NoteInsert(t) PROVE Ordered'
  <2> DEFINE k == call[t].seq
  <2>1. /\ k \in NextSeqs /\ k \notin DOMAIN notes /\ k \in Nat /\ clock' \in Nat
        /\ \A s \in DOMAIN notes :
             /\ s \in Nat /\ s < k /\ notes[s].created \in Nat
             /\ notes[s].created <= clock' /\ notes'[s] = notes[s]
        /\ notes'[k].created = clock'
        /\ DOMAIN notes' = DOMAIN notes \cup {k}
    BY <1>2, InsertedIsLast
  <2>2. storedNotes' = storedNotes /\ DOMAIN storedNotes \subseteq DOMAIN notes
    BY <1>0, <1>2, InsertedNote DEF Extends
  <2> HIDE DEF k
  <2>3. InTime'
    BY <2>1 DEF Ordered, InTime
  <2>4. UncommittedIsLast'
    BY <2>1, <2>2 DEF Ordered, UncommittedIsLast
  <2>5. ASSUME NEW u \in Threads, pc'[u] = "insert", call'[u].seq \notin DOMAIN notes'
        PROVE  FALSE
    <3>1. pc[u] = "insert" /\ call'[u].seq = call[u].seq /\ call[u].seq \notin DOMAIN notes
      BY <1>2, <2>1, <2>5, InsertEffect DEF Typed, TypeOK
    <3>2. call[u].seq \in NextSeqs
      BY <3>1 DEF Ordered, FreeSeqIsNext
    <3>3. call[u].seq = k
      BY <1>0, <2>1, <3>2, NextSeqIsFree
    <3> QED  BY <2>1, <2>5, <3>1, <3>3
  <2> QED  BY <2>3, <2>4, <2>5 DEF Ordered, FreeSeqIsNext
<1>3. ASSUME ~Restart, \A t \in Threads : ~NoteInsert(t) PROVE Ordered'
  <2>1. notes' = notes /\ storedNotes' \in {notes, storedNotes}
    BY <1>3, NotesStep
  <2>2. clock' \in Nat /\ clock <= clock'
    <3>1. clock' = clock
      BY <1>3, StepKinds, CommitEffect, ReadEffect DEF vars, IncidentInsert
    <3> QED  BY <1>0, <3>1
  <2>3. InTime' /\ UncommittedIsLast'
    BY <1>0, <2>1, <2>2 DEF Ordered, InTime, UncommittedIsLast, IsNotes, Note
  <2>4. ASSUME NEW u \in Threads, pc'[u] = "insert"
        PROVE  call'[u].seq \notin DOMAIN notes' => call'[u].seq \in NextSeqs'
    <3>1. NextSeqs' = NextSeqs
      BY <2>1 DEF NextSeqs
    <3>2. CASE pc'[u] = pc[u] /\ call'[u] = call[u]
      BY <2>1, <2>4, <3>1, <3>2 DEF Ordered, FreeSeqIsNext
    <3>3. CASE Allocates(u)
      <4>1. PICK n \in NextSeqs : call'[u] = Tries(call[u], n)
        BY <3>3 DEF Allocates
      <4>2. call'[u].seq = n
        BY <1>0, <4>1, NextSeqIsFree, TriesType
      <4> QED  BY <3>1, <4>2
    <3> QED
      BY <2>4, <3>2, <3>3, HandlerStep DEF Moves, Starts, TriesAgain, ReadsPage
  <2> QED  BY <2>3, <2>4 DEF Ordered, FreeSeqIsNext
<1> QED  BY <1>1, <1>2, <1>3

\* The sys_ids are in the order in which the notes were written, whatever keys
\* the retries went through.
THEOREM TimelineInOrder == Spec => []NotesInOrder
<1>1. Typed /\ Ordered /\ [Next]_vars => (Typed /\ Ordered)'
  BY TypedStep, OrderedStep
<1>2. Ordered => NotesInOrder
  BY DEF Ordered, InTime, NotesInOrder
<1> QED  BY <1>1, <1>2, TypedInit, OrderedInit, PTL DEF Spec

-----------------------------------------------------------------------------
(***************************************************************************)
(* Whose note is whose.                                                    *)
(***************************************************************************)

\* A note that no handler has still to write.
Foreign(note) == note.id <= issued /\ \A t \in Unwritten : note.id # call[t].id

\* Every request has an identity of its own, and the notes there are, and those
\* that have been listed, do not come from a request that is yet to write one.
Fresh ==
    /\ \A s \in DOMAIN notes : Foreign(notes[s])
    /\ \A t \in Threads : pc[t] # "idle" => call[t].id <= issued
    /\ \A t, u \in Threads :
         t # u /\ pc[t] # "idle" /\ pc[u] # "idle" => call[t].id # call[u].id
    /\ \A t \in Threads : \A item \in call[t].items : Foreign(item.note)
    /\ \A r \in replies : r.op = "list" => \A item \in r.items : Foreign(item.note)

StillForeign(note) ==
    note.id <= issued' /\ \A t \in Unwritten' : note.id # call'[t].id

LEMMA ForeignKept ==
    ASSUME Typed, [Next]_vars, NEW note, note.id \in Nat, Foreign(note)
    PROVE  StillForeign(note)
<1>1. issued \in Nat /\ issued' \in {issued, issued + 1}
  BY HandlerStep DEF Typed, TypeOK
<1>2. ASSUME NEW t \in Unwritten' PROVE note.id # call'[t].id
  BY <1>1, <1>2, UnwrittenStep DEF Foreign
<1> QED  BY <1>1, <1>2 DEF Foreign, StillForeign

\* A handler keeps the identity of its request.
LEMMA IdKept ==
    ASSUME Typed, [Next]_vars, NEW u \in Threads, pc'[u] # "idle"
    PROVE  \/ pc[u] # "idle" /\ call'[u].id = call[u].id
           \/ pc[u] = "idle" /\ issued' = issued + 1 /\ call'[u].id = issued'
           \/ pc'[u] = pc[u] /\ call'[u] = call[u]
<1>1. Moves(u) /\ call[u] \in Call
  BY HandlerStep DEF Typed, TypeOK
<1>2. CASE Starts(u)
  BY <1>2 DEF Starts
<1>3. CASE Allocates(u)
  <2>1. PICK n \in NextSeqs : call'[u] = Tries(call[u], n)
    BY <1>3 DEF Allocates
  <2>2. n \in Nat
    BY NextSeqIsFree DEF Typed, TypeOK
  <2> QED  BY <1>1, <1>3, <2>1, <2>2, TriesType DEF Allocates
<1>4. CASE TriesAgain(u)
  BY <1>1, <1>4 DEF TriesAgain, Call
<1>5. CASE ReadsPage(u)
  BY <1>1, <1>5 DEF ReadsPage, Call
<1> QED  BY <1>1, <1>2, <1>3, <1>4, <1>5 DEF Moves

LEMMA ItemsKept ==
    ASSUME Typed, [Next]_vars, NEW u \in Threads, NEW item \in call'[u].items
    PROVE  \/ item \in call[u].items /\ pc'[u] = pc[u] /\ call'[u] = call[u]
           \/ item \in call[u].items /\ call'[u].items = call[u].items
              /\ pc'[u] # "list_count"
           \/ ReadsPage(u) /\ item \in PageRows(call[u])
<1>1. Moves(u) /\ call[u] \in Call
  BY HandlerStep DEF Typed, TypeOK
<1>2. CASE Starts(u) \/ call'[u] = NoCall
  BY <1>2, NoCallType DEF Starts
<1>3. CASE Allocates(u)
  <2>1. PICK n \in NextSeqs : call'[u] = Tries(call[u], n)
    BY <1>3 DEF Allocates
  <2>2. n \in Nat
    BY NextSeqIsFree DEF Typed, TypeOK
  <2> QED  BY <1>1, <1>3, <2>1, <2>2, TriesType DEF Allocates
<1>4. CASE TriesAgain(u)
  BY <1>1, <1>4 DEF TriesAgain, Call
<1>5. CASE ReadsPage(u)
  BY <1>1, <1>5 DEF ReadsPage, Call
<1> QED  BY <1>1, <1>2, <1>3, <1>4, <1>5 DEF Moves

LEMMA FreshInit == Init => Fresh
<1> SUFFICES ASSUME Init PROVE Fresh
  OBVIOUS
<1>1. /\ issued = 0 /\ replies = {} /\ Unwritten = {}
      /\ \A t \in Threads : pc[t] = "idle" /\ call[t] = NoCall
  BY DEF Init, Unwritten
<1> QED  BY <1>1, SeedIsHomed, NoCallType DEF Fresh, Foreign

LEMMA FreshStep == Typed /\ Fresh /\ [Next]_vars => Fresh'
<1> SUFFICES ASSUME Typed, Fresh, [Next]_vars PROVE Fresh'
  OBVIOUS
<1>0. /\ issued \in Nat /\ issued' \in {issued, issued + 1}
      /\ call \in [Threads -> Call] /\ IsNotes(notes) /\ IsNotes(storedNotes)
      /\ Extends(storedNotes, notes)
  BY HandlerStep DEF Typed, TypeOK, StoredIsOnConnection
<1>1. ASSUME NEW s \in DOMAIN notes PROVE StillForeign(notes[s])
  <2>1. notes[s].id \in Nat /\ Foreign(notes[s])
    BY <1>0 DEF IsNotes, Note, Fresh
  <2> QED  BY <2>1, ForeignKept
<1>2. ASSUME NEW s \in DOMAIN notes' PROVE StillForeign(notes'[s])
  <2>1. CASE s \in DOMAIN notes /\ notes'[s] = notes[s]
    BY <1>1, <2>1
  <2>2. CASE ~(s \in DOMAIN notes /\ notes'[s] = notes[s])
    <3>1. PICK t \in Threads : NoteInsert(t)
      BY <1>0, <1>2, <2>2, NotesStep, RestartEffect DEF Extends
    <3>2. notes'[s] = NewNote(t) /\ NewNote(t).id = call[t].id
      BY <1>2, <2>2, <3>1, InsertedNote DEF Extends, NewNote
    <3>3. /\ pc[t] = "insert" /\ pc' = [pc EXCEPT ![t] = "commit"]
          /\ call' = call /\ issued' = issued
      BY <3>1, InsertEffect DEF Typed
    <3>4. call[t].id <= issued
      BY <3>3 DEF Fresh
    <3>5. ASSUME NEW u \in Unwritten' PROVE u # t /\ u \in Unwritten
      BY <3>3, <3>5 DEF Unwritten, Typed, TypeOK
    <3>6. \A u \in Unwritten' : call[t].id # call'[u].id
      BY <3>3, <3>5 DEF Fresh, Unwritten
    <3> QED  BY <3>2, <3>3, <3>4, <3>6 DEF StillForeign
  <2> QED  BY <2>1, <2>2
<1>3. ASSUME NEW u \in Threads, pc'[u] # "idle" PROVE call'[u].id <= issued'
  <2>1. call[u].id \in Nat
    BY <1>0 DEF Call
  <2> QED  BY <1>0, <1>3, <2>1, IdKept DEF Fresh
<1>4. ASSUME NEW t \in Threads, NEW u \in Threads, t # u,
             pc'[t] # "idle", pc'[u] # "idle"
      PROVE  call'[t].id # call'[u].id
  <2>1. call[t].id \in Nat /\ call[u].id \in Nat
    BY <1>0 DEF Call
  <2>2. pc[t] # "idle" => call[t].id <= issued
    BY DEF Fresh
  <2>3. pc[u] # "idle" => call[u].id <= issued
    BY DEF Fresh
  <2>4. pc[t] # "idle" /\ pc[u] # "idle" => call[t].id # call[u].id
    BY <1>4 DEF Fresh
  <2>5. \/ pc'[t] = pc[t] /\ call'[t] = call[t]
        \/ pc'[u] = pc[u] /\ call'[u] = call[u]
    BY <1>4, HandlerStep DEF OthersStay
  <2> QED  BY <1>0, <1>4, <2>1, <2>2, <2>3, <2>4, <2>5, IdKept
<1>5. ASSUME NEW u \in Threads, NEW item \in call'[u].items PROVE StillForeign(item.note)
  <2>1. CASE item \in call[u].items
    <3>1. item.note.id \in Nat /\ Foreign(item.note)
      BY <1>0, <2>1 DEF Call, Item, Note, Fresh
    <3> QED  BY <3>1, ForeignKept
  <2>2. CASE item \in PageRows(call[u])
    <3>1. item.note = notes[item.seq] /\ item.seq \in DOMAIN notes
      BY <1>0, <2>2, ItemsType DEF Typed, NotesOf
    <3> QED  BY <1>1, <3>1
  <2> QED  BY <1>5, <2>1, <2>2, ItemsKept
<1>6. ASSUME NEW r \in replies', r.op = "list", NEW item \in r.items
      PROVE  StillForeign(item.note)
  <2>1. CASE r \in replies
    <3>1. item.note.id \in Nat /\ Foreign(item.note)
      BY <1>6, <2>1 DEF Typed, TypeOK, Reply, Item, Note, Fresh
    <3> QED  BY <3>1, ForeignKept
  <2>2. CASE r \notin replies
    <3>1. PICK t \in Threads : r.items = call[t].items
      BY <1>6, <2>2, RepliesStep
    <3>2. item.note.id \in Nat /\ Foreign(item.note)
      BY <1>0, <1>6, <3>1 DEF Call, Item, Note, Fresh
    <3> QED  BY <3>2, ForeignKept
  <2> QED  BY <2>1, <2>2
<1> QED  BY <1>2, <1>3, <1>4, <1>5, <1>6 DEF Fresh, Foreign, StillForeign

-----------------------------------------------------------------------------
(***************************************************************************)
(* Why a POST gives up.                                                    *)
(***************************************************************************)

\* The notes of others from the first key that a POST tried, and those of them
\* that come before the key it is trying.
Others(table, c) == {s \in DOMAIN table : s >= c.first /\ table[s].id # c.id}

OthersBefore(table, c) == {s \in Others(table, c) : s < c.seq}

\* Each try that was lost was lost to another note.
Contended ==
    /\ \A t \in Threads : pc[t] = "allocate" =>
         Cardinality(Others(notes, call[t])) >= call[t].tries
    /\ \A t \in Threads : pc[t] = "insert" =>
         /\ call[t].first <= call[t].seq
         /\ Cardinality(OthersBefore(notes, call[t])) >= call[t].tries
    /\ GivesUpOnlyUnderContention

LEMMA OthersGrow ==
    ASSUME NEW old, NEW new, Extends(old, new), IsFiniteSet(DOMAIN old),
           IsFiniteSet(DOMAIN new), NEW c
    PROVE  /\ Cardinality(Others(old, c)) \in Nat
           /\ Cardinality(OthersBefore(old, c)) \in Nat
           /\ Cardinality(Others(new, c)) \in Nat
           /\ Cardinality(OthersBefore(new, c)) \in Nat
           /\ Cardinality(Others(old, c)) <= Cardinality(Others(new, c))
           /\ Cardinality(OthersBefore(old, c)) <= Cardinality(OthersBefore(new, c))
           /\ Cardinality(OthersBefore(old, c)) <= Cardinality(Others(old, c))
<1>1. /\ Others(old, c) \in SUBSET Others(new, c)
      /\ OthersBefore(old, c) \in SUBSET OthersBefore(new, c)
  BY DEF Others, OthersBefore, Extends
<1>2. /\ Others(old, c) \in SUBSET DOMAIN old /\ Others(new, c) \in SUBSET DOMAIN new
      /\ OthersBefore(old, c) \in SUBSET Others(old, c)
      /\ OthersBefore(new, c) \in SUBSET Others(new, c)
  BY DEF Others, OthersBefore
<1>3. IsFiniteSet(Others(old, c)) /\ IsFiniteSet(Others(new, c))
  BY <1>2, FS_Subset
<1>4. IsFiniteSet(OthersBefore(old, c)) /\ IsFiniteSet(OthersBefore(new, c))
  BY <1>2, <1>3, FS_Subset
<1>5. /\ Cardinality(Others(old, c)) <= Cardinality(Others(new, c))
      /\ Cardinality(OthersBefore(old, c)) <= Cardinality(OthersBefore(new, c))
      /\ Cardinality(OthersBefore(old, c)) <= Cardinality(Others(old, c))
  BY <1>1, <1>2, <1>3, <1>4, FS_Subset
<1> QED  BY <1>3, <1>4, <1>5, FS_CardinalityType

\* A collision is with a note of somebody else, at the key that was tried.
LEMMA CollisionIsWithOther ==
    ASSUME Typed, Fresh, Contended, NEW t \in Threads, pc[t] = "insert",
           call[t].seq \in DOMAIN notes
    PROVE  Cardinality(Others(notes, call[t])) >= call[t].tries + 1
<1> DEFINE c == call[t]
           B == OthersBefore(notes, c)
<1>1. c \in Call /\ c.first <= c.seq /\ Cardinality(B) >= c.tries
  BY DEF Typed, TypeOK, Contended
<1>2. c.seq \in Nat /\ notes[c.seq].id # c.id
  BY <1>1 DEF Fresh, Foreign, Unwritten, Call
<1>3. B \cup {c.seq} \in SUBSET Others(notes, c) /\ c.seq \notin B
  BY <1>1, <1>2 DEF Others, OthersBefore, Call
<1>4. IsFiniteSet(Others(notes, c))
  <2>1. Others(notes, c) \in SUBSET DOMAIN notes
    BY DEF Others
  <2> QED  BY <2>1, FS_Subset DEF Typed, Finite
<1>5. IsFiniteSet(B) /\ Cardinality(B) \in Nat
  BY <1>3, <1>4, FS_Subset, FS_CardinalityType DEF OthersBefore
<1>6. Cardinality(B \cup {c.seq}) = Cardinality(B) + 1
  BY <1>3, <1>5, FS_AddElement
<1>7. Cardinality(B \cup {c.seq}) <= Cardinality(Others(notes, c))
  BY <1>3, <1>4, FS_Subset
<1>8. Cardinality(Others(notes, c)) \in Nat /\ c.tries \in Nat
  BY <1>1, <1>4, FS_CardinalityType DEF Call
<1> HIDE DEF B
<1> QED  BY <1>1, <1>5, <1>6, <1>7, <1>8

LEMMA ErrorsStep ==
    ASSUME Typed, [Next]_vars, NEW e \in errors', e \notin errors, e.status = 500
    PROVE  \E t \in Threads : /\ pc[t] = "insert" /\ call[t].seq \in DOMAIN notes
                              /\ call[t].tries + 1 >= MaxRetries
                              /\ e.call = call[t] /\ notes' = notes
<1>1. CASE UNCHANGED vars
  BY <1>1 DEF vars
<1>2. CASE Restart
  BY <1>2 DEF Restart
<1>3. CASE Commits
  BY <1>3, CommitEffect
<1>4. CASE \E i \in Incidents : IncidentInsert(i)
  BY <1>4 DEF IncidentInsert
<1>5. CASE \E t \in Threads : NoteInsert(t)
  BY <1>5 DEF NoteInsert
<1>6. ASSUME NEW t \in Threads, Reads(t)
      PROVE  /\ pc[t] = "insert" /\ call[t].seq \in DOMAIN notes
             /\ call[t].tries + 1 >= MaxRetries /\ e.call = call[t] /\ notes' = notes
  <2>0. mem' = mem
    BY <1>6, ReadEffect
  <2>1. notes' = notes
    BY <2>0 DEF notes
  <2>2. CASE NoteRespond(t) \/ ListCount(t)
    BY <2>2 DEF NoteRespond, ListCount
  <2>3. CASE NoteLookup(t) \/ NoteAllocate(t) \/ ListLookup(t) \/ ListRows(t)
    BY <2>3 DEF NoteLookup, NoteAllocate, ListLookup, ListRows
  <2>4. CASE NotFound(t)
    <3>1. PICK c : errors' = errors \cup {[status |-> 404, call |-> c]}
      BY <2>4 DEF NotFound, Fail
    <3> QED  BY <3>1
  <2>5. CASE NoteCollides(t)
    <3>1. call[t].tries \in Nat /\ MaxRetries \in Nat
      BY WorkNotesAssumption DEF Typed, TypeOK, Call
    <3>2. ~(call[t].tries + 1 < MaxRetries)
      BY <2>5 DEF NoteCollides
    <3>3. errors' = errors \cup {[status |-> 500, call |-> call[t]]}
      BY <2>5, <3>2 DEF NoteCollides, Fail
    <3> QED  BY <2>1, <2>5, <3>1, <3>2, <3>3 DEF NoteCollides
  <2> QED  BY <1>6, <2>2, <2>3, <2>4, <2>5 DEF Reads
<1> QED  BY <1>1, <1>2, <1>3, <1>4, <1>5, <1>6, StepKinds

LEMMA ContendedStep == Typed /\ Fresh /\ Contended /\ [Next]_vars => Contended'
<1> SUFFICES ASSUME Typed, Fresh, Contended, [Next]_vars PROVE Contended'
  OBVIOUS
<1>0. /\ crashes \in Nat /\ call \in [Threads -> Call] /\ IsNotes(notes)
      /\ IsFiniteSet(DOMAIN notes) /\ IsFiniteSet(DOMAIN notes')
      /\ Extends(notes, notes) /\ MaxRetries \in Nat
  BY TypedStep, WorkNotesAssumption DEF Typed, TypeOK, Finite, Extends
<1>1. CASE Restart
  <2>1. /\ \A t \in Threads : pc'[t] = "idle"
        /\ crashes' = crashes + 1
    BY <1>1, RestartEffect
  <2> QED  BY <1>0, <2>1 DEF Contended, GivesUpOnlyUnderContention
<1>2. CASE ~Restart
  <2>1. Extends(notes, notes')
    BY <1>2, NotesStep
  <2>2. crashes' = crashes
    BY <1>2, StepKinds, CommitEffect, ReadEffect DEF vars, IncidentInsert, NoteInsert
  <2>3. ASSUME NEW t \in Threads, pc'[t] = "allocate"
        PROVE  Cardinality(Others(notes', call'[t])) >= call'[t].tries
    <3>1. CASE pc'[t] = pc[t] /\ call'[t] = call[t]
      <4>1. Cardinality(Others(notes, call[t])) >= call[t].tries /\ call[t].tries \in Nat
        BY <1>0, <2>3, <3>1 DEF Contended, Call
      <4> QED  BY <1>0, <2>1, <3>1, <4>1, OthersGrow
    <3>2. CASE Starts(t)
      BY <1>0, <2>1, <3>2, OthersGrow DEF Starts
    <3>3. CASE TriesAgain(t)
      <4>1. /\ call'[t].first = call[t].first /\ call'[t].id = call[t].id
            /\ call'[t].tries = call[t].tries + 1 /\ call[t].tries \in Nat
        BY <1>0, <3>3 DEF TriesAgain, Call
      <4>2. Others(notes', call'[t]) = Others(notes', call[t])
        BY <4>1 DEF Others
      <4>3. Cardinality(Others(notes, call[t])) >= call[t].tries + 1
        BY <3>3, CollisionIsWithOther DEF TriesAgain
      <4> QED  BY <1>0, <2>1, <4>1, <4>2, <4>3, OthersGrow
    <3> QED  BY <2>3, <3>1, <3>2, <3>3, HandlerStep DEF Moves, Allocates, ReadsPage
  <2>4. ASSUME NEW t \in Threads, pc'[t] = "insert"
        PROVE  /\ call'[t].first <= call'[t].seq
               /\ Cardinality(OthersBefore(notes', call'[t])) >= call'[t].tries
    <3>1. CASE pc'[t] = pc[t] /\ call'[t] = call[t]
      <4>1. /\ Cardinality(OthersBefore(notes, call[t])) >= call[t].tries
            /\ call[t].tries \in Nat /\ call[t].first <= call[t].seq
        BY <1>0, <2>4, <3>1 DEF Contended, Call
      <4> QED  BY <1>0, <2>1, <3>1, <4>1, OthersGrow
    <3>2. CASE Allocates(t)
      <4>1. PICK n \in NextSeqs : call'[t] = Tries(call[t], n)
        BY <3>2 DEF Allocates
      <4>2. n \in Nat /\ \A k \in DOMAIN notes : k \in Nat /\ k < n
        BY <1>0, <4>1, NextSeqIsFree DEF NextSeqs, IsNotes
      <4> DEFINE c == call[t]
                 d == call'[t]
      <4>3. /\ d.seq = n /\ d.first = (IF c.tries = 0 THEN n ELSE c.first)
            /\ d.id = c.id /\ d.tries = c.tries
            /\ c.tries \in Nat /\ c.first \in Nat
            /\ Cardinality(Others(notes, c)) >= c.tries
        BY <1>0, <3>2, <4>1, <4>2, TriesType DEF Allocates, Contended, Call
      <4>4. notes' = notes
        BY <3>2 DEF Allocates, notes
      <4> HIDE DEF c, d
      <4>5. CASE c.tries = 0
        BY <1>0, <2>1, <4>2, <4>3, <4>4, <4>5, OthersGrow DEF d
      <4>6. CASE c.tries # 0
        <5>1. OthersBefore(notes, d) = Others(notes, c)
          BY <4>2, <4>3, <4>6 DEF Others, OthersBefore
        <5>2. Others(notes, c) # {}
          BY <4>3, <4>6, FS_EmptySet
        <5>3. PICK k \in DOMAIN notes : k >= c.first
          BY <5>2 DEF Others
        <5>4. c.first <= n
          BY <4>2, <4>3, <5>3
        <5> QED  BY <4>3, <4>4, <4>6, <5>1, <5>4 DEF d
      <4> QED  BY <4>5, <4>6
    <3> QED  BY <2>4, <3>1, <3>2, HandlerStep DEF Moves, Starts, TriesAgain, ReadsPage
  <2>5. ASSUME crashes' = 0, NEW e \in errors', e.status = 500
        PROVE  Cardinality(Others(notes', e.call)) >= MaxRetries
    <3>1. CASE e \in errors
      <4>1. Cardinality(Others(notes, e.call)) >= MaxRetries
        BY <2>2, <2>5, <3>1 DEF Contended, GivesUpOnlyUnderContention, Others
      <4> QED  BY <1>0, <2>1, <4>1, OthersGrow
    <3>2. CASE e \notin errors
      <4>1. PICK t \in Threads : /\ pc[t] = "insert" /\ call[t].seq \in DOMAIN notes
                                 /\ call[t].tries + 1 >= MaxRetries
                                 /\ e.call = call[t] /\ notes' = notes
        BY <2>5, <3>2, ErrorsStep
      <4>2. Cardinality(Others(notes, call[t])) >= call[t].tries + 1
        BY <4>1, CollisionIsWithOther
      <4>3. call[t].tries \in Nat /\ Cardinality(Others(notes, call[t])) \in Nat
        BY <1>0, OthersGrow DEF Call
      <4> QED  BY <1>0, <4>1, <4>2, <4>3
    <3> QED  BY <3>1, <3>2
  <2>6. GivesUpOnlyUnderContention'
    BY <2>5 DEF GivesUpOnlyUnderContention, Others
  <2> QED  BY <2>3, <2>4, <2>6 DEF Contended
<1> QED  BY <1>1, <1>2

\* A POST gives up only after losing each of its tries to another note.
THEOREM GivingUpMeansContention == Spec => []GivesUpOnlyUnderContention
<1>1. Init => Contended
  BY DEF Init, Contended, GivesUpOnlyUnderContention
<1>2. Typed /\ Fresh /\ Contended /\ [Next]_vars => (Typed /\ Fresh /\ Contended)'
  BY TypedStep, FreshStep, ContendedStep
<1>3. Contended => GivesUpOnlyUnderContention
  BY DEF Contended
<1> QED  BY <1>1, <1>2, <1>3, TypedInit, FreshInit, PTL DEF Spec

-----------------------------------------------------------------------------
(***************************************************************************)
(* Pages.                                                                  *)
(***************************************************************************)

\* What was on a page when it was read still is, unless it is gone.
Paged ==
    /\ \A t \in Threads : pc[t] = "list_count" =>
         \A item \in call[t].items :
             StillShown(item) => InPage(Rank(item.seq), call[t].page, call[t].size)
    /\ PagesAreStable

Earlier(s) == {r \in NotesOf(notes[s].incident) : Before(r, s)}

\* New notes come last, and a kill takes the last ones: nothing comes, or goes,
\* in front of a note.
LEMMA RankKept ==
    ASSUME Typed, Ordered, [Next]_vars, NEW s \in DOMAIN notes, s \in DOMAIN notes',
           notes'[s] = notes[s]
    PROVE  Rank(s)' = Rank(s)
<1>0. /\ IsNotes(notes) /\ Extends(storedNotes, notes) /\ s \in Nat
      /\ \A r \in DOMAIN notes : notes[r].created \in Nat /\ r \in Nat
  BY DEF Typed, TypeOK, StoredIsOnConnection, IsNotes, Note
<1>1. ASSUME NEW r \in DOMAIN notes, r \in DOMAIN notes', notes'[r] = notes[r]
      PROVE  r \in Earlier(s)' <=> r \in Earlier(s)
  BY <1>1 DEF Earlier, NotesOf, Before
<1>2. CASE Restart
  <2>1. notes' = storedNotes
    BY <1>2, RestartEffect
  <2>2. ASSUME NEW r \in DOMAIN notes, r \notin DOMAIN storedNotes
        PROVE  r \notin Earlier(s)
    <3>1. s < r /\ notes[s].created <= notes[r].created
      BY <2>1, <2>2 DEF Ordered, UncommittedIsLast, InTime
    <3> QED  BY <1>0, <3>1 DEF Earlier, Before
  <2>3. Earlier(s) \subseteq DOMAIN notes /\ Earlier(s)' \subseteq DOMAIN storedNotes
    BY <2>1 DEF Earlier, NotesOf
  <2>4. Earlier(s)' = Earlier(s)
    BY <1>0, <1>1, <2>1, <2>2, <2>3 DEF Extends
  <2> QED  BY <2>4 DEF Rank, Earlier
<1>3. ASSUME NEW t \in Threads, NoteInsert(t) PROVE Rank(s)' = Rank(s)
  <2> DEFINE k == call[t].seq
  <2>1. /\ k \notin DOMAIN notes /\ k \in Nat /\ clock' \in Nat
        /\ \A r \in DOMAIN notes : /\ r < k /\ notes[r].created <= clock'
                                   /\ notes'[r] = notes[r]
        /\ notes'[k].created = clock' /\ DOMAIN notes' = DOMAIN notes \cup {k}
    BY <1>3, InsertedIsLast
  <2> HIDE DEF k
  <2>2. k \notin Earlier(s)'
    BY <1>0, <2>1 DEF Earlier, Before
  <2>3. Earlier(s) \subseteq DOMAIN notes /\ Earlier(s)' \subseteq DOMAIN notes'
    BY DEF Earlier, NotesOf
  <2>4. Earlier(s)' = Earlier(s)
    BY <1>1, <2>1, <2>2, <2>3
  <2> QED  BY <2>4 DEF Rank, Earlier
<1>4. CASE notes' = notes
  BY <1>4 DEF Rank, NotesOf, Before
<1> QED  BY <1>2, <1>3, <1>4, NotesStep

\* A note that has been shown does not come back as that note: its sys_id may be
\* given away again after a kill, its identity is not.
LEMMA ShownBefore ==
    ASSUME Typed, [Next]_vars, NEW item \in Item, Foreign(item.note), StillShown(item)'
    PROVE  /\ StillShown(item)
           /\ item.seq \in DOMAIN notes /\ item.seq \in DOMAIN notes'
           /\ notes'[item.seq] = notes[item.seq]
<1>1. item.seq \in DOMAIN notes' /\ notes'[item.seq] = item.note
  BY DEF StillShown
<1>2. item.seq \in DOMAIN notes /\ notes[item.seq] = item.note
  <2>1. CASE Restart
    BY <1>1, <2>1, RestartEffect DEF Typed, StoredIsOnConnection, Extends
  <2>2. ASSUME NEW t \in Threads, NoteInsert(t)
        PROVE  item.seq \in DOMAIN notes /\ notes[item.seq] = item.note
    <3>1. /\ notes'[call[t].seq] = NewNote(t)
          /\ DOMAIN notes' = DOMAIN notes \cup {call[t].seq}
          /\ Extends(notes, notes')
      BY <2>2, InsertedNote
    <3>2. NewNote(t).id = call[t].id
      BY DEF NewNote
    <3>3. t \in Unwritten
      BY <2>2, InsertEffect DEF Unwritten, Typed
    <3>4. item.seq # call[t].seq
      BY <1>1, <3>1, <3>2, <3>3 DEF Foreign
    <3> QED  BY <1>1, <3>1, <3>4 DEF Extends
  <2>3. CASE notes' = notes
    BY <1>1, <2>3
  <2> QED  BY <2>1, <2>2, <2>3, NotesStep
<1> QED  BY <1>1, <1>2 DEF StillShown

LEMMA PagedStep == Typed /\ Ordered /\ Fresh /\ Paged /\ [Next]_vars => Paged'
<1> SUFFICES ASSUME Typed, Ordered, Fresh, Paged, [Next]_vars PROVE Paged'
  OBVIOUS
<1>0. call \in [Threads -> Call] /\ replies \subseteq Reply
  BY DEF Typed, TypeOK
<1>1. ASSUME NEW item \in Item, Foreign(item.note), StillShown(item)',
             NEW page, NEW size, StillShown(item) => InPage(Rank(item.seq), page, size)
      PROVE  InPage(Rank(item.seq)', page, size)
  BY <1>1, ShownBefore, RankKept
<1>2. ASSUME NEW t \in Threads, pc'[t] = "list_count", NEW item \in call'[t].items,
             StillShown(item)'
      PROVE  InPage(Rank(item.seq)', call'[t].page, call'[t].size)
  <2>1. CASE item \in call[t].items /\ pc'[t] = pc[t] /\ call'[t] = call[t]
    <3>1. item \in Item /\ Foreign(item.note)
      BY <1>0, <2>1 DEF Fresh, Call
    <3>2. StillShown(item) => InPage(Rank(item.seq), call[t].page, call[t].size)
      BY <1>2, <2>1 DEF Paged
    <3> QED  BY <1>1, <1>2, <2>1, <3>1, <3>2
  <2>2. CASE ReadsPage(t) /\ item \in PageRows(call[t])
    <3>1. /\ item \in Item /\ item.seq \in DOMAIN notes /\ item.note = notes[item.seq]
          /\ InPage(Rank(item.seq), call[t].page, call[t].size)
      BY <1>0, <2>2, ItemsType DEF Typed, NotesOf
    <3>2. Foreign(item.note)
      BY <3>1 DEF Fresh
    <3>3. call'[t].page = call[t].page /\ call'[t].size = call[t].size
      BY <1>0, <2>2 DEF ReadsPage, Call
    <3> QED  BY <1>1, <1>2, <3>1, <3>2, <3>3
  <2> QED  BY <1>2, <2>1, <2>2, ItemsKept
<1>3. ASSUME NEW r \in replies', r.op = "list", NEW item \in r.items, StillShown(item)'
      PROVE  InPage(Rank(item.seq)', r.page, r.size)
  <2>1. CASE r \in replies
    <3>1. item \in Item /\ Foreign(item.note)
      BY <1>0, <1>3, <2>1 DEF Fresh, Reply
    <3>2. StillShown(item) => InPage(Rank(item.seq), r.page, r.size)
      BY <1>3, <2>1 DEF Paged, PagesAreStable
    <3> QED  BY <1>1, <1>3, <3>1, <3>2
  <2>2. CASE r \notin replies
    <3>1. PICK t \in Threads : /\ pc[t] = "list_count" /\ r.items = call[t].items
                               /\ r.page = call[t].page /\ r.size = call[t].size
      BY <1>3, <2>2, RepliesStep
    <3>2. item \in Item /\ Foreign(item.note)
      BY <1>0, <1>3, <3>1 DEF Fresh, Call
    <3>3. StillShown(item) => InPage(Rank(item.seq), call[t].page, call[t].size)
      BY <1>3, <3>1 DEF Paged
    <3> QED  BY <1>1, <1>3, <3>1, <3>2, <3>3
  <2> QED  BY <2>1, <2>2
<1> QED  BY <1>2, <1>3 DEF Paged, PagesAreStable, InPage

\* A note stays on the page it was listed on, as long as it is that note.
THEOREM PageStability == Spec => []PagesAreStable
<1>1. Init => Paged
  BY DEF Init, Paged, PagesAreStable
<1>2. Typed /\ Ordered /\ Fresh /\ Paged /\ [Next]_vars
        => (Typed /\ Ordered /\ Fresh /\ Paged)'
  BY TypedStep, OrderedStep, FreshStep, PagedStep
<1>3. Paged => PagesAreStable
  BY DEF Paged
<1> QED  BY <1>1, <1>2, <1>3, TypedInit, OrderedInit, FreshInit, PTL DEF Spec
=============================================================================

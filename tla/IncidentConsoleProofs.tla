----------------------- MODULE IncidentConsoleProofs -----------------------
(***************************************************************************)
(* Proofs about IncidentConsole, for any number of tasks, incidents,       *)
(* fields and filters, patient user or not, failures or not.               *)
(*                                                                         *)
(* The inductive invariant is Inv.  TypeOK is not inductive alone: a note  *)
(* and a PATCH are sent to current.number, which exists because a record   *)
(* is shown, which is ShownRecordIsCurrent; and that needs OneSection, for *)
(* opening the list must not leave a record behind.  PatchOnlyTouched      *)
(* needs Inv and FormFollows besides; what a patient user sees at rest     *)
(* needs OneByOne, and Calm where no request can fail.                     *)
(***************************************************************************)
EXTENDS IncidentConsole, FiniteSetTheorems, TLAPS

OneSection == view \in {{}, {"list"}, {"create"}, {"record"}}

Inv == TypeOK /\ OneSection /\ ShownRecordIsCurrent

-----------------------------------------------------------------------------
(***************************************************************************)
(* The form, and values on their way through it.                           *)
(***************************************************************************)
LEMMA FilledTyped ==
    ASSUME NEW row \in Rows
    PROVE  /\ Filled(row) = [f \in Fields |-> Filled(row)[f]]
           /\ \A f \in Fields : Filled(row)[f] \in Typed(f) \cup {Empty}
<1>1. Filled(row) = [f \in Fields |-> Filled(row)[f]]
  BY DEF Filled, ShowsEmpty
<1>2. ASSUME NEW f \in Fields PROVE Filled(row)[f] \in Typed(f) \cup {Empty}
  <2>1. row[f] \in Stored(f)
    BY DEF Rows
  <2>2. CASE f \in SelectFields
    <3>1. f \notin TextFields
      BY <2>2, ConsoleAssumption
    <3>2. CASE row[f] \in Options
      BY <1>2, <2>2, <3>1, <3>2 DEF Filled, ShowsEmpty, Typed
    <3>3. CASE row[f] \notin Options
      BY <1>2, <2>2, <3>1, <3>3 DEF Filled, ShowsEmpty
    <3> QED  BY <3>2, <3>3
  <2>3. CASE f \notin SelectFields
    <3>1. f \in TextFields
      BY <1>2, <2>3 DEF Fields
    <3>2. row[f] \in Texts \cup {Empty, Null}
      BY <2>1, <2>3, ConsoleAssumption DEF Stored
    <3>3. CASE row[f] = Null
      BY <1>2, <2>3, <3>1, <3>3 DEF Filled, ShowsEmpty
    <3>4. CASE row[f] # Null
      <4>1. Filled(row)[f] = row[f]
        BY <1>2, <2>3, <3>1, <3>4 DEF Filled, ShowsEmpty
      <4> QED  BY <2>3, <3>2, <3>4, <4>1 DEF Typed
    <3> QED  BY <3>3, <3>4
  <2> QED  BY <2>2, <2>3
<1> QED  BY <1>1, <1>2

\* Where rows hold options and texts that are not empty, a field that the user
\* leaves alone is read back as it was.
LEMMA ReadBack ==
    ASSUME Unlisted = {}, EmptyTexts = {}, NEW row \in Rows, NEW f \in Fields
    PROVE  Read(f, Filled(row)[f]) = row[f]
<1>1. row[f] \in Stored(f)
  BY DEF Rows
<1>2. CASE f \in SelectFields
  <2>1. f \notin TextFields /\ row[f] \in Options
    BY <1>1, <1>2, ConsoleAssumption DEF Stored
  <2>2. Filled(row)[f] = row[f]
    BY <1>2, <2>1 DEF Filled, ShowsEmpty
  <2> QED  BY <2>1, <2>2 DEF Read
<1>3. CASE f \notin SelectFields
  <2>1. f \in TextFields
    BY <1>3 DEF Fields
  <2>2. row[f] \in Texts \cup {Null}
    BY <1>1, <1>3 DEF Stored
  <2>3. CASE row[f] = Null
    <3>1. Filled(row)[f] = Empty
      BY <1>3, <2>1, <2>3 DEF Filled, ShowsEmpty
    <3> QED  BY <2>1, <2>3, <3>1 DEF Read
  <2>4. CASE row[f] # Null
    <3>1. Filled(row)[f] = row[f]
      BY <1>3, <2>1, <2>4 DEF Filled, ShowsEmpty
    <3>2. row[f] # Empty
      BY <2>2, <2>4, ConsoleAssumption
    <3> QED  BY <3>1, <3>2 DEF Read
  <2> QED  BY <2>3, <2>4
<1> QED  BY <1>2, <1>3

\* What the console sends is a patch that WellFormed allows.
LEMMA DiffTyped ==
    ASSUME NEW row, NEW edited, NEW f \in DOMAIN Diff(row, edited),
           \A g \in Fields : edited[g] \in Typed(g) \cup {Empty}
    PROVE  /\ f \in Fields
           /\ \/ Diff(row, edited)[f] \in Settable(f)
              \/ f \in SelectFields /\ Diff(row, edited)[f] = Empty
<1>1. f \in Fields /\ Diff(row, edited)[f] = Read(f, edited[f])
  BY DEF Diff
<1>2. edited[f] \in Typed(f) \cup {Empty}
  BY <1>1
<1>3. CASE f \in SelectFields
  <2>1. f \notin TextFields
    BY <1>3, ConsoleAssumption
  <2>2. Diff(row, edited)[f] = edited[f]
    BY <1>1, <2>1 DEF Read
  <2> QED  BY <1>1, <1>2, <1>3, <2>2 DEF Typed, Settable
<1>4. CASE f \notin SelectFields
  <2>1. f \in TextFields
    BY <1>1, <1>4 DEF Fields
  <2>2. edited[f] \in Texts \cup {Empty}
    BY <1>2, <1>4 DEF Typed
  <2>3. Read(f, edited[f]) \in Texts \cup {Null}
    BY <2>1, <2>2 DEF Read
  <2> QED  BY <1>1, <1>4, <2>3 DEF Settable
<1> QED  BY <1>3, <1>4

-----------------------------------------------------------------------------
(***************************************************************************)
(* Requests stay well formed while incidents are added.                    *)
(***************************************************************************)
LEMMA WellFormedGrows ==
    ASSUME NEW A, NEW B, A \subseteq B, NEW r, WellFormed(r, A)
    PROVE  WellFormed(r, B)
BY DEF WellFormed

LEMMA TasksTyped ==
    ASSUME TypeOK, NEW t \in Tasks, NEW r,
           tasks' = [tasks EXCEPT ![t] = r],
           DOMAIN incidents \subseteq DOMAIN incidents',
           WellFormed(r, DOMAIN incidents')
    PROVE  /\ tasks' = [u \in Tasks |-> tasks'[u]]
           /\ \A u \in Tasks : WellFormed(tasks'[u], DOMAIN incidents')
<1>1. tasks = [u \in Tasks |-> tasks[u]] /\ \A u \in Tasks : WellFormed(tasks[u], DOMAIN incidents)
  BY DEF TypeOK
<1>2. \A u \in Tasks : WellFormed(tasks[u], DOMAIN incidents')
  BY <1>1, WellFormedGrows
<1>3. \A u \in Tasks : tasks'[u] = IF u = t THEN r ELSE tasks[u]
  BY <1>1
<1>4. tasks' = [u \in Tasks |-> tasks'[u]]
  BY <1>1
<1> QED  BY <1>2, <1>3, <1>4

\* A request that asks and has no answer yet.
LEMMA RequestTyped ==
    ASSUME NEW kind, NEW number, NEW args, NEW numbers,
           kind \in {"incident", "notes", "sla", "escalations", "note"} => number \in numbers,
           kind \notin {"create", "patch"}
    PROVE  WellFormed(Request(kind, number, args), numbers)
BY DEF WellFormed, Request

LEMMA NoRequestTyped ==
    ASSUME NEW numbers
    PROVE  WellFormed(NoRequest, numbers)
BY DEF WellFormed, NoRequest, Request

-----------------------------------------------------------------------------
LEMMA TypedInit == Init => TypeOK
<1> SUFFICES ASSUME Init PROVE TypeOK
  OBVIOUS
<1>1. incidents \in [Seeded -> Rows] /\ Seeded \subseteq Numbers
  BY ConsoleAssumption DEF Init
<1>2. PICK t \in Tasks : tasks = [u \in Tasks |-> IF u = t THEN Request("list", Null, <<filters, page>>)
                                                            ELSE NoRequest]
  BY DEF Init
<1>3. WellFormed(Request("list", Null, <<filters, page>>), DOMAIN incidents)
  BY RequestTyped
<1>4. \A u \in Tasks : WellFormed(tasks[u], DOMAIN incidents)
  BY <1>2, <1>3, NoRequestTyped
<1>5. tasks = [u \in Tasks |-> tasks[u]]
  BY <1>2
<1>6. form = [f \in Fields |-> form[f]] /\ \A f \in Fields : form[f] \in Typed(f) \cup {Empty}
  BY DEF Init
<1>7. notes \in [DOMAIN incidents -> Nat]
  BY <1>1 DEF Init
<1> QED  BY <1>1, <1>4, <1>5, <1>6, <1>7 DEF Init, TypeOK

(***************************************************************************)
(* The API.                                                                *)
(***************************************************************************)
\* Answering leaves the rest of a request alone.
LEMMA SettledTyped ==
    ASSUME NEW r, NEW numbers, WellFormed(r, numbers), NEW status \in {"ok", "failed"}, NEW answer,
           status = "ok" =>
             /\ r.kind \in {"incident", "patch"} => answer \in Row /\ answer.number \in numbers
             /\ r.kind = "list" => answer.rows \subseteq numbers
             /\ r.kind = "create" => answer \in numbers
    PROVE  WellFormed(Settled(r, status, answer), numbers)
BY DEF WellFormed, Settled

LEMMA RestUnchanged ==
    ASSUME TypeOK, UNCHANGED <<listVars, recordVars, panelVars, view, errors>>,
           DOMAIN incidents \subseteq DOMAIN incidents', DOMAIN incidents' \subseteq Numbers,
           incidents' \in [DOMAIN incidents' -> Rows], notes' \in [DOMAIN incidents' -> Nat],
           tasks' = [u \in Tasks |-> tasks'[u]],
           \A u \in Tasks : WellFormed(tasks'[u], DOMAIN incidents')
    PROVE  TypeOK'
BY DEF TypeOK, listVars, recordVars, panelVars

LEMMA ServeReadTyped ==
    ASSUME TypeOK, NEW t \in Tasks, ServeRead(t),
           UNCHANGED <<listVars, recordVars, panelVars, view, errors>>
    PROVE  TypeOK'
<1> DEFINE n == tasks[t].number
           numbers == tasks[t].args[1] \cap DOMAIN incidents
           p == tasks[t].args[2]
<1>1. UNCHANGED <<incidents, notes, others>>
  BY DEF ServeRead, serverVars
<1>2. WellFormed(tasks[t], DOMAIN incidents)
  BY DEF TypeOK
<1>3. \E answer : /\ tasks' = [tasks EXCEPT ![t] = Settled(tasks[t], "ok", answer)]
                  /\ WellFormed(Settled(tasks[t], "ok", answer), DOMAIN incidents)
  <2>1. CASE Sent(t, "list") /\ Reply(t, TableOf(tasks[t].args[1], p, numbers))
    <3>1. TableOf(tasks[t].args[1], p, numbers).rows \subseteq DOMAIN incidents
      BY DEF TableOf, PageOf
    <3>2. WellFormed(Settled(tasks[t], "ok", TableOf(tasks[t].args[1], p, numbers)), DOMAIN incidents)
      BY <1>2, <2>1, <3>1, SettledTyped DEF Sent
    <3> QED  BY <2>1, <3>2 DEF Reply
  <2>2. CASE Sent(t, "incident") /\ Reply(t, [number |-> n, fields |-> incidents[n]])
    <3>1. n \in DOMAIN incidents
      BY <1>2, <2>2 DEF WellFormed, Sent
    <3>2. [number |-> n, fields |-> incidents[n]] \in Row
      BY <3>1 DEF TypeOK, Row
    <3>3. WellFormed(Settled(tasks[t], "ok", [number |-> n, fields |-> incidents[n]]), DOMAIN incidents)
      BY <1>2, <2>2, <3>1, <3>2, SettledTyped DEF Sent
    <3> QED  BY <2>2, <3>3 DEF Reply
  <2>3. CASE Sent(t, "notes") /\ Reply(t, NoteSeq(n, IF notes[n] < NotePage THEN notes[n] ELSE NotePage))
    <3> DEFINE a == NoteSeq(n, IF notes[n] < NotePage THEN notes[n] ELSE NotePage)
    <3>1. WellFormed(Settled(tasks[t], "ok", a), DOMAIN incidents)
      <4> HIDE DEF a
      <4> QED  BY <1>2, <2>3, SettledTyped DEF Sent
    <3> QED  BY <2>3, <3>1 DEF Reply
  <2>4. CASE (Sent(t, "sla") \/ Sent(t, "escalations")) /\ Reply(t, n)
    <3>1. WellFormed(Settled(tasks[t], "ok", n), DOMAIN incidents)
      BY <1>2, <2>4, SettledTyped DEF Sent
    <3> QED  BY <2>4, <3>1 DEF Reply
  <2> QED  BY <2>1, <2>2, <2>3, <2>4 DEF ServeRead
<1>4. PICK answer : /\ tasks' = [tasks EXCEPT ![t] = Settled(tasks[t], "ok", answer)]
                    /\ WellFormed(Settled(tasks[t], "ok", answer), DOMAIN incidents)
  BY <1>3
<1>5. /\ tasks' = [u \in Tasks |-> tasks'[u]]
      /\ \A u \in Tasks : WellFormed(tasks'[u], DOMAIN incidents')
  BY <1>1, <1>4, TasksTyped
<1> QED  BY <1>1, <1>5, RestUnchanged DEF TypeOK

LEMMA ServeNoteTyped ==
    ASSUME TypeOK, NEW t \in Tasks, ServeNote(t),
           UNCHANGED <<listVars, recordVars, panelVars, view, errors>>
    PROVE  TypeOK'
<1> DEFINE n == tasks[t].number
<1>1. WellFormed(tasks[t], DOMAIN incidents) /\ tasks[t].kind = "note"
  BY DEF TypeOK, ServeNote, Sent
<1>2. n \in DOMAIN incidents
  BY <1>1 DEF WellFormed
<1>3. /\ tasks' = [tasks EXCEPT ![t] = Settled(tasks[t], "ok", <<n, notes[n] + 1>>)]
      /\ notes' = [notes EXCEPT ![n] = @ + 1] /\ incidents' = incidents
  BY DEF ServeNote, Reply
<1>4. WellFormed(Settled(tasks[t], "ok", <<n, notes[n] + 1>>), DOMAIN incidents)
  BY <1>1, SettledTyped
<1>5. notes' \in [DOMAIN incidents -> Nat]
  BY <1>2, <1>3 DEF TypeOK
<1>6. /\ tasks' = [u \in Tasks |-> tasks'[u]]
      /\ \A u \in Tasks : WellFormed(tasks'[u], DOMAIN incidents')
  BY <1>3, <1>4, TasksTyped
<1> QED  BY <1>3, <1>5, <1>6, RestUnchanged DEF TypeOK

LEMMA ServePatchTyped ==
    ASSUME TypeOK, NEW t \in Tasks, ServePatch(t),
           UNCHANGED <<listVars, recordVars, panelVars, view, errors>>
    PROVE  TypeOK'
<1> DEFINE n == tasks[t].number
           patch == tasks[t].args.patch
           row == [f \in Fields |-> IF f \in DOMAIN patch THEN patch[f] ELSE incidents[n][f]]
<1>1. WellFormed(tasks[t], DOMAIN incidents) /\ tasks[t].kind = "patch"
  BY DEF TypeOK, ServePatch, Sent
<1>2. n \in DOMAIN incidents
  BY <1>1 DEF WellFormed
<1>3. notes' = notes
  BY DEF ServePatch
<1>4. CASE /\ \A f \in DOMAIN patch \cap SelectFields : patch[f] \in Options
           /\ incidents' = [incidents EXCEPT ![n] = row]
           /\ Reply(t, [number |-> n, fields |-> row])
  <2>1. ASSUME NEW f \in Fields PROVE row[f] \in Stored(f)
    <3>1. incidents[n] \in Rows
      BY <1>2 DEF TypeOK
    <3>2. CASE f \notin DOMAIN patch
      BY <2>1, <3>1, <3>2 DEF Rows
    <3>3. CASE f \in DOMAIN patch
      <4>1. patch[f] \in Settable(f) \/ (f \in SelectFields /\ patch[f] = Empty)
        BY <1>1, <3>3 DEF WellFormed
      <4>2. row[f] = patch[f]
        BY <2>1, <3>3
      <4>3. patch[f] \in Stored(f)
        BY <1>4, <3>3, <4>1 DEF Settable, Stored
      <4> QED  BY <4>2, <4>3
    <3> QED  BY <3>2, <3>3
  <2>2. row \in Rows
    <3>1. row = [f \in Fields |-> row[f]]
      OBVIOUS
    <3> HIDE DEF row
    <3> QED  BY <2>1, <3>1 DEF Rows
  <2> HIDE DEF row
  <2>3. DOMAIN incidents' = DOMAIN incidents /\ incidents' \in [DOMAIN incidents -> Rows]
    BY <1>2, <1>4, <2>2 DEF TypeOK
  <2>4. [number |-> n, fields |-> row] \in Row
    BY <1>2, <2>2 DEF TypeOK, Row
  <2>5. WellFormed(Settled(tasks[t], "ok", [number |-> n, fields |-> row]), DOMAIN incidents)
    BY <1>1, <1>2, <2>4, SettledTyped
  <2>6. /\ tasks' = [u \in Tasks |-> tasks'[u]]
        /\ \A u \in Tasks : WellFormed(tasks'[u], DOMAIN incidents')
    BY <1>4, <2>3, <2>5, TasksTyped DEF Reply
  <2> QED  BY <1>3, <2>3, <2>6, RestUnchanged DEF TypeOK
<1>5. CASE Refuse(t) /\ UNCHANGED incidents
  <2>1. WellFormed(Settled(tasks[t], "failed", Null), DOMAIN incidents)
    BY <1>1, SettledTyped
  <2>2. /\ tasks' = [u \in Tasks |-> tasks'[u]]
        /\ \A u \in Tasks : WellFormed(tasks'[u], DOMAIN incidents')
    BY <1>5, <2>1, TasksTyped DEF Refuse
  <2> QED  BY <1>3, <1>5, <2>2, RestUnchanged DEF TypeOK
<1> QED  BY <1>4, <1>5 DEF ServePatch

LEMMA ServeCreateTyped ==
    ASSUME TypeOK, NEW t \in Tasks, ServeCreate(t),
           UNCHANGED <<listVars, recordVars, panelVars, view, errors>>
    PROVE  TypeOK'
<1>1. WellFormed(tasks[t], DOMAIN incidents) /\ tasks[t].kind = "create"
  BY DEF TypeOK, ServeCreate, Sent
<1>2. tasks[t].args \in Rows
  BY <1>1 DEF WellFormed
<1>3. PICK n \in Numbers \ DOMAIN incidents :
         /\ incidents' = [m \in DOMAIN incidents \cup {n} |->
                              IF m = n THEN tasks[t].args ELSE incidents[m]]
         /\ notes' = [m \in DOMAIN notes \cup {n} |-> IF m = n THEN 0 ELSE notes[m]]
         /\ Reply(t, n)
  BY DEF ServeCreate
<1>4. /\ DOMAIN incidents' = DOMAIN incidents \cup {n}
      /\ incidents' \in [DOMAIN incidents' -> Rows]
  BY <1>2, <1>3 DEF TypeOK
<1>5. notes' \in [DOMAIN incidents' -> Nat]
  BY <1>3, <1>4 DEF TypeOK
<1>6. WellFormed(tasks[t], DOMAIN incidents')
  BY <1>1, <1>4, WellFormedGrows
<1>7. WellFormed(Settled(tasks[t], "ok", n), DOMAIN incidents')
  BY <1>1, <1>4, <1>6, SettledTyped
<1>8. /\ tasks' = [u \in Tasks |-> tasks'[u]]
      /\ \A u \in Tasks : WellFormed(tasks'[u], DOMAIN incidents')
  BY <1>3, <1>4, <1>7, TasksTyped DEF Reply
<1>9. DOMAIN incidents' \subseteq Numbers
  BY <1>4 DEF TypeOK
<1> QED  BY <1>4, <1>5, <1>8, <1>9, RestUnchanged

LEMMA FailTyped ==
    ASSUME TypeOK, NEW t \in Tasks, Fail(t)
    PROVE  TypeOK'
<1>1. UNCHANGED serverVars /\ UNCHANGED <<listVars, recordVars, panelVars, view, errors>>
  BY DEF Fail
<1>2. WellFormed(Settled(tasks[t], "failed", Null), DOMAIN incidents)
  BY SettledTyped DEF TypeOK
<1>3. incidents' = incidents /\ notes' = notes
  BY <1>1 DEF serverVars
<1>4. /\ tasks' = [u \in Tasks |-> tasks'[u]]
      /\ \A u \in Tasks : WellFormed(tasks'[u], DOMAIN incidents')
  BY <1>2, <1>3, TasksTyped DEF Fail, Refuse
<1> QED  BY <1>1, <1>3, <1>4, RestUnchanged DEF TypeOK

LEMMA OtherClientTyped ==
    ASSUME TypeOK, OtherClient
    PROVE  TypeOK'
<1>1. PICK n \in DOMAIN incidents :
         \/ /\ \E f \in Fields : \E v \in Settable(f) : incidents' = [incidents EXCEPT ![n][f] = v]
            /\ UNCHANGED notes
         \/ notes' = [notes EXCEPT ![n] = @ + 1] /\ UNCHANGED incidents
  BY DEF OtherClient
<1>2. /\ tasks' = tasks
      /\ UNCHANGED <<listVars, recordVars, panelVars, view, errors>>
  BY DEF OtherClient
<1>3. CASE /\ \E f \in Fields : \E v \in Settable(f) : incidents' = [incidents EXCEPT ![n][f] = v]
           /\ UNCHANGED notes
  <2>0. PICK f \in Fields : \E v \in Settable(f) : incidents' = [incidents EXCEPT ![n][f] = v]
    BY <1>3
  <2>1. PICK v \in Settable(f) : incidents' = [incidents EXCEPT ![n][f] = v]
    BY <2>0
  <2> DEFINE row == [incidents[n] EXCEPT ![f] = v]
  <2>2. row \in Rows
    <3>1. incidents[n] \in Rows /\ v \in Stored(f)
      BY DEF TypeOK, Settable, Stored
    <3> QED  BY <3>1 DEF Rows
  <2>3. incidents' = [incidents EXCEPT ![n] = row]
    BY <2>1
  <2> HIDE DEF row
  <2>4. DOMAIN incidents' = DOMAIN incidents /\ incidents' \in [DOMAIN incidents -> Rows]
    BY <2>2, <2>3 DEF TypeOK
  <2> QED  BY <1>2, <1>3, <2>4, RestUnchanged DEF TypeOK
<1>4. CASE notes' = [notes EXCEPT ![n] = @ + 1] /\ UNCHANGED incidents
  <2>1. notes' \in [DOMAIN incidents -> Nat]
    BY <1>4 DEF TypeOK
  <2> QED  BY <1>2, <1>4, <2>1, RestUnchanged DEF TypeOK
<1> QED  BY <1>1, <1>3, <1>4

-----------------------------------------------------------------------------
(***************************************************************************)
(* The page.  Nothing it does changes the API's rows.                      *)
(***************************************************************************)
LEMMA PageTasksTyped ==
    ASSUME TypeOK, NEW t \in Tasks, NEW r, tasks' = [tasks EXCEPT ![t] = r],
           UNCHANGED serverVars, WellFormed(r, DOMAIN incidents)
    PROVE  /\ tasks' = [u \in Tasks |-> tasks'[u]]
           /\ \A u \in Tasks : WellFormed(tasks'[u], DOMAIN incidents')
           /\ incidents' = incidents /\ notes' = notes
<1>1. incidents' = incidents /\ notes' = notes
  BY DEF serverVars
<1> QED  BY <1>1, TasksTyped

LEMMA LoadListTyped ==
    ASSUME TypeOK, NEW t \in Tasks, NEW flt \in Filters \cup {Numbers}, NEW p \in Nat \ {0},
           LoadList(t, flt, p)
    PROVE  TypeOK'
<1>1. WellFormed(Request("list", Null, <<flt, p>>), DOMAIN incidents)
  BY RequestTyped
<1>2. /\ tasks' = [tasks EXCEPT ![t] = Request("list", Null, <<flt, p>>)]
      /\ UNCHANGED serverVars
      /\ filters' = flt /\ page' = p
      /\ UNCHANGED <<table, recordVars, panelVars, view, errors>>
  BY DEF LoadList, Start
<1>3. /\ tasks' = [u \in Tasks |-> tasks'[u]]
      /\ \A u \in Tasks : WellFormed(tasks'[u], DOMAIN incidents')
      /\ incidents' = incidents /\ notes' = notes
  BY <1>1, <1>2, PageTasksTyped
<1> QED  BY <1>2, <1>3 DEF TypeOK, recordVars, panelVars

LEMMA AskListTyped ==
    ASSUME TypeOK, NEW t \in Tasks, SubmitFilters(t) \/ PrevPage(t) \/ NextPage(t)
    PROVE  TypeOK'
<1>1. filters \in Filters \cup {Numbers} /\ page \in Nat \ {0}
  BY DEF TypeOK
<1>2. CASE SubmitFilters(t)
  <2>1. PICK flt \in Filters : LoadList(t, flt, 1)
    BY <1>2 DEF SubmitFilters
  <2> QED  BY <2>1, LoadListTyped
<1>3. CASE PrevPage(t)
  <2>1. LoadList(t, filters, page - 1) /\ page - 1 \in Nat \ {0}
    BY <1>1, <1>3 DEF PrevPage
  <2> QED  BY <1>1, <2>1, LoadListTyped
<1>4. CASE NextPage(t)
  <2>1. LoadList(t, filters, page + 1) /\ page + 1 \in Nat \ {0}
    BY <1>1, <1>4 DEF NextPage
  <2> QED  BY <1>1, <2>1, LoadListTyped
<1> QED  BY <1>2, <1>3, <1>4

LEMMA ListArrivesTyped ==
    ASSUME TypeOK, NEW t \in Tasks, ListArrives(t)
    PROVE  TypeOK'
<1>1. /\ tasks' = [u \in Tasks |-> tasks'[u]]
      /\ \A u \in Tasks : WellFormed(tasks'[u], DOMAIN incidents')
      /\ incidents' = incidents /\ notes' = notes
  BY PageTasksTyped, NoRequestTyped DEF ListArrives, Await, serverVars
<1>2. table'.rows \subseteq DOMAIN incidents
  <2>1. CASE Answered(t, "list") /\ table' = tasks[t].answer
    BY <2>1 DEF TypeOK, WellFormed, Answered
  <2>2. CASE table' = table
    BY <2>2 DEF TypeOK
  <2> QED  BY <2>1, <2>2 DEF ListArrives
<1>3. errors' \subseteq {"incidents", "note", "edit", "create"}
  BY DEF ListArrives, Show, Hide, TypeOK
<1>4. UNCHANGED <<filters, page, recordVars, panelVars, view>>
  BY DEF ListArrives
<1> QED  BY <1>1, <1>2, <1>3, <1>4 DEF TypeOK, recordVars, panelVars

LEMMA ClickRowTyped ==
    ASSUME TypeOK, NEW t \in Tasks, ClickRow(t)
    PROVE  TypeOK'
<1>1. PICK n \in table.rows : tasks' = [tasks EXCEPT ![t] = Request("incident", n, Null)]
  BY DEF ClickRow, Start
<1>2. WellFormed(Request("incident", n, Null), DOMAIN incidents)
  BY RequestTyped DEF TypeOK
<1>3. UNCHANGED serverVars /\ UNCHANGED <<listVars, recordVars, panelVars, view, errors>>
  BY DEF ClickRow
<1>4. /\ tasks' = [u \in Tasks |-> tasks'[u]]
      /\ \A u \in Tasks : WellFormed(tasks'[u], DOMAIN incidents')
      /\ incidents' = incidents /\ notes' = notes
  BY <1>1, <1>2, <1>3, PageTasksTyped
<1> QED  BY <1>3, <1>4, RestUnchanged DEF TypeOK

\* A row that has arrived is drawn as it is.
LEMMA RenderTyped ==
    ASSUME NEW row \in Row, Render(row)
    PROVE  /\ shown' = row /\ touched' = {}
           /\ form' = [f \in Fields |-> form'[f]]
           /\ \A f \in Fields : form'[f] \in Typed(f) \cup {Empty}
<1>1. row.fields \in Rows
  BY DEF Row
<1> QED  BY <1>1, FilledTyped DEF Render

LEMMA IncidentArrivesTyped ==
    ASSUME TypeOK, NEW t \in Tasks, IncidentArrives(t)
    PROVE  TypeOK'
<1>0. WellFormed(tasks[t], DOMAIN incidents)
  BY DEF TypeOK
<1>1. UNCHANGED serverVars /\ UNCHANGED <<listVars, panelVars>>
  BY DEF IncidentArrives
<1>2. errors' \subseteq {"incidents", "note", "edit", "create"}
  BY DEF IncidentArrives, Show, Hide, TypeOK
<1>3. CASE Answered(t, "incident")
  <2>1. /\ current' = tasks[t].answer /\ Render(tasks[t].answer)
        /\ view' = OnlyRecordView(view)
        /\ Await(t, Request("notes", tasks[t].number, Null))
    BY <1>3 DEF IncidentArrives, Answered, Failed
  <2>2. tasks[t].answer \in Row /\ tasks[t].number \in DOMAIN incidents
    BY <1>0, <1>3 DEF WellFormed, Answered
  <2>3. WellFormed(Request("notes", tasks[t].number, Null), DOMAIN incidents)
    BY <2>2, RequestTyped
  <2>4. /\ tasks' = [u \in Tasks |-> tasks'[u]]
        /\ \A u \in Tasks : WellFormed(tasks'[u], DOMAIN incidents')
        /\ incidents' = incidents /\ notes' = notes
    BY <1>1, <2>1, <2>3, PageTasksTyped DEF Await
  <2>5. /\ shown' = tasks[t].answer /\ touched' = {}
        /\ form' = [f \in Fields |-> form'[f]]
        /\ \A f \in Fields : form'[f] \in Typed(f) \cup {Empty}
    BY <2>1, <2>2, RenderTyped
  <2>6. view' \subseteq {"list", "create", "record"}
    BY <2>1 DEF TypeOK, OnlyRecordView
  <2> QED  BY <1>1, <1>2, <2>1, <2>2, <2>4, <2>5, <2>6 DEF TypeOK, listVars, panelVars
<1>4. CASE Failed(t, "incident") /\ Await(t, NoRequest) /\ UNCHANGED <<recordVars, view>>
  <2>1. /\ tasks' = [u \in Tasks |-> tasks'[u]]
        /\ \A u \in Tasks : WellFormed(tasks'[u], DOMAIN incidents')
        /\ incidents' = incidents /\ notes' = notes
    BY <1>1, <1>4, NoRequestTyped, PageTasksTyped DEF Await
  <2> QED  BY <1>1, <1>2, <1>4, <2>1 DEF TypeOK, listVars, recordVars, panelVars
<1> QED  BY <1>3, <1>4 DEF IncidentArrives

LEMMA AwaitNextTyped ==
    ASSUME TypeOK, NEW t \in Tasks, AwaitNext(t), UNCHANGED serverVars,
           tasks[t].kind \in {"notes", "sla", "escalations"}
    PROVE  /\ tasks' = [u \in Tasks |-> tasks'[u]]
           /\ \A u \in Tasks : WellFormed(tasks'[u], DOMAIN incidents')
           /\ incidents' = incidents /\ notes' = notes
<1>1. tasks[t].number \in DOMAIN incidents
  BY DEF TypeOK, WellFormed
<1>2. After(tasks[t].kind) \in {"sla", "escalations", "idle"}
  BY DEF After
<1>3. PICK kind \in {"sla", "escalations", "idle"} :
         tasks' = [tasks EXCEPT ![t] = IF kind = "idle" THEN NoRequest
                                                        ELSE Request(kind, tasks[t].number, Null)]
  BY <1>2 DEF AwaitNext, Await
<1>4. CASE kind = "idle"
  BY <1>3, <1>4, NoRequestTyped, PageTasksTyped
<1>5. CASE kind # "idle"
  <2>1. WellFormed(Request(kind, tasks[t].number, Null), DOMAIN incidents)
    BY <1>1, <1>5, RequestTyped
  <2> QED  BY <1>3, <1>5, <2>1, PageTasksTyped
<1> QED  BY <1>4, <1>5

LEMMA PanelsTyped ==
    ASSUME TypeOK, NEW t \in Tasks, PanelArrives(t) \/ PanelFails(t)
    PROVE  TypeOK'
<1>1. /\ AwaitNext(t) /\ UNCHANGED serverVars
      /\ tasks[t].kind \in {"notes", "sla", "escalations"}
      /\ UNCHANGED <<listVars, recordVars, view>>
  BY DEF PanelArrives, PanelFails, Answered, Failed
<1>2. errors' \subseteq {"incidents", "note", "edit", "create"}
  BY DEF PanelArrives, PanelFails, Show, TypeOK
<1>3. /\ tasks' = [u \in Tasks |-> tasks'[u]]
      /\ \A u \in Tasks : WellFormed(tasks'[u], DOMAIN incidents')
      /\ incidents' = incidents /\ notes' = notes
  BY <1>1, AwaitNextTyped
<1> QED  BY <1>1, <1>2, <1>3 DEF TypeOK, listVars, recordVars

LEMMA BackTyped == TypeOK /\ BackToList => TypeOK'
<1> SUFFICES ASSUME TypeOK, BackToList PROVE TypeOK'
  OBVIOUS
<1>1. form' = form /\ touched' = touched /\ errors' = errors
  BY DEF BackToList
<1>2. view' \subseteq {"list", "create", "record"}
  BY DEF BackToList, TypeOK
<1>3. UNCHANGED <<serverVars, tasks, listVars, shown, panelVars>> /\ current' = Null
  BY DEF BackToList
<1> QED  BY <1>1, <1>2, <1>3 DEF TypeOK, serverVars, listVars, panelVars

LEMMA EditFieldTyped == TypeOK /\ EditField => TypeOK'
<1> SUFFICES ASSUME TypeOK, EditField PROVE TypeOK'
  OBVIOUS
<1>1. PICK f \in Fields : \E s \in Typed(f) : /\ form' = [form EXCEPT ![f] = s]
                                             /\ touched' = touched \cup {f}
  BY DEF EditField
<1>2. PICK s \in Typed(f) : form' = [form EXCEPT ![f] = s]
  BY <1>1
<1>3. form' = [g \in Fields |-> form'[g]] /\ \A g \in Fields : form'[g] \in Typed(g) \cup {Empty}
  BY <1>2 DEF TypeOK
<1>4. touched' \subseteq Fields
  BY <1>1 DEF TypeOK
<1>5. UNCHANGED <<serverVars, tasks, listVars, current, shown, panelVars, view, errors>>
  BY DEF EditField
<1> QED  BY <1>3, <1>4, <1>5 DEF TypeOK, serverVars, listVars, panelVars

\* Showing another section, or a message.
LEMMA SectionsTyped ==
    ASSUME TypeOK, SubmitBadNote \/ SubmitNoEdit \/ OpenCreate \/ CancelCreate \/ SubmitBadCreate
    PROVE  TypeOK'
<1>1. UNCHANGED <<serverVars, tasks, listVars, recordVars, panelVars>>
  BY DEF SubmitBadNote, SubmitNoEdit, OpenCreate, CancelCreate, SubmitBadCreate
<1>2. view' \subseteq {"list", "create", "record"}
  BY DEF SubmitBadNote, SubmitNoEdit, OpenCreate, CancelCreate, SubmitBadCreate, TypeOK
<1>3. errors' \subseteq {"incidents", "note", "edit", "create"}
  BY DEF SubmitBadNote, SubmitNoEdit, OpenCreate, CancelCreate, SubmitBadCreate, TypeOK, Show, Hide
<1> QED  BY <1>1, <1>2, <1>3 DEF TypeOK, serverVars, listVars, recordVars, panelVars

\* A handler of the page that changes its task, the sections and the messages.
LEMMA PlainTaskTyped ==
    ASSUME TypeOK, NEW t \in Tasks, NEW r, tasks' = [tasks EXCEPT ![t] = r],
           WellFormed(r, DOMAIN incidents),
           UNCHANGED <<serverVars, listVars, recordVars>>,
           view' \subseteq {"list", "create", "record"},
           errors' \subseteq {"incidents", "note", "edit", "create"}
    PROVE  TypeOK'
<1>1. /\ tasks' = [u \in Tasks |-> tasks'[u]]
      /\ \A u \in Tasks : WellFormed(tasks'[u], DOMAIN incidents')
      /\ incidents' = incidents /\ notes' = notes
  BY PageTasksTyped
<1> QED  BY <1>1 DEF TypeOK, listVars, recordVars

LEMMA CurrentExists ==
    ASSUME TypeOK, ShownRecordIsCurrent, "record" \in view
    PROVE  current \in Row /\ current.number \in DOMAIN incidents
<1>1. current = shown /\ shown.number \in DOMAIN incidents
  BY DEF ShownRecordIsCurrent
<1>2. shown \in Row
  <2>1. CASE shown = Blank
    <3>1. Null \in Numbers
      BY <1>1, <2>1 DEF Blank, TypeOK
    <3> QED  BY <3>1, ConsoleAssumption
  <2> QED  BY <2>1 DEF TypeOK
<1> QED  BY <1>1, <1>2

LEMMA NotesTyped ==
    ASSUME Inv, NEW t \in Tasks, SubmitNote(t) \/ NoteArrives(t) \/ NoteFails(t)
    PROVE  TypeOK'
<1>0. TypeOK /\ ShownRecordIsCurrent
  BY DEF Inv
<1>1. CASE SubmitNote(t)
  <2>1. current.number \in DOMAIN incidents
    BY <1>0, <1>1, CurrentExists DEF SubmitNote
  <2>2. WellFormed(Request("note", current.number, Null), DOMAIN incidents)
    BY <2>1, RequestTyped
  <2>3. tasks' = [tasks EXCEPT ![t] = Request("note", current.number, Null)]
    BY <1>1 DEF SubmitNote, Start
  <2>4. UNCHANGED <<serverVars, listVars, recordVars>> /\ view' = view
    BY <1>1 DEF SubmitNote
  <2>5. errors' \subseteq {"incidents", "note", "edit", "create"}
    BY <1>0, <1>1 DEF SubmitNote, Hide, TypeOK
  <2>6. view' \subseteq {"list", "create", "record"}
    BY <1>0, <2>4 DEF TypeOK
  <2> QED  BY <1>0, <2>2, <2>3, <2>4, <2>5, <2>6, PlainTaskTyped
<1>2. CASE NoteArrives(t) \/ NoteFails(t)
  <2>1. tasks' = [tasks EXCEPT ![t] = NoRequest]
    BY <1>2 DEF NoteArrives, NoteFails, Await
  <2>2. UNCHANGED <<serverVars, listVars, recordVars>>
    BY <1>2 DEF NoteArrives, NoteFails
  <2>3. /\ view' \subseteq {"list", "create", "record"}
        /\ errors' \subseteq {"incidents", "note", "edit", "create"}
    BY <1>0, <1>2 DEF NoteArrives, NoteFails, Show, TypeOK
  <2> QED  BY <1>0, <2>1, <2>2, <2>3, NoRequestTyped, PlainTaskTyped
<1> QED  BY <1>1, <1>2

LEMMA SubmitEditTyped ==
    ASSUME Inv, NEW t \in Tasks, SubmitEdit(t)
    PROVE  TypeOK'
<1> DEFINE patch == Diff(current.fields, form)
           r == Request("patch", current.number, [patch |-> patch, touched |-> touched])
<1>0. TypeOK /\ ShownRecordIsCurrent
  BY DEF Inv
<1>1. current.number \in DOMAIN incidents
  BY <1>0, CurrentExists DEF SubmitEdit
<1>2. tasks' = [tasks EXCEPT ![t] = r]
  BY DEF SubmitEdit, Start
<1>3. UNCHANGED <<serverVars, listVars, recordVars>> /\ view' = view /\ errors' = errors
  BY DEF SubmitEdit
<1>4. ASSUME NEW f \in DOMAIN patch
      PROVE  /\ f \in Fields
             /\ \/ patch[f] \in Settable(f)
                \/ f \in SelectFields /\ patch[f] = Empty
  <2> DEFINE row == current.fields
  <2>1. \A g \in Fields : form[g] \in Typed(g) \cup {Empty}
    BY <1>0 DEF TypeOK
  <2>2. f \in DOMAIN Diff(row, form)
    BY <1>4
  <2> HIDE DEF row
  <2>3. /\ f \in Fields
        /\ \/ Diff(row, form)[f] \in Settable(f)
           \/ f \in SelectFields /\ Diff(row, form)[f] = Empty
    BY <2>1, <2>2, DiffTyped
  <2> QED  BY <2>3 DEF row
<1>5. WellFormed(r, DOMAIN incidents)
  <2> HIDE DEF patch
  <2>1. r.kind = "patch" /\ r.status = "sent" /\ r.number = current.number /\ r.args.patch = patch
    BY DEF Request
  <2> HIDE DEF r
  <2> QED  BY <1>1, <1>4, <2>1 DEF WellFormed
<1>6. view' \subseteq {"list", "create", "record"} /\ errors' \subseteq {"incidents", "note", "edit", "create"}
  BY <1>0, <1>3 DEF TypeOK
<1> HIDE DEF r
<1> QED  BY <1>0, <1>2, <1>3, <1>5, <1>6, PlainTaskTyped

LEMMA EditsTyped ==
    ASSUME TypeOK, NEW t \in Tasks, EditArrives(t) \/ EditFails(t)
    PROVE  TypeOK'
<1>1. CASE EditArrives(t)
  <2>1. /\ current' = tasks[t].answer /\ Render(tasks[t].answer)
        /\ tasks' = [tasks EXCEPT ![t] = NoRequest]
        /\ UNCHANGED <<serverVars, listVars, panelVars, view>>
    BY <1>1 DEF EditArrives, Await
  <2>2. tasks[t].answer \in Row
    BY <1>1 DEF EditArrives, TypeOK, WellFormed, Answered
  <2>3. /\ tasks' = [u \in Tasks |-> tasks'[u]]
        /\ \A u \in Tasks : WellFormed(tasks'[u], DOMAIN incidents')
        /\ incidents' = incidents /\ notes' = notes
    BY <2>1, NoRequestTyped, PageTasksTyped
  <2>4. /\ shown' = tasks[t].answer /\ touched' = {}
        /\ form' = [f \in Fields |-> form'[f]]
        /\ \A f \in Fields : form'[f] \in Typed(f) \cup {Empty}
    BY <2>1, <2>2, RenderTyped
  <2>5. errors' \subseteq {"incidents", "note", "edit", "create"}
    BY <1>1 DEF EditArrives, Hide, TypeOK
  <2> QED  BY <2>1, <2>2, <2>3, <2>4, <2>5 DEF TypeOK, listVars, panelVars
<1>2. CASE EditFails(t)
  <2>1. /\ tasks' = [tasks EXCEPT ![t] = NoRequest]
        /\ UNCHANGED <<serverVars, listVars, recordVars>>
    BY <1>2 DEF EditFails, Await
  <2>2. /\ view' \subseteq {"list", "create", "record"}
        /\ errors' \subseteq {"incidents", "note", "edit", "create"}
    BY <1>2 DEF EditFails, Show, TypeOK
  <2> QED  BY <2>1, <2>2, NoRequestTyped, PlainTaskTyped
<1> QED  BY <1>1, <1>2

LEMMA CreatesTyped ==
    ASSUME TypeOK, NEW t \in Tasks, SubmitCreate(t) \/ CreateArrives(t) \/ CreateFails(t)
    PROVE  TypeOK'
<1>1. /\ UNCHANGED <<serverVars, listVars, recordVars>>
      /\ view' \subseteq {"list", "create", "record"}
      /\ errors' \subseteq {"incidents", "note", "edit", "create"}
  BY DEF SubmitCreate, CreateArrives, CreateFails, Show, Hide, TypeOK
<1>2. CASE SubmitCreate(t)
  <2>1. PICK row \in NewRows : tasks' = [tasks EXCEPT ![t] = Request("create", Null, row)]
    BY <1>2 DEF SubmitCreate, Start
  <2>2. WellFormed(Request("create", Null, row), DOMAIN incidents)
    BY DEF WellFormed, Request, NewRows
  <2> QED  BY <1>1, <2>1, <2>2, PlainTaskTyped
<1>3. CASE CreateArrives(t)
  <2>1. tasks' = [tasks EXCEPT ![t] = Request("incident", tasks[t].answer, Null)]
    BY <1>3 DEF CreateArrives, Await
  <2>2. tasks[t].answer \in DOMAIN incidents
    BY <1>3 DEF CreateArrives, TypeOK, WellFormed, Answered
  <2>3. WellFormed(Request("incident", tasks[t].answer, Null), DOMAIN incidents)
    BY <2>2, RequestTyped
  <2> QED  BY <1>1, <2>1, <2>3, PlainTaskTyped
<1>4. CASE CreateFails(t)
  <2>1. tasks' = [tasks EXCEPT ![t] = NoRequest]
    BY <1>4 DEF CreateFails, Await
  <2> QED  BY <1>1, <2>1, NoRequestTyped, PlainTaskTyped
<1> QED  BY <1>2, <1>3, <1>4

LEMMA TypedStep == Inv /\ [Next]_vars => TypeOK'
<1> SUFFICES ASSUME Inv, [Next]_vars PROVE TypeOK'
  OBVIOUS
<1>0. TypeOK
  BY DEF Inv
<1>1. ASSUME NEW t \in Tasks, Ask(t) PROVE TypeOK'
  BY <1>0, <1>1, AskListTyped, ClickRowTyped, NotesTyped, SubmitEditTyped, CreatesTyped DEF Ask
<1>2. ASSUME NEW t \in Tasks, Serve(t) PROVE TypeOK'
  BY <1>0, <1>2, ServeReadTyped, ServeNoteTyped, ServePatchTyped, ServeCreateTyped DEF Serve
<1>3. ASSUME NEW t \in Tasks, Fail(t) PROVE TypeOK'
  BY <1>0, <1>3, FailTyped
<1>4. ASSUME NEW t \in Tasks, Continue(t) PROVE TypeOK'
  BY <1>0, <1>4, ListArrivesTyped, IncidentArrivesTyped, PanelsTyped, NotesTyped, EditsTyped,
     CreatesTyped DEF Continue
<1>5. CASE BackToList \/ SubmitBadNote \/ EditField \/ SubmitNoEdit \/ OpenCreate \/ CancelCreate
           \/ SubmitBadCreate
  BY <1>0, <1>5, BackTyped, EditFieldTyped, SectionsTyped
<1>6. CASE OtherClient
  BY <1>0, <1>6, OtherClientTyped
<1>7. CASE UNCHANGED vars
  BY <1>0, <1>7 DEF vars, serverVars, listVars, recordVars, panelVars, TypeOK
<1> QED  BY <1>1, <1>2, <1>3, <1>4, <1>5, <1>6, <1>7 DEF Next

-----------------------------------------------------------------------------
(***************************************************************************)
(* Sections.                                                               *)
(***************************************************************************)
LEMMA SectionStep == OneSection /\ [Next]_vars => OneSection'
<1> SUFFICES ASSUME OneSection, [Next]_vars PROVE OneSection'
  OBVIOUS
<1>1. ASSUME NEW t \in Tasks, Ask(t) PROVE OneSection'
  BY <1>1 DEF Ask, SubmitFilters, PrevPage, NextPage, LoadList, ClickRow, SubmitNote, SubmitEdit,
     SubmitCreate, OneSection
<1>2. ASSUME NEW t \in Tasks, Serve(t) \/ Fail(t) PROVE OneSection'
  BY <1>2 DEF Serve, Fail, OneSection
<1>3. ASSUME NEW t \in Tasks, Continue(t) PROVE OneSection'
  <2>1. CASE IncidentArrives(t)
    BY <2>1 DEF IncidentArrives, OnlyRecordView, OneSection
  <2>2. CASE CreateArrives(t)
    BY <2>2 DEF CreateArrives, OneSection
  <2>3. CASE \/ ListArrives(t) \/ PanelArrives(t) \/ PanelFails(t) \/ NoteArrives(t) \/ NoteFails(t)
             \/ EditArrives(t) \/ EditFails(t) \/ CreateFails(t)
    BY <2>3 DEF ListArrives, PanelArrives, PanelFails, NoteArrives, NoteFails, EditArrives, EditFails,
       CreateFails, OneSection
  <2> QED  BY <1>3, <2>1, <2>2, <2>3 DEF Continue
<1>4. CASE BackToList
  BY <1>4 DEF BackToList, OneSection
<1>5. CASE OpenCreate \/ CancelCreate
  BY <1>5 DEF OpenCreate, CancelCreate, OneSection
<1>6. CASE SubmitBadNote \/ EditField \/ SubmitNoEdit \/ SubmitBadCreate \/ OtherClient \/ UNCHANGED vars
  BY <1>6 DEF SubmitBadNote, EditField, SubmitNoEdit, SubmitBadCreate, OtherClient, vars, OneSection
<1> QED  BY <1>1, <1>2, <1>3, <1>4, <1>5, <1>6 DEF Next

(***************************************************************************)
(* The record that is shown.                                               *)
(***************************************************************************)
LEMMA IncidentsStay == [Next]_vars => DOMAIN incidents \subseteq DOMAIN incidents'
<1> SUFFICES ASSUME [Next]_vars PROVE DOMAIN incidents \subseteq DOMAIN incidents'
  OBVIOUS
<1>1. ASSUME NEW t \in Tasks, Ask(t) \/ Fail(t) \/ Continue(t)
      PROVE  incidents' = incidents
  BY <1>1 DEF Ask, SubmitFilters, PrevPage, NextPage, LoadList, ClickRow, SubmitNote, SubmitEdit,
     SubmitCreate, Fail, Continue, ListArrives, IncidentArrives, PanelArrives, PanelFails, NoteArrives,
     NoteFails, EditArrives, EditFails, CreateArrives, CreateFails, serverVars
<1>2. ASSUME NEW t \in Tasks, Serve(t)
      PROVE  DOMAIN incidents \subseteq DOMAIN incidents'
  <2>1. CASE ServeRead(t) \/ ServeNote(t)
    BY <2>1 DEF ServeRead, ServeNote, serverVars
  <2>2. CASE ServePatch(t)
    BY <2>2 DEF ServePatch
  <2>3. CASE ServeCreate(t)
    BY <2>3 DEF ServeCreate
  <2> QED  BY <1>2, <2>1, <2>2, <2>3 DEF Serve
<1>3. CASE \/ BackToList \/ SubmitBadNote \/ EditField \/ SubmitNoEdit \/ OpenCreate \/ CancelCreate
           \/ SubmitBadCreate \/ UNCHANGED vars
  BY <1>3 DEF BackToList, SubmitBadNote, EditField, SubmitNoEdit, OpenCreate, CancelCreate,
     SubmitBadCreate, vars, serverVars
<1>4. CASE OtherClient
  BY <1>4 DEF OtherClient
<1> QED  BY <1>1, <1>2, <1>3, <1>4 DEF Next

\* The fields that the user has left alone are as renderRecordFields drew them.
FormFollows == "record" \in view => \A f \in Fields \ touched : form[f] = Filled(shown.fields)[f]

\* Handlers that neither open a record nor draw one.
LEMMA RecordKept ==
    ASSUME Inv, FormFollows, UNCHANGED recordVars, "record" \in view' => "record" \in view,
           DOMAIN incidents \subseteq DOMAIN incidents'
    PROVE  ShownRecordIsCurrent' /\ FormFollows'
BY DEF Inv, ShownRecordIsCurrent, FormFollows, recordVars

\* Handlers that draw a row that has arrived.
LEMMA RecordDrawn ==
    ASSUME NEW row, row.number \in DOMAIN incidents', current' = row, Render(row)
    PROVE  ShownRecordIsCurrent' /\ FormFollows'
BY DEF ShownRecordIsCurrent, FormFollows, Render

LEMMA RecordStep == Inv /\ FormFollows /\ [Next]_vars => ShownRecordIsCurrent' /\ FormFollows'
<1> SUFFICES ASSUME Inv, FormFollows, [Next]_vars PROVE ShownRecordIsCurrent' /\ FormFollows'
  OBVIOUS
<1>0. DOMAIN incidents \subseteq DOMAIN incidents'
  BY IncidentsStay
<1>1. ASSUME NEW t \in Tasks, Ask(t) PROVE UNCHANGED recordVars /\ view' = view
  BY <1>1 DEF Ask, SubmitFilters, PrevPage, NextPage, LoadList, ClickRow, SubmitNote, SubmitEdit,
     SubmitCreate
<1>2. ASSUME NEW t \in Tasks, Serve(t) \/ Fail(t) PROVE UNCHANGED recordVars /\ view' = view
  BY <1>2 DEF Serve, Fail
<1>3. ASSUME NEW t \in Tasks, Continue(t) PROVE ShownRecordIsCurrent' /\ FormFollows'
  <2>0. WellFormed(tasks[t], DOMAIN incidents)
    BY DEF Inv, TypeOK
  <2>1. CASE IncidentArrives(t) /\ Answered(t, "incident")
    <3>1. tasks[t].answer.number \in DOMAIN incidents
      BY <2>0, <2>1 DEF WellFormed, Answered
    <3>2. current' = tasks[t].answer /\ Render(tasks[t].answer)
      BY <2>1 DEF IncidentArrives, Answered, Failed
    <3> QED  BY <1>0, <3>1, <3>2, RecordDrawn
  <2>2. CASE IncidentArrives(t) /\ ~Answered(t, "incident")
    <3>1. UNCHANGED recordVars /\ view' = view
      BY <2>2 DEF IncidentArrives
    <3> QED  BY <1>0, <3>1, RecordKept
  <2>3. CASE EditArrives(t)
    <3>1. tasks[t].answer.number \in DOMAIN incidents
      BY <2>0, <2>3 DEF WellFormed, Answered, EditArrives
    <3>2. current' = tasks[t].answer /\ Render(tasks[t].answer)
      BY <2>3 DEF EditArrives
    <3> QED  BY <1>0, <3>1, <3>2, RecordDrawn
  <2>4. CASE \/ ListArrives(t) \/ PanelArrives(t) \/ PanelFails(t) \/ NoteArrives(t) \/ NoteFails(t)
             \/ EditFails(t) \/ CreateArrives(t) \/ CreateFails(t)
    <3>1. UNCHANGED recordVars /\ ("record" \in view' => "record" \in view)
      BY <2>4 DEF ListArrives, PanelArrives, PanelFails, NoteArrives, NoteFails, EditFails,
         CreateArrives, CreateFails
    <3> QED  BY <1>0, <3>1, RecordKept
  <2> QED  BY <1>3, <2>1, <2>2, <2>3, <2>4 DEF Continue
<1>4. CASE BackToList
  <2>1. "record" \notin view'
    BY <1>4 DEF BackToList
  <2> QED  BY <2>1 DEF ShownRecordIsCurrent, FormFollows
<1>5. CASE EditField
  <2>1. PICK f \in Fields : \E s \in Typed(f) : /\ form' = [form EXCEPT ![f] = s]
                                               /\ touched' = touched \cup {f}
    BY <1>5 DEF EditField
  <2>2. current' = current /\ shown' = shown /\ view' = view
    BY <1>5 DEF EditField
  <2>3. \A g \in Fields \ touched' : form'[g] = form[g]
    BY <2>1
  <2>4. FormFollows'
    BY <2>1, <2>2, <2>3 DEF FormFollows
  <2>5. ShownRecordIsCurrent'
    BY <1>0, <2>2 DEF Inv, ShownRecordIsCurrent
  <2> QED  BY <2>4, <2>5
<1>6. CASE OpenCreate \/ CancelCreate
  <2>1. UNCHANGED recordVars /\ ("record" \in view' => "record" \in view)
    BY <1>6 DEF OpenCreate, CancelCreate
  <2> QED  BY <1>0, <2>1, RecordKept
<1>7. CASE SubmitBadNote \/ SubmitNoEdit \/ SubmitBadCreate \/ OtherClient \/ UNCHANGED vars
  <2>1. UNCHANGED recordVars /\ view' = view
    BY <1>7 DEF SubmitBadNote, SubmitNoEdit, SubmitBadCreate, OtherClient, vars
  <2> QED  BY <1>0, <2>1, RecordKept
<1> QED  BY <1>0, <1>1, <1>2, <1>3, <1>4, <1>5, <1>6, <1>7, RecordKept DEF Next

-----------------------------------------------------------------------------
LEMMA InvInit == Init => Inv /\ FormFollows
BY TypedInit DEF Init, Inv, OneSection, ShownRecordIsCurrent, FormFollows

LEMMA InvStep == Inv /\ FormFollows /\ [Next]_vars => (Inv /\ FormFollows)'
BY TypedStep, SectionStep, RecordStep DEF Inv

THEOREM InvIsInvariant == Spec => [](Inv /\ FormFollows)
BY InvInit, InvStep, PTL DEF Spec

\* The page's variables and the requests under way have their types, whatever
\* the order of clicks, answers and failures (incident.js:206-323).
THEOREM ConsoleTypeCorrect == Spec => []TypeOK
<1>1. Inv => TypeOK
  BY DEF Inv
<1> QED  BY <1>1, InvIsInvariant, PTL

\* Two sections of the page are never shown together (incident.js:212-214,
\* 246-247, 331-339, 363).
THEOREM OneViewAtATime == Spec => []AtMostOneView
<1>1. Inv => AtMostOneView
  <2> SUFFICES ASSUME OneSection PROVE AtMostOneView
    BY DEF Inv
  <2>1. CASE view = {}
    <3>1. Cardinality({}) = 0
      BY FS_EmptySet
    <3> QED  BY <2>1, <3>1 DEF AtMostOneView
  <2>2. CASE \E section : view = {section}
    <3>1. PICK section : view = {section}
      BY <2>2
    <3>2. Cardinality({section}) = 1
      BY FS_Singleton
    <3> QED  BY <3>1, <3>2 DEF AtMostOneView
  <2> QED  BY <2>1, <2>2 DEF OneSection
<1> QED  BY <1>1, InvIsInvariant, PTL

\* While a record is shown, currentIncident is what is drawn, and exists: the
\* handlers that read it without a test never meet null (incident.js:283, 304).
THEOREM CurrentIsShown == Spec => []ShownRecordIsCurrent
<1>1. Inv => ShownRecordIsCurrent
  BY DEF Inv
<1> QED  BY <1>1, InvIsInvariant, PTL

-----------------------------------------------------------------------------
(***************************************************************************)
(* What a PATCH sends.                                                     *)
(***************************************************************************)
OnlyTouched(r) == r.kind = "patch" => DOMAIN r.args.patch \subseteq r.args.touched

LEMMA OtherTaskOnlyTouched ==
    ASSUME TypeOK, PatchOnlyTouched, NEW t \in Tasks, NEW r, OnlyTouched(r),
           tasks' = [tasks EXCEPT ![t] = r]
    PROVE  PatchOnlyTouched'
<1>1. ASSUME NEW u \in Tasks PROVE tasks'[u] = IF u = t THEN r ELSE tasks[u]
  BY DEF TypeOK
<1> QED  BY <1>1 DEF PatchOnlyTouched, OnlyTouched

LEMMA RequestOnlyTouched ==
    /\ OnlyTouched(NoRequest)
    /\ \A kind, number, args : kind # "patch" => OnlyTouched(Request(kind, number, args))
BY DEF OnlyTouched, NoRequest, Request

LEMMA SettledOnlyTouched ==
    ASSUME NEW r, NEW status, NEW answer, OnlyTouched(r)
    PROVE  OnlyTouched(Settled(r, status, answer))
BY DEF OnlyTouched, Settled

LEMMA SubmitEditOnlyTouched ==
    ASSUME Unlisted = {}, EmptyTexts = {}, Inv, FormFollows, "record" \in view
    PROVE  DOMAIN Diff(current.fields, form) \subseteq touched
<1> DEFINE row == current.fields
<1>1. TypeOK /\ ShownRecordIsCurrent
  BY DEF Inv
<1>2. row \in Rows
  BY <1>1, CurrentExists DEF Row
<1>3. current = shown
  BY <1>1 DEF ShownRecordIsCurrent
<1>4. \A f \in Fields \ touched : form[f] = Filled(row)[f]
  BY <1>3 DEF FormFollows
<1> HIDE DEF row
<1>5. ASSUME NEW f \in Fields \ touched PROVE Read(f, form[f]) = row[f]
  <2>1. Read(f, Filled(row)[f]) = row[f]
    BY <1>2, ReadBack
  <2>2. form[f] = Filled(row)[f]
    BY <1>4
  <2> QED  BY <2>1, <2>2
<1>6. DOMAIN Diff(row, form) \subseteq touched
  BY <1>5 DEF Diff
<1> QED  BY <1>6 DEF row

LEMMA OnlyTouchedStep ==
    ASSUME Unlisted = {}, EmptyTexts = {}
    PROVE  Inv /\ FormFollows /\ PatchOnlyTouched /\ [Next]_vars => PatchOnlyTouched'
<1> SUFFICES ASSUME Inv, FormFollows, PatchOnlyTouched, [Next]_vars PROVE PatchOnlyTouched'
  OBVIOUS
<1>0. TypeOK
  BY DEF Inv
<1>1. ASSUME NEW t \in Tasks, Ask(t) PROVE PatchOnlyTouched'
  <2>1. CASE SubmitFilters(t) \/ PrevPage(t) \/ NextPage(t)
    <3>1. PICK flt, p : tasks' = [tasks EXCEPT ![t] = Request("list", Null, <<flt, p>>)]
      BY <2>1 DEF SubmitFilters, PrevPage, NextPage, LoadList, Start
    <3> QED  BY <1>0, <3>1, RequestOnlyTouched, OtherTaskOnlyTouched
  <2>2. CASE ClickRow(t)
    <3>1. PICK n : tasks' = [tasks EXCEPT ![t] = Request("incident", n, Null)]
      BY <2>2 DEF ClickRow, Start
    <3> QED  BY <1>0, <3>1, RequestOnlyTouched, OtherTaskOnlyTouched
  <2>3. CASE SubmitNote(t)
    <3>1. tasks' = [tasks EXCEPT ![t] = Request("note", current.number, Null)]
      BY <2>3 DEF SubmitNote, Start
    <3> QED  BY <1>0, <3>1, RequestOnlyTouched, OtherTaskOnlyTouched
  <2>4. CASE SubmitEdit(t)
    <3> DEFINE patch == Diff(current.fields, form)
               r == Request("patch", current.number, [patch |-> patch, touched |-> touched])
    <3>1. DOMAIN patch \subseteq touched
      BY <2>4, SubmitEditOnlyTouched DEF SubmitEdit
    <3>2. tasks' = [tasks EXCEPT ![t] = r]
      BY <2>4 DEF SubmitEdit, Start
    <3> HIDE DEF patch
    <3>3. OnlyTouched(r)
      BY <3>1 DEF OnlyTouched, Request
    <3> HIDE DEF r
    <3> QED  BY <1>0, <3>2, <3>3, OtherTaskOnlyTouched
  <2>5. CASE SubmitCreate(t)
    <3>1. PICK row : tasks' = [tasks EXCEPT ![t] = Request("create", Null, row)]
      BY <2>5 DEF SubmitCreate, Start
    <3> QED  BY <1>0, <3>1, RequestOnlyTouched, OtherTaskOnlyTouched
  <2> QED  BY <1>1, <2>1, <2>2, <2>3, <2>4, <2>5 DEF Ask
<1>2. ASSUME NEW t \in Tasks, Serve(t) \/ Fail(t) PROVE PatchOnlyTouched'
  <2>1. PICK status, answer : tasks' = [tasks EXCEPT ![t] = Settled(tasks[t], status, answer)]
    BY <1>2 DEF Serve, ServeRead, ServeNote, ServePatch, ServeCreate, Fail, Reply, Refuse
  <2>2. OnlyTouched(tasks[t])
    BY DEF PatchOnlyTouched, OnlyTouched
  <2>3. OnlyTouched(Settled(tasks[t], status, answer))
    BY <2>2, SettledOnlyTouched
  <2> QED  BY <1>0, <2>1, <2>3, OtherTaskOnlyTouched
<1>3. ASSUME NEW t \in Tasks, Continue(t) PROVE PatchOnlyTouched'
  <2>1. CASE \/ ListArrives(t) \/ NoteArrives(t) \/ NoteFails(t) \/ EditArrives(t) \/ EditFails(t)
             \/ CreateFails(t)
    <3>1. tasks' = [tasks EXCEPT ![t] = NoRequest]
      BY <2>1 DEF ListArrives, NoteArrives, NoteFails, EditArrives, EditFails, CreateFails, Await
    <3> QED  BY <1>0, <3>1, RequestOnlyTouched, OtherTaskOnlyTouched
  <2>2. CASE IncidentArrives(t)
    <3>1. \/ tasks' = [tasks EXCEPT ![t] = Request("notes", tasks[t].number, Null)]
          \/ tasks' = [tasks EXCEPT ![t] = NoRequest]
      BY <2>2 DEF IncidentArrives, Await
    <3> QED  BY <1>0, <3>1, RequestOnlyTouched, OtherTaskOnlyTouched
  <2>3. CASE PanelArrives(t) \/ PanelFails(t)
    <3> DEFINE kind == After(tasks[t].kind)
    <3>1. tasks[t].kind \in {"notes", "sla", "escalations"} /\ AwaitNext(t)
      BY <2>3 DEF PanelArrives, PanelFails, Answered, Failed
    <3>2. kind # "patch"
      BY <3>1 DEF After
    <3>3. tasks' = [tasks EXCEPT ![t] = IF kind = "idle" THEN NoRequest
                                                         ELSE Request(kind, tasks[t].number, Null)]
      BY <3>1 DEF AwaitNext, Await
    <3> HIDE DEF kind
    <3>4. OnlyTouched(IF kind = "idle" THEN NoRequest ELSE Request(kind, tasks[t].number, Null))
      BY <3>2, RequestOnlyTouched
    <3> QED  BY <1>0, <3>3, <3>4, OtherTaskOnlyTouched
  <2>4. CASE CreateArrives(t)
    <3>1. tasks' = [tasks EXCEPT ![t] = Request("incident", tasks[t].answer, Null)]
      BY <2>4 DEF CreateArrives, Await
    <3> QED  BY <1>0, <3>1, RequestOnlyTouched, OtherTaskOnlyTouched
  <2> QED  BY <1>3, <2>1, <2>2, <2>3, <2>4 DEF Continue
<1>4. CASE \/ BackToList \/ SubmitBadNote \/ EditField \/ SubmitNoEdit \/ OpenCreate \/ CancelCreate
           \/ SubmitBadCreate \/ OtherClient \/ UNCHANGED vars
  <2>1. tasks' = tasks
    BY <1>4 DEF BackToList, SubmitBadNote, EditField, SubmitNoEdit, OpenCreate, CancelCreate,
       SubmitBadCreate, OtherClient, vars
  <2> QED  BY <2>1 DEF PatchOnlyTouched
<1> QED  BY <1>1, <1>2, <1>3, <1>4 DEF Next

\* Where every value that a row may hold can be shown by the form and read
\* back, saving never writes a field that the user left alone, so it never
\* takes back what another client wrote there (incident-logic.js:88-104).  The
\* two assumptions are needed: the run console_unlisted is a counterexample
\* where a row has a priority that the form does not list.
THEOREM OnlyTouchedIsPatched ==
    ASSUME Unlisted = {}, EmptyTexts = {}
    PROVE  Spec => []PatchOnlyTouched
<1>1. Init => PatchOnlyTouched
  BY DEF Init, PatchOnlyTouched, Request, NoRequest
<1>2. Inv /\ FormFollows /\ PatchOnlyTouched /\ [Next]_vars => PatchOnlyTouched'
  BY OnlyTouchedStep
<1> QED  BY <1>1, <1>2, InvIsInvariant, PTL DEF Spec

-----------------------------------------------------------------------------
(***************************************************************************)
(* A patient user.  One request is under way at most, and the invariant    *)
(* says of its kind what the page shows meanwhile (Fits), and of the page  *)
(* at rest what it shows then (Rest); if no request can fail, more is true *)
(* of both (CalmFits, CalmRest).                                           *)
(***************************************************************************)
OfPanels == {"notes", "sla", "escalations"}

Kinds == {"list", "incident", "note", "patch", "create"} \cup OfPanels

Alone == \A t, u \in Tasks : ~Idle(t) /\ ~Idle(u) => t = u

Announced == "incidents" \in errors

\* Panel by panel: it belongs to the incident in the heading, or a failure is shown.
TimelineFits == Announced \/ timeline \in Seq({shown.number} \X Nat)
SlaFits == Announced \/ sla = shown.number
EscalationFits == Announced \/ escalation = shown.number

\* The answers are about the incident that was asked for.
AnswerFits(r) ==
    r.status = "ok" =>
        /\ r.kind \in {"incident", "patch"} => r.answer.number = r.number
        /\ r.kind = "notes" => r.answer \in Seq({r.number} \X Nat)
        /\ r.kind \in {"sla", "escalations"} => r.answer = r.number
        /\ r.kind = "note" => r.answer \in {r.number} \X Nat

\* A request is made from a section, which stays until the answer is there; the
\* panels are loaded one after the other.
Fits(r) ==
    /\ r.kind \in Kinds
    /\ r.kind = "list" => view = {"list"}
    /\ r.kind = "incident" => view \in {{"list"}, {}}
    /\ r.kind = "create" => view = {"create"}
    /\ r.kind \in OfPanels \cup {"note", "patch"} => view = {"record"} /\ r.number = shown.number
    /\ r.kind \in {"sla", "escalations", "note", "patch"} => TimelineFits
    /\ r.kind \in {"escalations", "note", "patch"} => SlaFits
    /\ r.kind \in {"note", "patch"} => EscalationFits
    /\ AnswerFits(r)

Rest == "record" \in view => TimelineFits /\ SlaFits /\ EscalationFits

OneByOne ==
    /\ Alone
    /\ \A t \in Tasks : ~Idle(t) => Fits(tasks[t])
    /\ Quiet => Rest

TableFits == table.filters = filters /\ table.page = page

StoredFits == shown.fields = incidents[shown.number]

\* Nothing but a PATCH is refused; the table is behind only while a list is
\* loaded, and the record only while the answer to a PATCH is on its way.
CalmFits(r) ==
    /\ r.status = "failed" => r.kind = "patch"
    /\ IF r.kind = "list"
       THEN /\ r.args = <<filters, page>>
            /\ r.status = "ok" => r.answer.filters = filters /\ r.answer.page = page
       ELSE TableFits
    /\ others = 0 /\ r.kind \in {"incident", "patch"} /\ r.status = "ok" =>
           r.answer.fields = incidents[r.answer.number]
    /\ others = 0 /\ view = {"record"} /\ ~(r.kind = "patch" /\ r.status = "ok") => StoredFits

CalmRest == TableFits /\ (others = 0 /\ "record" \in view => StoredFits)

Calm ==
    /\ ~Announced /\ others \in Nat
    /\ \A t \in Tasks : ~Idle(t) => CalmFits(tasks[t])
    /\ Quiet => CalmRest


(***************************************************************************)
(* A task moves, and is then the only one.                                 *)
(***************************************************************************)
LEMMA TaskMoves ==
    ASSUME TypeOK, Alone, NEW t \in Tasks, ~Idle(t) \/ Quiet, NEW r,
           tasks' = [tasks EXCEPT ![t] = r]
    PROVE  /\ tasks'[t] = r /\ Alone'
           /\ \A u \in Tasks : ~Idle(u)' => u = t
           /\ Quiet' <=> r.kind = "idle"
<1>1. \A u \in Tasks : tasks'[u] = IF u = t THEN r ELSE tasks[u]
  BY DEF TypeOK
<1>2. \A u \in Tasks : u # t => tasks[u].kind = "idle"
  BY DEF Alone, Quiet, Idle
<1>3. \A u \in Tasks : tasks'[u].kind # "idle" => u = t
  BY <1>1, <1>2
<1>4. tasks'[t] = r
  BY <1>1
<1> QED  BY <1>3, <1>4 DEF Alone, Quiet, Idle

LEMMA OneByOneMoves ==
    ASSUME TypeOK, Alone, NEW t \in Tasks, ~Idle(t) \/ Quiet, NEW r,
           tasks' = [tasks EXCEPT ![t] = r],
           r.kind # "idle" => Fits(tasks[t])', r.kind = "idle" => Rest'
    PROVE  OneByOne'
<1>1. /\ tasks'[t] = r /\ Alone'
      /\ \A u \in Tasks : ~Idle(u)' => u = t
      /\ Quiet' <=> r.kind = "idle"
  BY TaskMoves
<1>2. ASSUME NEW u \in Tasks, ~Idle(u)' PROVE Fits(tasks[u])'
  <2>1. u = t
    BY <1>1, <1>2
  <2>2. Fits(tasks[t])'
    BY <1>1, <1>2, <2>1 DEF Idle
  <2> QED  BY <2>1, <2>2
<1> QED  BY <1>1, <1>2 DEF OneByOne

LEMMA CalmMoves ==
    ASSUME TypeOK, Alone, NEW t \in Tasks, ~Idle(t) \/ Quiet, NEW r,
           tasks' = [tasks EXCEPT ![t] = r], ~Announced', others' \in Nat,
           r.kind # "idle" => CalmFits(tasks[t])', r.kind = "idle" => CalmRest'
    PROVE  Calm'
<1>1. /\ tasks'[t] = r
      /\ \A u \in Tasks : ~Idle(u)' => u = t
      /\ Quiet' <=> r.kind = "idle"
  BY TaskMoves
<1>2. ASSUME NEW u \in Tasks, ~Idle(u)' PROVE CalmFits(tasks[u])'
  <2>1. u = t
    BY <1>1, <1>2
  <2>2. CalmFits(tasks[t])'
    BY <1>1, <1>2, <2>1 DEF Idle
  <2> QED  BY <2>1, <2>2
<1> QED  BY <1>1, <1>2 DEF Calm

LEMMA PatientInit == Init => OneByOne /\ Calm
<1> SUFFICES ASSUME Init PROVE OneByOne /\ Calm
  OBVIOUS
<1>1. PICK t \in Tasks : tasks = [u \in Tasks |-> IF u = t THEN Request("list", Null, <<filters, page>>)
                                                            ELSE NoRequest]
  BY DEF Init
<1>2. /\ tasks[t].kind = "list" /\ tasks[t].status = "sent" /\ tasks[t].args = <<filters, page>>
      /\ \A u \in Tasks : ~Idle(u) => u = t
      /\ ~Quiet
  BY <1>1 DEF Idle, Quiet, NoRequest, Request
<1>3. view = {"list"} /\ errors = {} /\ others = 0
  BY DEF Init
<1>4. Fits(tasks[t])
  BY <1>2, <1>3 DEF Fits, Kinds, OfPanels, AnswerFits
<1>5. CalmFits(tasks[t])
  BY <1>2, <1>3 DEF CalmFits
<1>6. Alone
  BY <1>2 DEF Alone
<1> QED  BY <1>2, <1>3, <1>4, <1>5, <1>6 DEF OneByOne, Calm, Announced

(***************************************************************************)
(* The user asks.                                                          *)
(***************************************************************************)
\* What is asked, and from which section.
AsksFor(r) ==
    /\ r.status = "sent"
    /\ \/ r.kind = "list" /\ view = {"list"} /\ r.args = <<filters', page'>>
       \/ /\ UNCHANGED <<filters, page>>
          /\ \/ r.kind = "incident" /\ view = {"list"}
             \/ r.kind = "create" /\ view = {"create"}
             \/ r.kind \in {"note", "patch"} /\ view = {"record"} /\ r.number = shown.number

LEMMA AskEffect ==
    ASSUME Patient, Inv, NEW t \in Tasks, Ask(t)
    PROVE  /\ Quiet
           /\ tasks' = [tasks EXCEPT ![t] = tasks'[t]]
           /\ AsksFor(tasks'[t])
           /\ UNCHANGED <<serverVars, table, recordVars, panelVars, view>>
           /\ Announced' = Announced
<1>0. /\ tasks = [u \in Tasks |-> tasks[u]]
      /\ \A section \in view : view = {section}
      /\ "record" \in view => current.number = shown.number
  BY DEF Inv, TypeOK, OneSection, ShownRecordIsCurrent
<1>1. CASE SubmitFilters(t) \/ PrevPage(t) \/ NextPage(t)
  <2>1. PICK flt, p : LoadList(t, flt, p)
    BY <1>1 DEF SubmitFilters, PrevPage, NextPage
  <2>2. "list" \in view
    BY <1>1 DEF SubmitFilters, PrevPage, NextPage
  <2>3. tasks'[t] = Request("list", Null, <<filters', page'>>) /\ Quiet
    BY <1>0, <2>1 DEF LoadList, Start
  <2>4. AsksFor(tasks'[t])
    BY <1>0, <2>2, <2>3 DEF AsksFor, Request
  <2>5. tasks' = [tasks EXCEPT ![t] = tasks'[t]]
    BY <1>0, <2>1 DEF LoadList, Start
  <2> QED  BY <2>1, <2>3, <2>4, <2>5 DEF LoadList, Announced
<1>2. CASE ClickRow(t)
  <2>1. PICK n : Start(t, Request("incident", n, Null))
    BY <1>2 DEF ClickRow
  <2>2. tasks'[t] = Request("incident", n, Null) /\ Quiet /\ tasks' = [tasks EXCEPT ![t] = tasks'[t]]
    BY <1>0, <2>1 DEF Start
  <2>3. AsksFor(tasks'[t])
    BY <1>0, <1>2, <2>2 DEF AsksFor, Request, ClickRow, listVars
  <2> QED  BY <1>2, <2>2, <2>3 DEF ClickRow, Announced, listVars
<1>3. CASE SubmitNote(t)
  <2>1. tasks'[t] = Request("note", current.number, Null) /\ Quiet
        /\ tasks' = [tasks EXCEPT ![t] = tasks'[t]]
    BY <1>0, <1>3 DEF SubmitNote, Start
  <2>2. AsksFor(tasks'[t])
    BY <1>0, <1>3, <2>1 DEF AsksFor, Request, SubmitNote, listVars
  <2> QED  BY <1>3, <2>1, <2>2 DEF SubmitNote, Announced, Hide, listVars
<1>4. CASE SubmitEdit(t)
  <2>1. PICK args : Start(t, Request("patch", current.number, args))
    BY <1>4 DEF SubmitEdit
  <2>2. tasks'[t] = Request("patch", current.number, args) /\ Quiet
        /\ tasks' = [tasks EXCEPT ![t] = tasks'[t]]
    BY <1>0, <2>1 DEF Start
  <2>3. "record" \in view /\ UNCHANGED <<serverVars, listVars, recordVars, panelVars, view, errors>>
    BY <1>4 DEF SubmitEdit
  <2>4. AsksFor(tasks'[t])
    BY <1>0, <2>2, <2>3 DEF AsksFor, Request, listVars
  <2> QED  BY <2>2, <2>3, <2>4 DEF Announced, listVars
<1>5. CASE SubmitCreate(t)
  <2>1. PICK row : Start(t, Request("create", Null, row))
    BY <1>5 DEF SubmitCreate
  <2>2. tasks'[t] = Request("create", Null, row) /\ Quiet /\ tasks' = [tasks EXCEPT ![t] = tasks'[t]]
    BY <1>0, <2>1 DEF Start
  <2>3. AsksFor(tasks'[t])
    BY <1>0, <1>5, <2>2 DEF AsksFor, Request, SubmitCreate, listVars
  <2> QED  BY <1>5, <2>2, <2>3 DEF SubmitCreate, Announced, Hide, listVars
<1> QED  BY <1>1, <1>2, <1>3, <1>4, <1>5 DEF Ask

LEMMA AskKept ==
    ASSUME Patient, Inv, OneByOne, NEW t \in Tasks, Ask(t)
    PROVE  OneByOne' /\ (Calm => Calm')
<1> DEFINE r == tasks'[t]
<1>0. TypeOK /\ Alone /\ (Quiet => Rest)
  BY DEF Inv, OneByOne
<1>1. /\ Quiet /\ tasks' = [tasks EXCEPT ![t] = r] /\ AsksFor(r)
      /\ UNCHANGED <<serverVars, table, recordVars, panelVars, view>>
      /\ Announced' = Announced
  BY AskEffect
<1>2. r.kind \in {"list", "incident", "create", "note", "patch"} /\ r.status = "sent"
  BY <1>1 DEF AsksFor
<1>3. TimelineFits' = TimelineFits /\ SlaFits' = SlaFits /\ EscalationFits' = EscalationFits
  BY <1>1 DEF TimelineFits, SlaFits, EscalationFits, recordVars, panelVars
<1>4. Fits(tasks[t])'
  <2>1. view' = view /\ shown' = shown
    BY <1>1 DEF recordVars
  <2>2. CASE r.kind \in {"note", "patch"}
    <3>1. view = {"record"} /\ r.number = shown.number /\ TimelineFits /\ SlaFits /\ EscalationFits
      BY <1>0, <1>1, <2>2 DEF AsksFor, Rest
    <3> QED  BY <1>2, <1>3, <2>1, <2>2, <3>1 DEF Fits, AnswerFits, Kinds, OfPanels
  <2>3. CASE r.kind \in {"list", "incident", "create"}
    <3>1. /\ r.kind = "list" \/ r.kind = "incident" => view = {"list"}
          /\ r.kind = "create" => view = {"create"}
      BY <1>1, <2>3 DEF AsksFor
    <3> QED  BY <1>2, <2>1, <2>3, <3>1 DEF Fits, AnswerFits, Kinds, OfPanels
  <2> QED  BY <1>2, <2>2, <2>3
<1>5. ASSUME Calm PROVE Calm'
  <2>1. ~Announced' /\ others' \in Nat /\ CalmRest
    BY <1>1, <1>5 DEF Calm, serverVars
  <2>2. UNCHANGED <<incidents, others, table, shown, view>>
    BY <1>1 DEF serverVars, recordVars
  <2>3. CalmFits(tasks[t])'
    <3>1. CASE r.kind = "list"
      BY <1>1, <2>1, <2>2, <3>1 DEF CalmFits, CalmRest, AsksFor, StoredFits
    <3>2. CASE r.kind # "list"
      BY <1>1, <2>1, <2>2, <3>2 DEF CalmFits, CalmRest, AsksFor, StoredFits, TableFits
    <3> QED  BY <3>1, <3>2
  <2> HIDE DEF r
  <2> QED  BY <1>0, <1>1, <1>2, <2>1, <2>3, CalmMoves
<1> HIDE DEF r
<1> QED  BY <1>0, <1>1, <1>2, <1>4, <1>5, OneByOneMoves

(***************************************************************************)
(* The API answers, or the request fails.                                  *)
(***************************************************************************)
\* What an answer says, and what it leaves in the API.
AnswersTo(r, s) ==
    /\ s.kind = r.kind /\ s.number = r.number /\ s.args = r.args
    /\ s.status = "ok" \/ (s.status = "failed" /\ r.kind = "patch")
    /\ AnswerFits(s)
    /\ r.kind = "list" => s.answer.filters = r.args[1] /\ s.answer.page = r.args[2]
    /\ r.kind \in {"incident", "patch"} /\ s.status = "ok" =>
           s.answer.fields = incidents'[s.answer.number]
    /\ r.kind \notin {"patch", "create"} \/ s.status = "failed" => incidents' = incidents
    /\ others' = others

LEMMA NoteSeqFits ==
    ASSUME NEW n, NEW count \in Nat
    PROVE  NoteSeq(n, count) \in Seq({n} \X Nat)
BY DEF NoteSeq

LEMMA ServeEffect ==
    ASSUME TypeOK, NEW t \in Tasks, Serve(t)
    PROVE  /\ ~Idle(t) /\ tasks' = [tasks EXCEPT ![t] = tasks'[t]]
           /\ AnswersTo(tasks[t], tasks'[t])
<1> DEFINE n == tasks[t].number
<1>0. tasks = [u \in Tasks |-> tasks[u]] /\ WellFormed(tasks[t], DOMAIN incidents)
  BY DEF TypeOK
<1>1. CASE ServeRead(t)
  <2>0. incidents' = incidents /\ others' = others
    BY <1>1 DEF ServeRead, serverVars
  <2>1. CASE Sent(t, "list") /\ \E flt, p, numbers : /\ Reply(t, TableOf(flt, p, numbers))
                                                    /\ flt = tasks[t].args[1] /\ p = tasks[t].args[2]
    <3>1. PICK flt, p, numbers : /\ Reply(t, TableOf(flt, p, numbers))
                                 /\ flt = tasks[t].args[1] /\ p = tasks[t].args[2]
      BY <2>1
    <3>2. /\ tasks'[t] = Settled(tasks[t], "ok", TableOf(flt, p, numbers))
          /\ tasks' = [tasks EXCEPT ![t] = tasks'[t]]
      BY <1>0, <3>1 DEF Reply
    <3>3. TableOf(flt, p, numbers).filters = flt /\ TableOf(flt, p, numbers).page = p
      BY DEF TableOf
    <3> QED  BY <2>0, <2>1, <3>1, <3>2, <3>3 DEF AnswersTo, AnswerFits, Settled, Sent, Idle
  <2>2. CASE Sent(t, "incident") /\ Reply(t, [number |-> n, fields |-> incidents[n]])
    <3>1. /\ tasks'[t] = Settled(tasks[t], "ok", [number |-> n, fields |-> incidents[n]])
          /\ tasks' = [tasks EXCEPT ![t] = tasks'[t]]
      BY <1>0, <2>2 DEF Reply
    <3> QED  BY <2>0, <2>2, <3>1 DEF AnswersTo, AnswerFits, Settled, Sent, Idle
  <2>3. CASE Sent(t, "notes") /\ \E count \in Nat : Reply(t, NoteSeq(n, count))
    <3>1. PICK count \in Nat : Reply(t, NoteSeq(n, count))
      BY <2>3
    <3>2. /\ tasks'[t] = Settled(tasks[t], "ok", NoteSeq(n, count))
          /\ tasks' = [tasks EXCEPT ![t] = tasks'[t]]
      BY <1>0, <3>1 DEF Reply
    <3>3. NoteSeq(n, count) \in Seq({n} \X Nat)
      BY NoteSeqFits
    <3> QED  BY <2>0, <2>3, <3>2, <3>3 DEF AnswersTo, AnswerFits, Settled, Sent, Idle
  <2>4. CASE (Sent(t, "sla") \/ Sent(t, "escalations")) /\ Reply(t, n)
    <3>1. tasks'[t] = Settled(tasks[t], "ok", n) /\ tasks' = [tasks EXCEPT ![t] = tasks'[t]]
      BY <1>0, <2>4 DEF Reply
    <3> QED  BY <2>0, <2>4, <3>1 DEF AnswersTo, AnswerFits, Settled, Sent, Idle
  <2>5. ASSUME Sent(t, "notes")
        PROVE  (IF notes[n] < NotePage THEN notes[n] ELSE NotePage) \in Nat
    <3>1. n \in DOMAIN incidents
      BY <1>0, <2>5 DEF WellFormed, Sent
    <3>2. notes[n] \in Nat /\ NotePage \in Nat
      BY <3>1, ConsoleAssumption DEF TypeOK
    <3> QED  BY <3>2
  <2> QED  BY <1>1, <2>1, <2>2, <2>3, <2>4, <2>5 DEF ServeRead
<1>2. CASE ServeNote(t)
  <2>1. n \in DOMAIN incidents /\ tasks[t].kind = "note"
    BY <1>0, <1>2 DEF WellFormed, ServeNote, Sent
  <2>2. notes[n] + 1 \in Nat
    BY <2>1 DEF TypeOK
  <2>3. /\ tasks'[t] = Settled(tasks[t], "ok", <<n, notes[n] + 1>>)
        /\ tasks' = [tasks EXCEPT ![t] = tasks'[t]]
        /\ incidents' = incidents /\ others' = others
    BY <1>0, <1>2 DEF ServeNote, Reply
  <2> QED  BY <2>1, <2>2, <2>3 DEF AnswersTo, AnswerFits, Settled, Idle
<1>3. CASE ServePatch(t)
  <2>1. tasks[t].kind = "patch" /\ others' = others
    BY <1>3 DEF ServePatch, Sent
  <2>2. n \in DOMAIN incidents
    BY <1>0, <2>1 DEF WellFormed
  <2>3. CASE \E row : incidents' = [incidents EXCEPT ![n] = row] /\ Reply(t, [number |-> n, fields |-> row])
    <3>1. PICK row : incidents' = [incidents EXCEPT ![n] = row] /\ Reply(t, [number |-> n, fields |-> row])
      BY <2>3
    <3>2. incidents'[n] = row
      BY <2>2, <3>1 DEF TypeOK
    <3>3. /\ tasks'[t] = Settled(tasks[t], "ok", [number |-> n, fields |-> row])
          /\ tasks' = [tasks EXCEPT ![t] = tasks'[t]]
      BY <1>0, <3>1 DEF Reply
    <3> QED  BY <2>1, <3>2, <3>3 DEF AnswersTo, AnswerFits, Settled, Idle
  <2>4. CASE Refuse(t) /\ UNCHANGED incidents
    <3>1. /\ tasks'[t] = Settled(tasks[t], "failed", Null)
          /\ tasks' = [tasks EXCEPT ![t] = tasks'[t]]
      BY <1>0, <2>4 DEF Refuse
    <3> QED  BY <2>1, <2>4, <3>1 DEF AnswersTo, AnswerFits, Settled, Idle
  <2> QED  BY <1>3, <2>3, <2>4 DEF ServePatch
<1>4. CASE ServeCreate(t)
  <2>1. PICK m : Reply(t, m)
    BY <1>4 DEF ServeCreate
  <2>2. tasks[t].kind = "create" /\ others' = others
    BY <1>4 DEF ServeCreate, Sent
  <2>3. tasks'[t] = Settled(tasks[t], "ok", m) /\ tasks' = [tasks EXCEPT ![t] = tasks'[t]]
    BY <1>0, <2>1 DEF Reply
  <2> QED  BY <2>2, <2>3 DEF AnswersTo, AnswerFits, Settled, Idle
<1> QED  BY <1>1, <1>2, <1>3, <1>4 DEF Serve

LEMMA ServeKept ==
    ASSUME Inv, OneByOne, NEW t \in Tasks, Serve(t)
    PROVE  OneByOne' /\ (Calm => Calm')
<1> DEFINE r == tasks[t]
           s == tasks'[t]
<1>0. TypeOK /\ Alone
  BY DEF Inv, OneByOne
<1>1. ~Idle(t) /\ tasks' = [tasks EXCEPT ![t] = s] /\ AnswersTo(r, s)
  BY <1>0, ServeEffect
<1>2. UNCHANGED <<listVars, recordVars, panelVars, view, errors>>
  BY DEF Serve
<1>3. Fits(r)
  BY <1>1 DEF OneByOne
<1>4. s.kind = r.kind /\ s.number = r.number /\ s.args = r.args /\ AnswerFits(s) /\ s.kind # "idle"
  BY <1>1 DEF AnswersTo, Idle
<1>5. Fits(tasks[t])'
  <2>1. /\ view' = view /\ shown' = shown /\ TimelineFits' = TimelineFits
        /\ SlaFits' = SlaFits /\ EscalationFits' = EscalationFits
    BY <1>2 DEF TimelineFits, SlaFits, EscalationFits, recordVars, panelVars, Announced
  <2>2. AnswerFits(tasks[t])'
    BY <1>4 DEF AnswerFits
  <2> HIDE DEF s
  <2> QED  BY <1>3, <1>4, <2>1, <2>2 DEF Fits, s
<1>6. ASSUME Calm PROVE Calm'
  <2>1. /\ ~Announced' /\ others' = others /\ others' \in Nat /\ CalmFits(r)
        /\ UNCHANGED <<filters, page, table, shown, view>>
    BY <1>1, <1>2, <1>6 DEF Calm, Announced, AnswersTo, listVars, recordVars
  <2>2. CalmFits(tasks[t])'
    <3>1. s.status = "failed" => s.kind = "patch"
      BY <1>1 DEF AnswersTo
    <3>2. CASE r.kind = "list"
      <4>1. r.args = <<filters, page>> /\ s.answer.filters = filters /\ s.answer.page = page
        BY <1>1, <2>1, <3>2 DEF CalmFits, AnswersTo
      <4>2. view # {"record"}
        BY <1>3, <3>2 DEF Fits
      <4> QED  BY <1>4, <2>1, <3>1, <3>2, <4>1, <4>2 DEF CalmFits
    <3>3. CASE r.kind # "list"
      <4>1. TableFits'
        BY <2>1, <3>3 DEF CalmFits, TableFits
      <4>2. s.kind \in {"incident", "patch"} /\ s.status = "ok" => s.answer.fields = incidents'[s.answer.number]
        BY <1>1, <1>4 DEF AnswersTo
      <4>3. ASSUME others' = 0, view' = {"record"}, ~(s.kind = "patch" /\ s.status = "ok")
            PROVE  StoredFits'
        <5>1. r.kind # "create"
          BY <1>3, <2>1, <4>3 DEF Fits
        <5>2. r.kind = "patch" => r.status # "ok"
          BY <1>1 DEF AnswersTo, Serve, ServeRead, ServeNote, ServePatch, ServeCreate, Sent
        <5>3. incidents' = incidents
          BY <1>1, <1>4, <4>3, <5>1 DEF AnswersTo
        <5>4. StoredFits
          BY <2>1, <4>3, <5>2 DEF CalmFits
        <5> QED  BY <2>1, <5>3, <5>4 DEF StoredFits
      <4> QED  BY <1>4, <3>1, <3>3, <4>1, <4>2, <4>3 DEF CalmFits
    <3> QED  BY <3>2, <3>3
  <2> HIDE DEF s
  <2> QED  BY <1>0, <1>1, <1>4, <2>1, <2>2, CalmMoves
<1> HIDE DEF s
<1> QED  BY <1>0, <1>1, <1>4, <1>5, <1>6, OneByOneMoves

LEMMA FailKept ==
    ASSUME Inv, OneByOne, NEW t \in Tasks, Fail(t)
    PROVE  OneByOne'
<1> DEFINE s == Settled(tasks[t], "failed", Null)
<1>0. TypeOK /\ Alone
  BY DEF Inv, OneByOne
<1>1. ~Idle(t) /\ tasks' = [tasks EXCEPT ![t] = s] /\ Fits(tasks[t])
  BY DEF Fail, Refuse, OneByOne
<1>2. tasks'[t] = s
  BY <1>0, <1>1 DEF TypeOK
<1>3. /\ s.kind = tasks[t].kind /\ s.number = tasks[t].number /\ s.status = "failed"
      /\ s.kind # "idle"
  BY <1>1 DEF Settled, Idle
<1>4. /\ view' = view /\ shown' = shown /\ TimelineFits' = TimelineFits
      /\ SlaFits' = SlaFits /\ EscalationFits' = EscalationFits
  BY DEF Fail, TimelineFits, SlaFits, EscalationFits, recordVars, panelVars, Announced
<1> HIDE DEF s
<1>5. Fits(tasks[t])'
  BY <1>1, <1>2, <1>3, <1>4 DEF Fits, AnswerFits
<1> QED  BY <1>0, <1>1, <1>3, <1>5, OneByOneMoves

(***************************************************************************)
(* A function goes on with what it got.                                    *)
(***************************************************************************)
\* The tasks after a step that ends its own.
LEMMA TaskEnds ==
    ASSUME Inv, OneByOne, NEW t \in Tasks, ~Idle(t), Await(t, NoRequest), Rest'
    PROVE  /\ OneByOne'
           /\ Calm /\ others' = others /\ ~Announced' /\ CalmRest' => Calm'
<1>0. TypeOK /\ Alone
  BY DEF Inv, OneByOne
<1>1. tasks' = [tasks EXCEPT ![t] = NoRequest] /\ NoRequest.kind = "idle"
  BY DEF Await, NoRequest, Request
<1>2. OneByOne'
  BY <1>0, <1>1, OneByOneMoves
<1>3. ASSUME Calm, others' = others, ~Announced', CalmRest' PROVE Calm'
  <2>1. others' \in Nat
    BY <1>3 DEF Calm
  <2> QED  BY <1>0, <1>1, <1>3, <2>1, CalmMoves
<1> QED  BY <1>2, <1>3

\* The tasks after a step that sends its next request.
LEMMA TaskGoesOn ==
    ASSUME Inv, OneByOne, NEW t \in Tasks, ~Idle(t), NEW kind \in Kinds, NEW number,
           Await(t, Request(kind, number, Null)),
           tasks'[t] = Request(kind, number, Null) => Fits(tasks[t])'
    PROVE  /\ OneByOne'
           /\ Calm /\ others' = others /\ ~Announced' /\ CalmFits(tasks[t])' => Calm'
<1> DEFINE r == Request(kind, number, Null)
<1>0. TypeOK /\ Alone
  BY DEF Inv, OneByOne
<1>1. tasks' = [tasks EXCEPT ![t] = r] /\ r.kind # "idle"
  BY DEF Await, Request, Kinds, OfPanels
<1>2. Fits(tasks[t])'
  BY <1>0, <1>1 DEF TypeOK
<1> HIDE DEF r
<1>3. OneByOne'
  BY <1>0, <1>1, <1>2, OneByOneMoves
<1>4. ASSUME Calm, others' = others, ~Announced', CalmFits(tasks[t])' PROVE Calm'
  <2>1. others' \in Nat
    BY <1>4 DEF Calm
  <2> QED  BY <1>0, <1>1, <1>4, <2>1, CalmMoves
<1> QED  BY <1>3, <1>4

LEMMA ListArrivesKept ==
    ASSUME Inv, OneByOne, NEW t \in Tasks, ListArrives(t)
    PROVE  OneByOne' /\ (Calm => Calm')
<1>1. /\ ~Idle(t) /\ Await(t, NoRequest) /\ tasks[t].kind = "list"
      /\ UNCHANGED <<filters, page, others, view>>
  BY DEF ListArrives, Answered, Failed, Idle, serverVars
<1>2. view = {"list"}
  BY <1>1 DEF OneByOne, Fits
<1>3. Rest'
  BY <1>1, <1>2 DEF Rest
<1>4. ASSUME Calm PROVE ~Announced' /\ CalmRest'
  <2>1. CalmFits(tasks[t]) /\ ~Announced
    BY <1>1, <1>4 DEF Calm
  <2>2. Answered(t, "list") /\ table' = tasks[t].answer /\ Hide("incidents")
    BY <1>1, <2>1 DEF ListArrives, CalmFits, Failed
  <2>3. table'.filters = filters /\ table'.page = page
    BY <1>1, <2>1, <2>2 DEF CalmFits, Answered
  <2> QED  BY <1>1, <1>2, <2>2, <2>3 DEF Announced, Hide, CalmRest, TableFits
<1> QED  BY <1>1, <1>3, <1>4, TaskEnds

LEMMA IncidentArrivesKept ==
    ASSUME Inv, OneByOne, NEW t \in Tasks, IncidentArrives(t)
    PROVE  OneByOne' /\ (Calm => Calm')
<1>1. ~Idle(t) /\ tasks[t].kind = "incident" /\ UNCHANGED <<serverVars, listVars>>
  BY DEF IncidentArrives, Answered, Failed, Idle
<1>2. Fits(tasks[t]) /\ "record" \notin view /\ TypeOK
  BY <1>1 DEF OneByOne, Fits, Inv
<1>3. CASE Answered(t, "incident")
  <2>1. /\ Await(t, Request("notes", tasks[t].number, Null))
        /\ shown' = tasks[t].answer /\ view' = {"record"} /\ Hide("incidents")
    BY <1>2, <1>3 DEF IncidentArrives, Answered, Failed, Render, OnlyRecordView, Fits
  <2>2. shown'.number = tasks[t].number
    BY <1>2, <1>3, <2>1 DEF Fits, AnswerFits, Answered
  <2>3. tasks'[t] = Request("notes", tasks[t].number, Null)
    BY <1>2, <2>1 DEF Await, TypeOK
  <2>4. Fits(tasks[t])'
    BY <2>1, <2>2, <2>3 DEF Fits, AnswerFits, Kinds, OfPanels, Request
  <2>5. ASSUME Calm PROVE others' = others /\ ~Announced' /\ CalmFits(tasks[t])'
    <3>1. CalmFits(tasks[t]) /\ others' = others /\ ~Announced'
      BY <1>1, <2>1, <2>5 DEF Calm, Announced, Hide, serverVars
    <3>2. TableFits'
      BY <1>1, <3>1 DEF CalmFits, TableFits, listVars
    <3>3. others = 0 => StoredFits'
      <4>1. others = 0 => tasks[t].answer.fields = incidents[tasks[t].answer.number]
        BY <1>1, <1>3, <3>1 DEF CalmFits, Answered
      <4> QED  BY <1>1, <2>1, <4>1 DEF StoredFits, serverVars
    <3> QED  BY <2>3, <3>1, <3>2, <3>3 DEF CalmFits, Request
  <2>6. "notes" \in Kinds
    BY DEF Kinds, OfPanels
  <2> QED  BY <1>1, <2>1, <2>4, <2>5, <2>6, TaskGoesOn
<1>4. CASE Failed(t, "incident") /\ Await(t, NoRequest) /\ view' = view
  <2>1. Rest'
    BY <1>2, <1>4 DEF Rest
  <2>2. ~Calm
    BY <1>1, <1>4 DEF Calm, CalmFits, Failed
  <2> QED  BY <1>1, <1>4, <2>1, <2>2, TaskEnds
<1> QED  BY <1>3, <1>4 DEF IncidentArrives

\* What a panel shows after its turn, whether its request has failed or not.
LEMMA PanelTurn ==
    ASSUME Inv, OneByOne, NEW t \in Tasks, PanelArrives(t) \/ PanelFails(t)
    PROVE  /\ ~Idle(t) /\ AwaitNext(t) /\ tasks[t].kind \in OfPanels
           /\ view = {"record"} /\ view' = view /\ shown' = shown
           /\ tasks[t].number = shown.number
           /\ UNCHANGED <<serverVars, listVars>>
           /\ TimelineFits'
           /\ tasks[t].kind \in {"sla", "escalations"} => SlaFits'
           /\ tasks[t].kind = "escalations" => EscalationFits'
           /\ Calm => ~Announced'
<1>1. /\ ~Idle(t) /\ AwaitNext(t) /\ tasks[t].kind \in OfPanels /\ view' = view /\ shown' = shown
      /\ UNCHANGED <<serverVars, listVars>>
  BY DEF PanelArrives, PanelFails, Answered, Failed, Idle, OfPanels, recordVars
<1>2. Fits(tasks[t])
  BY <1>1 DEF OneByOne
<1>3. view = {"record"} /\ tasks[t].number = shown.number
  BY <1>1, <1>2 DEF Fits
<1>4. CASE PanelFails(t)
  <2>1. Announced' /\ tasks[t].status = "failed"
    BY <1>4 DEF PanelFails, Show, Announced, Failed
  <2>2. ~Calm
    BY <1>1, <2>1 DEF Calm, CalmFits, OfPanels
  <2> QED  BY <1>1, <1>3, <2>1, <2>2 DEF TimelineFits, SlaFits, EscalationFits
<1>5. CASE PanelArrives(t)
  <2>1. Announced' = Announced /\ tasks[t].status = "ok"
    BY <1>5 DEF PanelArrives, Announced, Answered
  <2>2. AnswerFits(tasks[t])
    BY <1>2 DEF Fits
  <2>3. CASE Answered(t, "notes") /\ timeline' = tasks[t].answer
    BY <1>1, <1>3, <2>1, <2>2, <2>3 DEF AnswerFits, Answered, TimelineFits, Calm
  <2>4. CASE Answered(t, "sla") /\ sla' = tasks[t].answer /\ timeline' = timeline
    <3>1. TimelineFits'
      BY <1>1, <1>2, <2>1, <2>4 DEF Fits, Answered, TimelineFits
    <3> QED  BY <1>1, <1>3, <2>1, <2>2, <2>4, <3>1 DEF AnswerFits, Answered, SlaFits, Calm
  <2>5. CASE Answered(t, "escalations") /\ escalation' = tasks[t].answer /\ UNCHANGED <<timeline, sla>>
    <3>1. TimelineFits' /\ SlaFits'
      BY <1>1, <1>2, <2>1, <2>5 DEF Fits, Answered, TimelineFits, SlaFits
    <3> QED  BY <1>1, <1>3, <2>1, <2>2, <2>5, <3>1 DEF AnswerFits, Answered, EscalationFits, Calm
  <2> QED  BY <1>5, <2>3, <2>4, <2>5 DEF PanelArrives
<1> QED  BY <1>4, <1>5

LEMMA PanelKept ==
    ASSUME Inv, OneByOne, NEW t \in Tasks, PanelArrives(t) \/ PanelFails(t)
    PROVE  OneByOne' /\ (Calm => Calm')
<1> DEFINE kind == After(tasks[t].kind)
<1>1. /\ ~Idle(t) /\ AwaitNext(t) /\ tasks[t].kind \in OfPanels
      /\ view = {"record"} /\ view' = view /\ shown' = shown
      /\ tasks[t].number = shown.number
      /\ UNCHANGED <<serverVars, listVars>>
      /\ TimelineFits'
      /\ tasks[t].kind \in {"sla", "escalations"} => SlaFits'
      /\ tasks[t].kind = "escalations" => EscalationFits'
      /\ Calm => ~Announced'
  BY PanelTurn
<1>2. /\ kind \in {"sla", "escalations", "idle"}
      /\ kind # "sla" => tasks[t].kind \in {"sla", "escalations"}
      /\ kind = "idle" => tasks[t].kind = "escalations"
  BY <1>1 DEF After, OfPanels
<1>3. Await(t, IF kind = "idle" THEN NoRequest ELSE Request(kind, tasks[t].number, Null))
  BY <1>1 DEF AwaitNext
<1> HIDE DEF kind
<1>4. ASSUME Calm PROVE others' = others /\ TableFits' /\ (others = 0 => StoredFits')
  <2>1. CalmFits(tasks[t])
    BY <1>1, <1>4 DEF Calm
  <2> QED
    BY <1>1, <2>1 DEF CalmFits, OfPanels, TableFits, StoredFits, serverVars, listVars
<1>5. CASE kind = "idle"
  <2>1. Rest'
    BY <1>1, <1>2, <1>5 DEF Rest
  <2>2. Await(t, NoRequest)
    BY <1>3, <1>5
  <2>3. Calm => CalmRest'
    BY <1>4 DEF CalmRest
  <2> QED  BY <1>1, <1>4, <2>1, <2>2, <2>3, TaskEnds
<1>6. CASE kind # "idle"
  <2>1. Await(t, Request(kind, tasks[t].number, Null))
    BY <1>3, <1>6
  <2>2. tasks'[t] = Request(kind, tasks[t].number, Null)
    BY <2>1 DEF Await, Inv, TypeOK
  <2>3. Fits(tasks[t])'
    BY <1>1, <1>2, <1>6, <2>2 DEF Fits, AnswerFits, Kinds, OfPanels, Request
  <2>4. Calm => CalmFits(tasks[t])'
    BY <1>2, <1>4, <1>6, <2>2 DEF CalmFits, Request
  <2>5. kind \in Kinds
    BY <1>2, <1>6 DEF Kinds, OfPanels
  <2> QED  BY <1>1, <1>4, <2>1, <2>3, <2>4, <2>5, TaskGoesOn
<1> QED  BY <1>5, <1>6

LEMMA NoteEndsKept ==
    ASSUME Inv, OneByOne, NEW t \in Tasks, NoteArrives(t) \/ NoteFails(t)
    PROVE  OneByOne' /\ (Calm => Calm')
<1>1. /\ ~Idle(t) /\ Await(t, NoRequest) /\ tasks[t].kind = "note"
      /\ UNCHANGED <<serverVars, listVars, recordVars, sla, escalation, view>>
      /\ Announced' = Announced
  BY DEF NoteArrives, NoteFails, Answered, Failed, Idle, Show, Announced, panelVars
<1>2. Fits(tasks[t]) /\ shown' = shown
  BY <1>1 DEF OneByOne, recordVars
<1>3. TimelineFits'
  <2>1. CASE NoteFails(t)
    BY <1>1, <1>2, <2>1 DEF NoteFails, Fits, TimelineFits, panelVars
  <2>2. CASE NoteArrives(t)
    <3>1. tasks[t].answer \in {shown.number} \X Nat /\ timeline' = Append(timeline, tasks[t].answer)
      BY <1>1, <1>2, <2>2 DEF NoteArrives, Answered, Fits, AnswerFits
    <3>2. Announced \/ timeline \in Seq({shown.number} \X Nat)
      BY <1>1, <1>2 DEF Fits, TimelineFits
    <3> DEFINE S == {shown.number} \X Nat
    <3>3. timeline \in Seq(S) => timeline' \in Seq(S)
      <4>1. tasks[t].answer \in S
        BY <3>1
      <4> HIDE DEF S
      <4> QED  BY <3>1, <4>1
    <3> QED  BY <1>1, <1>2, <3>2, <3>3 DEF TimelineFits
  <2> QED  BY <2>1, <2>2
<1>4. SlaFits' /\ EscalationFits'
  BY <1>1, <1>2 DEF Fits, SlaFits, EscalationFits
<1>5. Rest'
  BY <1>3, <1>4 DEF Rest
<1>6. ASSUME Calm PROVE others' = others /\ ~Announced' /\ CalmRest'
  <2>1. CalmFits(tasks[t]) /\ ~Announced /\ view = {"record"}
    BY <1>1, <1>2, <1>6 DEF Calm, Fits
  <2> QED  BY <1>1, <1>2, <2>1 DEF CalmFits, CalmRest, TableFits, StoredFits, serverVars, listVars
<1> QED  BY <1>1, <1>5, <1>6, TaskEnds

LEMMA EditEndsKept ==
    ASSUME Inv, OneByOne, NEW t \in Tasks, EditArrives(t) \/ EditFails(t)
    PROVE  OneByOne' /\ (Calm => Calm')
<1>1. /\ ~Idle(t) /\ Await(t, NoRequest) /\ tasks[t].kind = "patch"
      /\ UNCHANGED <<serverVars, listVars, panelVars, view>>
      /\ Announced' = Announced
  BY DEF EditArrives, EditFails, Answered, Failed, Idle, Show, Hide, Announced
<1>2. Fits(tasks[t]) /\ view = {"record"}
  BY <1>1 DEF OneByOne, Fits
<1>3. /\ shown'.number = shown.number
      /\ EditFails(t) => shown' = shown
      /\ EditArrives(t) => shown' = tasks[t].answer
  BY <1>1, <1>2 DEF EditArrives, EditFails, Answered, Fits, AnswerFits, Render, recordVars
<1>4. Rest'
  BY <1>1, <1>2, <1>3 DEF Rest, Fits, TimelineFits, SlaFits, EscalationFits, panelVars
<1>5. ASSUME Calm PROVE others' = others /\ ~Announced' /\ CalmRest'
  <2>1. CalmFits(tasks[t]) /\ ~Announced
    BY <1>1, <1>5 DEF Calm
  <2>2. ASSUME others = 0 PROVE StoredFits'
    <3>1. CASE EditArrives(t)
      BY <1>1, <1>3, <2>1, <2>2, <3>1 DEF EditArrives, Answered, CalmFits, StoredFits, serverVars
    <3>2. CASE EditFails(t)
      BY <1>1, <1>2, <1>3, <2>1, <2>2, <3>2 DEF EditFails, Failed, CalmFits, StoredFits, serverVars
    <3> QED  BY <3>1, <3>2
  <2> QED  BY <1>1, <2>1, <2>2 DEF CalmFits, CalmRest, TableFits, serverVars, listVars
<1> QED  BY <1>1, <1>4, <1>5, TaskEnds

LEMMA CreateEndsKept ==
    ASSUME Inv, OneByOne, NEW t \in Tasks, CreateArrives(t) \/ CreateFails(t)
    PROVE  OneByOne' /\ (Calm => Calm')
<1>1. /\ ~Idle(t) /\ tasks[t].kind = "create"
      /\ UNCHANGED <<serverVars, listVars, recordVars, panelVars>>
      /\ Announced' = Announced
  BY DEF CreateArrives, CreateFails, Answered, Failed, Idle, Show, Announced
<1>2. view = {"create"}
  BY <1>1 DEF OneByOne, Fits
<1>3. ASSUME Calm PROVE others' = others /\ ~Announced' /\ TableFits'
  <2>1. CalmFits(tasks[t]) /\ ~Announced
    BY <1>1, <1>3 DEF Calm
  <2> QED  BY <1>1, <2>1 DEF CalmFits, TableFits, serverVars, listVars
<1>4. CASE CreateArrives(t)
  <2>1. view' = {} /\ Await(t, Request("incident", tasks[t].answer, Null))
    BY <1>2, <1>4 DEF CreateArrives
  <2>2. tasks'[t] = Request("incident", tasks[t].answer, Null)
    BY <2>1 DEF Await, Inv, TypeOK
  <2>3. Fits(tasks[t])'
    BY <2>1, <2>2 DEF Fits, AnswerFits, Kinds, OfPanels, Request
  <2>4. Calm => CalmFits(tasks[t])'
    BY <1>3, <2>1, <2>2 DEF CalmFits, Request
  <2>5. "incident" \in Kinds
    BY DEF Kinds
  <2> QED  BY <1>1, <1>3, <2>1, <2>3, <2>4, <2>5, TaskGoesOn
<1>5. CASE CreateFails(t)
  <2>1. Await(t, NoRequest) /\ view' = view
    BY <1>5 DEF CreateFails
  <2>2. Rest'
    BY <1>2, <2>1 DEF Rest
  <2>3. Calm => CalmRest'
    BY <1>2, <1>3, <2>1 DEF CalmRest
  <2> QED  BY <1>1, <1>3, <2>1, <2>2, <2>3, TaskEnds
<1> QED  BY <1>4, <1>5

LEMMA ContinueKept ==
    ASSUME Inv, OneByOne, NEW t \in Tasks, Continue(t)
    PROVE  OneByOne' /\ (Calm => Calm')
BY ListArrivesKept, IncidentArrivesKept, PanelKept, NoteEndsKept, EditEndsKept, CreateEndsKept
   DEF Continue

(***************************************************************************)
(* What the user does that starts no request, and what others do.          *)
(***************************************************************************)
LEMMA RestKept ==
    ASSUME Patient, Inv, OneByOne,
           \/ BackToList \/ SubmitBadNote \/ EditField \/ SubmitNoEdit \/ OpenCreate \/ CancelCreate
           \/ SubmitBadCreate
    PROVE  OneByOne' /\ (Calm => Calm')
<1>1. /\ Quiet /\ UNCHANGED <<serverVars, tasks, listVars, shown, panelVars>>
      /\ Announced' = Announced
      /\ "record" \in view' => "record" \in view
  BY DEF BackToList, SubmitBadNote, EditField, SubmitNoEdit, OpenCreate, CancelCreate,
     SubmitBadCreate, Announced, Show, Hide, recordVars
<1>2. Quiet' /\ Alone' /\ \A t \in Tasks : Idle(t)'
  BY <1>1 DEF Quiet, Idle, Alone
<1>3. Rest'
  BY <1>1 DEF OneByOne, Rest, TimelineFits, SlaFits, EscalationFits, panelVars
<1>4. ASSUME Calm PROVE Calm'
  <2>1. CalmRest' /\ ~Announced' /\ others' \in Nat
    BY <1>1, <1>4 DEF Calm, CalmRest, TableFits, StoredFits, serverVars, listVars
  <2> QED  BY <1>2, <2>1 DEF Calm
<1> QED  BY <1>2, <1>3, <1>4 DEF OneByOne

LEMMA OtherClientKept ==
    ASSUME OneByOne, OtherClient
    PROVE  OneByOne' /\ (Calm => Calm')
<1>1. /\ UNCHANGED <<tasks, listVars, recordVars, panelVars, view, errors>>
      /\ others' = others + 1
  BY DEF OtherClient
<1>2. OneByOne'
  BY <1>1 DEF OneByOne, Alone, Quiet, Idle, Fits, AnswerFits, Rest, TimelineFits, SlaFits,
     EscalationFits, Announced, recordVars, panelVars
<1>3. ASSUME Calm PROVE Calm'
  <2>1. others' \in Nat /\ others' # 0 /\ ~Announced'
    BY <1>1, <1>3 DEF Calm, Announced
  <2>2. ASSUME NEW t \in Tasks, ~Idle(t) PROVE CalmFits(tasks[t])'
    <3>1. CalmFits(tasks[t])
      BY <1>3, <2>2 DEF Calm
    <3> QED  BY <1>1, <2>1, <3>1 DEF CalmFits, TableFits, listVars
  <2>3. Quiet => CalmRest'
    BY <1>1, <1>3, <2>1 DEF Calm, CalmRest, TableFits, listVars
  <2> QED  BY <1>1, <2>1, <2>2, <2>3 DEF Calm, Quiet, Idle
<1> QED  BY <1>2, <1>3

LEMMA PatientStep ==
    ASSUME Patient, Inv, OneByOne, [Next]_vars
    PROVE  OneByOne' /\ (~CanFail /\ Calm => Calm')
<1>1. ASSUME NEW t \in Tasks, Ask(t) \/ Serve(t) \/ Continue(t) PROVE OneByOne' /\ (Calm => Calm')
  BY <1>1, AskKept, ServeKept, ContinueKept
<1>2. ASSUME NEW t \in Tasks, Fail(t) PROVE OneByOne' /\ CanFail
  BY <1>2, FailKept DEF Fail
<1>3. CASE \/ BackToList \/ SubmitBadNote \/ EditField \/ SubmitNoEdit \/ OpenCreate \/ CancelCreate
           \/ SubmitBadCreate
  BY <1>3, RestKept
<1>4. CASE OtherClient
  BY <1>4, OtherClientKept
<1>5. CASE UNCHANGED vars
  <2>1. UNCHANGED <<incidents, others, tasks, filters, page, table, shown, timeline, sla, escalation,
                    view, errors>>
    BY <1>5 DEF vars, serverVars, listVars, recordVars, panelVars
  <2>2. OneByOne'
    BY <2>1 DEF OneByOne, Alone, Quiet, Idle, Fits, AnswerFits, Rest, TimelineFits, SlaFits,
       EscalationFits, Announced
  <2>3. Calm => Calm'
    BY <2>1 DEF Calm, Quiet, Idle, CalmFits, CalmRest, TableFits, StoredFits, Announced
  <2> QED  BY <2>2, <2>3
<1> QED  BY <1>1, <1>2, <1>3, <1>4, <1>5 DEF Next

LEMMA PatientInvariant ==
    ASSUME Patient
    PROVE  Spec => [](Inv /\ OneByOne)
<1>1. Init => OneByOne
  BY PatientInit
<1>2. Inv /\ OneByOne /\ [Next]_vars => OneByOne'
  BY PatientStep
<1> QED  BY <1>1, <1>2, InvIsInvariant, PTL DEF Spec

LEMMA CalmInvariant ==
    ASSUME Patient, ~CanFail
    PROVE  Spec => [](Inv /\ OneByOne /\ Calm)
<1>1. Init => Calm
  BY PatientInit
<1>2. Inv /\ OneByOne /\ Calm /\ [Next]_vars => Calm'
  BY PatientStep
<1> QED  BY <1>1, <1>2, PatientInvariant, PTL DEF Spec

\* Panels that are of the incident in the heading, each as the invariant has it.
LEMMA PanelsOfShown ==
    ASSUME OneByOne, Quiet, "record" \in view
    PROVE  PanelsMatch \/ Announced
<1>1. TimelineFits /\ SlaFits /\ EscalationFits
  BY DEF OneByOne, Rest
<1>2. CASE ~Announced
  <2>1. sla = shown.number /\ escalation = shown.number /\ timeline \in Seq({shown.number} \X Nat)
    BY <1>1, <1>2 DEF TimelineFits, SlaFits, EscalationFits
  <2>2. ASSUME NEW k \in DOMAIN timeline PROVE timeline[k][1] = shown.number
    <3> DEFINE S == {shown.number} \X Nat
    <3>1. timeline[k] \in S
      <4>1. timeline \in Seq(S)
        BY <2>1
      <4> HIDE DEF S
      <4> QED  BY <2>2, <4>1
    <3> QED  BY <3>1
  <2> QED  BY <2>1, <2>2 DEF PanelsMatch, Panels
<1> QED  BY <1>2

\* For a patient user, a panel left over from another record never goes without
\* a message, whichever requests fail (incident.js:222, 229, 236).
THEOREM LeftoversAreAnnounced ==
    ASSUME Patient
    PROVE  Spec => []StalePanelIsAnnounced
<1>1. OneByOne => StalePanelIsAnnounced
  BY PanelsOfShown DEF StalePanelIsAnnounced, Announced
<1> QED  BY <1>1, PatientInvariant, PTL

\* If no request fails either, all panels are of the incident in the heading
\* (incident.js:206-238, 288).
THEOREM PanelsBelong ==
    ASSUME Patient, ~CanFail
    PROVE  Spec => []PanelsOfHeading
<1>1. OneByOne /\ Calm => PanelsOfHeading
  BY PanelsOfShown DEF PanelsOfHeading, Calm
<1> QED  BY <1>1, CalmInvariant, PTL

\* The record shown is the API's after every save and every answer, if nobody
\* else writes (incident.js:317-319).
THEOREM ShownIsStored ==
    ASSUME Patient, ~CanFail
    PROVE  Spec => []ShownRecordIsStored
<1>1. Calm => ShownRecordIsStored
  BY DEF Calm, CalmRest, StoredFits, ShownRecordIsStored
<1> QED  BY <1>1, CalmInvariant, PTL

-----------------------------------------------------------------------------
(***************************************************************************)
(* Where failures are shown.                                               *)
(***************************************************************************)
\* No task has failed at nothing.
IdleIsBlank == \A t \in Tasks : Idle(t) => tasks[t].status = "sent"

\* A step moves one task at most: it asks, it ends, or it is answered.
LEMMA TaskSteps ==
    ASSUME [Next]_vars
    PROVE  \/ tasks' = tasks
           \/ \E t \in Tasks : \E r :
                /\ tasks' = [tasks EXCEPT ![t] = r]
                /\ \/ r.status = "sent" /\ (Idle(t) \/ Continue(t))
                   \/ /\ r.kind = tasks[t].kind /\ ~Idle(t)
                      /\ tasks[t].status # "failed"
<1>1. ASSUME NEW t \in Tasks, Ask(t)
      PROVE  \E r : tasks' = [tasks EXCEPT ![t] = r] /\ r.status = "sent" /\ Idle(t)
  <2>1. PICK kind, number, args : Start(t, Request(kind, number, args))
    BY <1>1 DEF Ask, SubmitFilters, PrevPage, NextPage, LoadList, ClickRow, SubmitNote, SubmitEdit,
       SubmitCreate
  <2>2. Request(kind, number, args).status = "sent"
    BY DEF Request
  <2> QED  BY <2>1, <2>2 DEF Start
<1>2. ASSUME NEW t \in Tasks, Serve(t) \/ Fail(t)
      PROVE  \E r : /\ tasks' = [tasks EXCEPT ![t] = r]
                    /\ r.kind = tasks[t].kind /\ ~Idle(t) /\ tasks[t].status # "failed"
  <2>1. PICK status, answer : tasks' = [tasks EXCEPT ![t] = Settled(tasks[t], status, answer)]
    BY <1>2 DEF Serve, ServeRead, ServeNote, ServePatch, ServeCreate, Fail, Reply, Refuse
  <2>2. Settled(tasks[t], status, answer).kind = tasks[t].kind
    BY DEF Settled
  <2>3. ~Idle(t) /\ tasks[t].status # "failed"
    BY <1>2 DEF Serve, ServeRead, ServeNote, ServePatch, ServeCreate, Fail, Sent, Idle
  <2> QED  BY <2>1, <2>2, <2>3
<1>3. ASSUME NEW t \in Tasks, Continue(t)
      PROVE  \E r : tasks' = [tasks EXCEPT ![t] = r] /\ r.status = "sent"
  <2>1. Await(t, NoRequest) \/ \E kind, number : Await(t, Request(kind, number, Null))
    BY <1>3 DEF Continue, ListArrives, IncidentArrives, PanelArrives, PanelFails, AwaitNext, NoteArrives,
       NoteFails, EditArrives, EditFails, CreateArrives, CreateFails, NoRequest
  <2>2. /\ NoRequest.status = "sent"
        /\ \A kind, number : Request(kind, number, Null).status = "sent"
    BY DEF NoRequest, Request
  <2> QED  BY <2>1, <2>2 DEF Await
<1>4. CASE \/ BackToList \/ SubmitBadNote \/ EditField \/ SubmitNoEdit \/ OpenCreate \/ CancelCreate
           \/ SubmitBadCreate \/ OtherClient \/ UNCHANGED vars
  BY <1>4 DEF BackToList, SubmitBadNote, EditField, SubmitNoEdit, OpenCreate, CancelCreate,
     SubmitBadCreate, OtherClient, vars
<1> QED  BY <1>1, <1>2, <1>3, <1>4 DEF Next

LEMMA BlankStep ==
    ASSUME TypeOK, IdleIsBlank, [Next]_vars
    PROVE  IdleIsBlank'
<1>1. CASE tasks' = tasks
  BY <1>1 DEF IdleIsBlank, Idle
<1>2. CASE \E t \in Tasks : \E r :
             /\ tasks' = [tasks EXCEPT ![t] = r]
             /\ r.status = "sent" \/ (r.kind = tasks[t].kind /\ ~Idle(t))
  <2>a. PICK t \in Tasks : \E r :
               /\ tasks' = [tasks EXCEPT ![t] = r]
               /\ r.status = "sent" \/ (r.kind = tasks[t].kind /\ ~Idle(t))
    BY <1>2
  <2>1. PICK r : /\ tasks' = [tasks EXCEPT ![t] = r]
                 /\ r.status = "sent" \/ (r.kind = tasks[t].kind /\ ~Idle(t))
    BY <2>a
  <2>2. \A u \in Tasks : tasks'[u] = IF u = t THEN r ELSE tasks[u]
    BY <2>1 DEF TypeOK
  <2> QED  BY <2>1, <2>2 DEF IdleIsBlank, Idle
<1> QED  BY <1>1, <1>2, TaskSteps

Seen(t) ==
    LET e == ErrorOf(tasks[t].kind)
    IN  e \in errors' /\ (e = "incidents" \/ SectionOf(e) \in view')

LEMMA FailureSeen ==
    ASSUME Inv, OneByOne, NEW t \in Tasks, Continue(t), tasks[t].status = "failed"
    PROVE  Seen(t)
<1>1. ASSUME ~Idle(t) PROVE Fits(tasks[t])
  BY <1>1 DEF OneByOne
<1>2. CASE Failed(t, "list") \/ Failed(t, "incident") \/ \E kind \in OfPanels : Failed(t, kind)
  <2>1. Show("incidents")
    BY <1>2 DEF Continue, ListArrives, IncidentArrives, PanelArrives, PanelFails, NoteArrives,
       NoteFails, EditArrives, EditFails, CreateArrives, CreateFails, Answered, Failed, OfPanels
  <2>2. ErrorOf(tasks[t].kind) = "incidents"
    BY <1>2 DEF ErrorOf, Failed, OfPanels
  <2> QED  BY <2>1, <2>2 DEF Seen, Show
<1>3. CASE NoteFails(t)
  <2>1. tasks[t].kind = "note" /\ view' = view /\ view = {"record"} /\ Show("note")
    BY <1>1, <1>3 DEF NoteFails, Failed, Idle, Fits
  <2>2. ErrorOf(tasks[t].kind) = "note" /\ SectionOf("note") = "record"
    BY <2>1 DEF ErrorOf, SectionOf
  <2> QED  BY <2>1, <2>2 DEF Seen, Show
<1>4. CASE EditFails(t)
  <2>1. tasks[t].kind = "patch" /\ view' = view /\ view = {"record"} /\ Show("edit")
    BY <1>1, <1>4 DEF EditFails, Failed, Idle, Fits
  <2>2. ErrorOf(tasks[t].kind) = "edit" /\ SectionOf("edit") = "record"
    BY <2>1 DEF ErrorOf, SectionOf
  <2> QED  BY <2>1, <2>2 DEF Seen, Show
<1>5. CASE CreateFails(t)
  <2>1. tasks[t].kind = "create" /\ view' = view /\ view = {"create"} /\ Show("create")
    BY <1>1, <1>5 DEF CreateFails, Failed, Idle, Fits
  <2>2. ErrorOf(tasks[t].kind) = "create" /\ SectionOf("create") = "create"
    BY <2>1 DEF ErrorOf, SectionOf
  <2> QED  BY <2>1, <2>2 DEF Seen, Show
<1> QED
  BY <1>2, <1>3, <1>4, <1>5 DEF Continue, ListArrives, IncidentArrives, PanelArrives, PanelFails,
     NoteArrives, EditArrives, CreateArrives, Answered, Failed, OfPanels

\* When a function learns that its request has failed, it says so in an element
\* of a section that is shown, if the user is patient (incident.js:73, 216, 291,
\* 321, 366).
THEOREM FailuresAreSeen ==
    ASSUME Patient
    PROVE  Spec => FailureIsSeen
<1>1. Init => IdleIsBlank
  BY DEF Init, IdleIsBlank, NoRequest, Request
<1>2. Inv /\ IdleIsBlank /\ [Next]_vars => IdleIsBlank'
  BY BlankStep DEF Inv
<1>3. ASSUME Inv, OneByOne, IdleIsBlank, [Next]_vars, NEW t \in Tasks,
             tasks[t].status = "failed", tasks'[t] # tasks[t]
      PROVE  Seen(t)
  <2>a. PICK u \in Tasks : \E r :
               /\ tasks' = [tasks EXCEPT ![u] = r]
               /\ Idle(u) \/ Continue(u) \/ tasks[u].status # "failed"
    BY <1>3, TaskSteps
  <2>1. PICK r : /\ tasks' = [tasks EXCEPT ![u] = r]
                 /\ Idle(u) \/ Continue(u) \/ tasks[u].status # "failed"
    BY <2>a
  <2>2. u = t
    BY <1>3, <2>1 DEF Inv, TypeOK
  <2>3. Continue(t)
    BY <1>3, <2>1, <2>2 DEF IdleIsBlank
  <2> QED  BY <1>3, <2>3, FailureSeen
<1>4. Inv /\ OneByOne /\ IdleIsBlank /\ [Next]_vars =>
        [\A t \in Tasks :
           tasks[t].status = "failed" /\ tasks'[t] # tasks[t] =>
               LET e == ErrorOf(tasks[t].kind)
               IN  e \in errors' /\ (e = "incidents" \/ SectionOf(e) \in view')]_vars
  BY <1>3 DEF Seen
<1> QED  BY <1>1, <1>2, <1>4, InvIsInvariant, PatientInvariant, PTL DEF Spec, FailureIsSeen

=============================================================================

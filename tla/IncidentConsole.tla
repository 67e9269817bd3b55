-------------------------- MODULE IncidentConsole --------------------------
(***************************************************************************)
(* The incident console (static/js/incident.js, incident-logic.js): list,  *)
(* record and create views of one browser page, and the API behind it,     *)
(* which other clients change too.                                         *)
(*                                                                         *)
(* A handler runs to its next await without interruption; an asynchronous  *)
(* function that waits for a response is a task.  Each task has one        *)
(* request under way: sent, then answered or failed, in any order among    *)
(* tasks, until the function goes on with what it got.  "kind" names the   *)
(* await: a record is loaded by four requests in a row.                    *)
(*                                                                         *)
(* A note is <<number, k>>, the k-th of its incident; of the SLA rows and  *)
(* the related escalation only the incident they belong to is kept.        *)
(***************************************************************************)
EXTENDS Integers, Sequences, FiniteSets

CONSTANTS
    Numbers,       \* incident numbers, in order
    Seeded,        \* those that exist when the page is opened
    SelectFields,  \* patchable fields edited in a <select>: state, priority
    TextFields,    \* patchable fields edited in an <input>: assigned_to, ...
    Options,       \* the options of every <select>
    Unlisted,      \* values a row may hold that are not options (priority 5)
    Texts,         \* texts that are not empty
    EmptyTexts,    \* {Empty} where a row may hold the empty text, else {}
    Empty, Null,   \* "" and null
    Filters,       \* each the set of numbers it selects
    PageSize,      \* PAGE_SIZE (50)
    NotePage,      \* the API's default page_size for notes (50)
    Tasks,         \* bound: requests under way at once
    Patient,       \* whether the user waits for every answer
    CanFail,       \* whether requests can fail
    MaxPage,       \* bound: the page the user goes to
    MaxNotes,      \* bound: the user adds no note to an incident with as many
    MaxOthers      \* bound: changes by other clients

Fields == SelectFields \cup TextFields

ASSUME ConsoleAssumption ==
    /\ Numbers \subseteq Nat /\ Seeded \subseteq Numbers
    /\ SelectFields \cap TextFields = {}
    /\ Empty # Null /\ Null \notin Numbers
    /\ {Empty, Null} \cap (Options \cup Unlisted \cup Texts) = {}
    /\ Options \cap Unlisted = {}
    /\ EmptyTexts \subseteq {Empty}
    /\ Filters \subseteq SUBSET Numbers
    /\ PageSize \in Nat \ {0} /\ NotePage \in Nat \ {0}
    /\ Patient \in BOOLEAN /\ CanFail \in BOOLEAN
    /\ MaxPage \in Nat /\ MaxNotes \in Nat /\ MaxOthers \in Nat

VARIABLES
    incidents,   \* the API: incidents[n] is the row's patchable fields
    notes,       \* the API: notes[n] is how many notes incident n has
    others,      \* changes made by other clients so far
    tasks,       \* tasks[t]: the request that task t waits for
    filters,     \* currentFilters
    page,        \* currentPage
    table,       \* the incidents table and its two buttons
    current,     \* currentIncident
    shown,       \* what renderRecordFields last drew: heading and fields
    form,        \* the edit form
    touched,     \* the fields the user has edited since the form was filled
    timeline,    \* the work notes shown
    sla,         \* the incident whose SLA rows are shown
    escalation,  \* the incident whose related escalation is shown
    view,        \* the sections of the page that are not hidden
    errors       \* the error elements that are not hidden

serverVars == <<incidents, notes, others>>
listVars == <<filters, page, table>>
recordVars == <<current, shown, form, touched>>
panelVars == <<timeline, sla, escalation>>
vars == <<serverVars, tasks, listVars, recordVars, panelVars, view, errors>>

-----------------------------------------------------------------------------
\* What a row may hold in a field, and what a PATCH may set it to.
Stored(f) == IF f \in SelectFields THEN Options \cup Unlisted
                                   ELSE Texts \cup EmptyTexts \cup {Null}
Settable(f) == IF f \in SelectFields THEN Options ELSE Texts \cup EmptyTexts \cup {Null}

\* What the user can put into a form field.
Typed(f) == IF f \in SelectFields THEN Options ELSE Texts \cup {Empty}

Rows == {r \in [Fields -> UNION {Stored(f) : f \in Fields}] : \A f \in Fields : r[f] \in Stored(f)}

\* populateEditForm: a <select> shows nothing for a value it does not list.
ShowsEmpty(f, v) == \/ f \in SelectFields /\ v \notin Options
                    \/ f \in TextFields /\ v = Null

Filled(fields) == [f \in Fields |-> IF ShowsEmpty(f, fields[f]) THEN Empty ELSE fields[f]]

\* Mutant: an emptied text is sent as it is.
ReadRaw(f, s) == s

\* The value diffIncidentFields compares: an empty text means null.
Read(f, s) == IF f \in TextFields /\ s = Empty THEN Null ELSE s

\* diffIncidentFields
Diff(fields, edited) ==
    LET changed == {f \in Fields : Read(f, edited[f]) # fields[f]}
    IN  [f \in changed |-> Read(f, edited[f])]

\* The rows of page p among the numbers that a filter selects.
PageOf(numbers, p) ==
    {n \in numbers : LET before == Cardinality({m \in numbers : m < n})
                     IN  (p - 1) * PageSize <= before /\ before < p * PageSize}

\* renderIncidentList
TableOf(flt, p, numbers) ==
    [filters |-> flt, page |-> p, rows |-> PageOf(numbers, p),
     prev |-> p > 1, next |-> p * PageSize < Cardinality(numbers)]

NoteSeq(n, count) == [k \in 1..count |-> <<n, k>>]

-----------------------------------------------------------------------------
Request(kind, number, args) ==
    [kind |-> kind, number |-> number, args |-> args, status |-> "sent", answer |-> Null]

NoRequest == Request("idle", Null, Null)

Idle(t) == tasks[t].kind = "idle"
Quiet == \A t \in Tasks : Idle(t)

\* A handler starts a task; one with an await in it goes on in the same task.
Start(t, r) ==
    /\ Idle(t)
    /\ Patient => Quiet
    /\ tasks' = [tasks EXCEPT ![t] = r]
Await(t, r) == tasks' = [tasks EXCEPT ![t] = r]

Sent(t, kind) == tasks[t].kind = kind /\ tasks[t].status = "sent"
Answered(t, kind) == tasks[t].kind = kind /\ tasks[t].status = "ok"
Failed(t, kind) == tasks[t].kind = kind /\ tasks[t].status = "failed"

Blank == [number |-> Null, fields |-> Null]

\* The page is loaded and has asked for the list (DOMContentLoaded); its two
\* buttons are enabled in index.html.
Init ==
    /\ incidents \in [Seeded -> Rows]
    /\ notes = [n \in Seeded |-> 0]
    /\ others = 0
    /\ filters = Numbers /\ page = 1
    /\ table = [filters |-> Null, page |-> 0, rows |-> {}, prev |-> TRUE, next |-> TRUE]
    /\ \E t \in Tasks : tasks = [u \in Tasks |-> IF u = t THEN Request("list", Null, <<filters, page>>)
                                                          ELSE NoRequest]
    /\ current = Null /\ shown = Blank
    /\ form = [f \in Fields |-> Empty] /\ touched = {}
    /\ timeline = <<>> /\ sla = Null /\ escalation = Null
    /\ view = {"list"} /\ errors = {}

-----------------------------------------------------------------------------
(***************************************************************************)
(* The API.  A request is handled at once, in any order among those sent.  *)
(***************************************************************************)
Settled(r, status, answer) ==
    [kind |-> r.kind, number |-> r.number, args |-> r.args, status |-> status, answer |-> answer]
Reply(t, answer) == tasks' = [tasks EXCEPT ![t] = Settled(tasks[t], "ok", answer)]
Refuse(t) == tasks' = [tasks EXCEPT ![t] = Settled(tasks[t], "failed", Null)]

ServeRead(t) ==
    LET n == tasks[t].number
        flt == tasks[t].args[1]
        p == tasks[t].args[2]
    IN  /\ \/ Sent(t, "list") /\ Reply(t, TableOf(flt, p, flt \cap DOMAIN incidents))
           \/ Sent(t, "incident") /\ Reply(t, [number |-> n, fields |-> incidents[n]])
           \/ Sent(t, "notes") /\ Reply(t, NoteSeq(n, IF notes[n] < NotePage THEN notes[n] ELSE NotePage))
           \/ (Sent(t, "sla") \/ Sent(t, "escalations")) /\ Reply(t, n)
        /\ UNCHANGED serverVars

ServeNote(t) ==
    LET n == tasks[t].number
    IN  /\ Sent(t, "note")
        /\ notes' = [notes EXCEPT ![n] = @ + 1]
        /\ Reply(t, <<n, notes[n] + 1>>)
        /\ UNCHANGED <<incidents, others>>

\* IncidentPatch refuses (422) what is not an option of a <select>.
ServePatch(t) ==
    LET n == tasks[t].number
        patch == tasks[t].args.patch
        row == [f \in Fields |-> IF f \in DOMAIN patch THEN patch[f] ELSE incidents[n][f]]
    IN  /\ Sent(t, "patch")
        /\ \/ /\ \A f \in DOMAIN patch \cap SelectFields : patch[f] \in Options
              /\ incidents' = [incidents EXCEPT ![n] = row]
              /\ Reply(t, [number |-> n, fields |-> row])
           \/ /\ \E f \in DOMAIN patch \cap SelectFields : patch[f] \notin Options
              /\ Refuse(t)
              /\ UNCHANGED incidents
        /\ UNCHANGED <<notes, others>>

ServeCreate(t) ==
    /\ Sent(t, "create")
    /\ \E n \in Numbers \ DOMAIN incidents :
         /\ \A m \in Numbers \ DOMAIN incidents : n <= m
         /\ incidents' = [m \in DOMAIN incidents \cup {n} |->
                              IF m = n THEN tasks[t].args ELSE incidents[m]]
         /\ notes' = [m \in DOMAIN notes \cup {n} |-> IF m = n THEN 0 ELSE notes[m]]
         /\ Reply(t, n)
    /\ UNCHANGED others

Serve(t) ==
    /\ ServeRead(t) \/ ServeNote(t) \/ ServePatch(t) \/ ServeCreate(t)
    /\ UNCHANGED <<listVars, recordVars, panelVars, view, errors>>

\* The request never arrives, or its answer does not: what it did stays done.
Fail(t) ==
    /\ CanFail
    /\ ~Idle(t) /\ tasks[t].status # "failed"
    /\ Refuse(t)
    /\ UNCHANGED <<serverVars, listVars, recordVars, panelVars, view, errors>>

\* Another client sets a field of an incident, or adds a note to it.
OtherClient ==
    /\ others < MaxOthers /\ others' = others + 1
    /\ \E n \in DOMAIN incidents :
         \/ /\ \E f \in Fields : \E v \in Settable(f) : incidents' = [incidents EXCEPT ![n][f] = v]
            /\ UNCHANGED notes
         \/ notes' = [notes EXCEPT ![n] = @ + 1] /\ UNCHANGED incidents
    /\ UNCHANGED <<tasks, listVars, recordVars, panelVars, view, errors>>

-----------------------------------------------------------------------------
Show(e) == errors' = errors \cup {e}
Hide(e) == errors' = errors \ {e}

(***************************************************************************)
(* The list                                                                *)
(***************************************************************************)
LoadList(t, flt, p) ==
    /\ filters' = flt /\ page' = p
    /\ Start(t, Request("list", Null, <<flt, p>>))
    /\ UNCHANGED <<serverVars, table, recordVars, panelVars, view, errors>>

SubmitFilters(t) == "list" \in view /\ \E flt \in Filters : LoadList(t, flt, 1)

PrevPage(t) == "list" \in view /\ table.prev /\ page > 1 /\ LoadList(t, filters, page - 1)

NextPage(t) == "list" \in view /\ table.next /\ page < MaxPage /\ LoadList(t, filters, page + 1)

ListArrives(t) ==
    /\ \/ Answered(t, "list") /\ table' = tasks[t].answer /\ Hide("incidents")
       \/ Failed(t, "list") /\ Show("incidents") /\ UNCHANGED table
    /\ Await(t, NoRequest)
    /\ UNCHANGED <<serverVars, filters, page, recordVars, panelVars, view>>

-----------------------------------------------------------------------------
(***************************************************************************)
(* The record                                                              *)
(***************************************************************************)
\* renderRecordFields: heading, fields and edit form in one go.
Render(row) ==
    /\ shown' = row
    /\ form' = Filled(row.fields) /\ touched' = {}

ClickRow(t) ==
    /\ "list" \in view
    /\ \E n \in table.rows : Start(t, Request("incident", n, Null))
    /\ UNCHANGED <<serverVars, listVars, recordVars, panelVars, view, errors>>

\* Mutant: the create section is left as it is.
RecordView(sections) == (sections \ {"list"}) \cup {"record"}

\* The sections left when a record is opened.
OnlyRecordView(sections) == (sections \ {"list", "create"}) \cup {"record"}

IncidentArrives(t) ==
    /\ \/ /\ Answered(t, "incident")
          /\ current' = tasks[t].answer /\ Render(tasks[t].answer)
          /\ view' = OnlyRecordView(view) /\ Hide("incidents")
          /\ Await(t, Request("notes", tasks[t].number, Null))
       \/ /\ Failed(t, "incident") /\ Show("incidents")
          /\ Await(t, NoRequest)
          /\ UNCHANGED <<recordVars, view>>
    /\ UNCHANGED <<serverVars, listVars, panelVars>>

\* Mutant: the SLA panel is forgotten.
AfterShort(kind) == [notes |-> "escalations", sla |-> "escalations", escalations |-> "idle"][kind]

\* The await that follows in loadIncidentRecord, whether or not this one failed.
After(kind) == [notes |-> "sla", sla |-> "escalations", escalations |-> "idle"][kind]

AwaitNext(t) ==
    LET kind == After(tasks[t].kind)
    IN  Await(t, IF kind = "idle" THEN NoRequest ELSE Request(kind, tasks[t].number, Null))

PanelArrives(t) ==
    /\ \/ Answered(t, "notes") /\ timeline' = tasks[t].answer /\ UNCHANGED <<sla, escalation>>
       \/ Answered(t, "sla") /\ sla' = tasks[t].answer /\ UNCHANGED <<timeline, escalation>>
       \/ Answered(t, "escalations") /\ escalation' = tasks[t].answer /\ UNCHANGED <<timeline, sla>>
    /\ AwaitNext(t)
    /\ UNCHANGED <<serverVars, listVars, recordVars, view, errors>>

\* Mutant: the failure is swallowed.
PanelFailsSilently(t) ==
    /\ \E kind \in {"notes", "sla", "escalations"} : Failed(t, kind)
    /\ AwaitNext(t)
    /\ UNCHANGED <<serverVars, listVars, recordVars, panelVars, view, errors>>

PanelFails(t) ==
    /\ \E kind \in {"notes", "sla", "escalations"} : Failed(t, kind)
    /\ Show("incidents") /\ AwaitNext(t)
    /\ UNCHANGED <<serverVars, listVars, recordVars, panelVars, view>>

BackToList ==
    /\ "record" \in view
    /\ Patient => Quiet
    /\ view' = (view \ {"record"}) \cup {"list"}
    /\ current' = Null
    /\ UNCHANGED <<serverVars, tasks, listVars, shown, form, touched, panelVars, errors>>

-----------------------------------------------------------------------------
(***************************************************************************)
(* Work notes                                                              *)
(***************************************************************************)
\* The form is complete, or validateWorkNoteForm finds that it is not.
SubmitNote(t) ==
    /\ "record" \in view
    /\ notes[current.number] < MaxNotes
    /\ Start(t, Request("note", current.number, Null))
    /\ Hide("note")
    /\ UNCHANGED <<serverVars, listVars, recordVars, panelVars, view>>

SubmitBadNote ==
    /\ "record" \in view
    /\ Patient => Quiet
    /\ Show("note")
    /\ UNCHANGED <<serverVars, tasks, listVars, recordVars, panelVars, view>>

NoteArrives(t) ==
    /\ Answered(t, "note") /\ timeline' = Append(timeline, tasks[t].answer)
    /\ Await(t, NoRequest)
    /\ UNCHANGED <<serverVars, listVars, recordVars, sla, escalation, view, errors>>

NoteFails(t) ==
    /\ Failed(t, "note") /\ Show("note")
    /\ Await(t, NoRequest)
    /\ UNCHANGED <<serverVars, listVars, recordVars, panelVars, view>>

-----------------------------------------------------------------------------
(***************************************************************************)
(* Editing                                                                 *)
(***************************************************************************)
EditField ==
    /\ "record" \in view
    /\ Patient => Quiet
    /\ \E f \in Fields : \E s \in Typed(f) :
         /\ form' = [form EXCEPT ![f] = s]
         /\ touched' = touched \cup {f}
    /\ UNCHANGED <<serverVars, tasks, listVars, current, shown, panelVars, view, errors>>

\* What the user has edited goes along with the request for the properties.
SubmitEdit(t) ==
    LET patch == Diff(current.fields, form)
    IN  /\ "record" \in view
        /\ DOMAIN patch # {}
        /\ Start(t, Request("patch", current.number, [patch |-> patch, touched |-> touched]))
        /\ UNCHANGED <<serverVars, listVars, recordVars, panelVars, view, errors>>

SubmitNoEdit ==
    /\ "record" \in view
    /\ DOMAIN Diff(current.fields, form) = {}
    /\ Patient => Quiet
    /\ Hide("edit")
    /\ UNCHANGED <<serverVars, tasks, listVars, recordVars, panelVars, view>>

\* Mutant: currentIncident keeps the row that was loaded.
EditNotKept(t) ==
    /\ Answered(t, "patch")
    /\ Render(tasks[t].answer) /\ UNCHANGED current
    /\ Hide("edit") /\ Await(t, NoRequest)
    /\ UNCHANGED <<serverVars, listVars, panelVars, view>>

\* Mutant: the saved row is kept and not drawn.
EditNotDrawn(t) ==
    /\ Answered(t, "patch")
    /\ current' = tasks[t].answer /\ UNCHANGED <<shown, form, touched>>
    /\ Hide("edit") /\ Await(t, NoRequest)
    /\ UNCHANGED <<serverVars, listVars, panelVars, view>>

EditArrives(t) ==
    /\ Answered(t, "patch")
    /\ current' = tasks[t].answer /\ Render(tasks[t].answer)
    /\ Hide("edit") /\ Await(t, NoRequest)
    /\ UNCHANGED <<serverVars, listVars, panelVars, view>>

EditFails(t) ==
    /\ Failed(t, "patch") /\ Show("edit")
    /\ Await(t, NoRequest)
    /\ UNCHANGED <<serverVars, listVars, recordVars, panelVars, view>>

-----------------------------------------------------------------------------
(***************************************************************************)
(* Creating                                                                *)
(***************************************************************************)
OpenCreate ==
    /\ "list" \in view
    /\ Patient => Quiet
    /\ view' = (view \ {"list"}) \cup {"create"}
    /\ UNCHANGED <<serverVars, tasks, listVars, recordVars, panelVars, errors>>

CancelCreate ==
    /\ "create" \in view
    /\ Patient => Quiet
    /\ view' = (view \ {"create"}) \cup {"list"}
    /\ Hide("create")
    /\ UNCHANGED <<serverVars, tasks, listVars, recordVars, panelVars>>

\* A new row has an option in every <select>, and nobody is assigned to it.
NewRows == {r \in Rows : /\ \A f \in SelectFields : r[f] \in Options
                         /\ \A f \in TextFields : r[f] = Null}

FreeNumbers == Numbers \ DOMAIN incidents
Creating == {t \in Tasks : tasks[t].kind = "create"}

\* Mutant: the form is hidden at once, not when the answer is there.
SubmitCreateAndHide(t) ==
    /\ "create" \in view
    /\ Cardinality(Creating) < Cardinality(FreeNumbers)
    /\ \E row \in NewRows : Start(t, Request("create", Null, row))
    /\ Hide("create") /\ view' = view \ {"create"}
    /\ UNCHANGED <<serverVars, listVars, recordVars, panelVars>>

SubmitCreate(t) ==
    /\ "create" \in view
    /\ Cardinality(Creating) < Cardinality(FreeNumbers)
    /\ \E row \in NewRows : Start(t, Request("create", Null, row))
    /\ Hide("create")
    /\ UNCHANGED <<serverVars, listVars, recordVars, panelVars, view>>

SubmitBadCreate ==
    /\ "create" \in view
    /\ Patient => Quiet
    /\ Show("create")
    /\ UNCHANGED <<serverVars, tasks, listVars, recordVars, panelVars, view>>

\* Mutant: the list is shown, not the new record.
CreateReturns(t) ==
    /\ Answered(t, "create")
    /\ view' = (view \ {"create"}) \cup {"list"}
    /\ Await(t, NoRequest)
    /\ UNCHANGED <<serverVars, listVars, recordVars, panelVars, errors>>

CreateArrives(t) ==
    /\ Answered(t, "create")
    /\ view' = view \ {"create"}
    /\ Await(t, Request("incident", tasks[t].answer, Null))
    /\ UNCHANGED <<serverVars, listVars, recordVars, panelVars, errors>>

CreateFails(t) ==
    /\ Failed(t, "create") /\ Show("create")
    /\ Await(t, NoRequest)
    /\ UNCHANGED <<serverVars, listVars, recordVars, panelVars, view>>

-----------------------------------------------------------------------------
\* An asynchronous function goes on with what it waited for.
Continue(t) ==
    \/ ListArrives(t) \/ IncidentArrives(t) \/ PanelArrives(t) \/ PanelFails(t)
    \/ NoteArrives(t) \/ NoteFails(t) \/ EditArrives(t) \/ EditFails(t)
    \/ CreateArrives(t) \/ CreateFails(t)

\* What the user does that starts a request.
Ask(t) ==
    \/ SubmitFilters(t) \/ PrevPage(t) \/ NextPage(t) \/ ClickRow(t)
    \/ SubmitNote(t) \/ SubmitEdit(t) \/ SubmitCreate(t)

Next ==
    \/ \E t \in Tasks : Ask(t) \/ Serve(t) \/ Fail(t) \/ Continue(t)
    \/ BackToList \/ SubmitBadNote \/ EditField \/ SubmitNoEdit
    \/ OpenCreate \/ CancelCreate \/ SubmitBadCreate
    \/ OtherClient

Spec == Init /\ [][Next]_vars

\* The API answers what it is asked and the browser delivers the answers.  The
\* user need not do anything.
Fairness == \A t \in Tasks : WF_vars(Serve(t)) /\ WF_vars(Continue(t))

LiveSpec == Spec /\ Fairness

-----------------------------------------------------------------------------
Row == [number: Numbers, fields: Rows]

\* A request and its answer, as far as the page relies on them, when "numbers"
\* are the incidents there are.
WellFormed(r, numbers) ==
    /\ r.status \in {"sent", "ok", "failed"}
    /\ r.kind \in {"incident", "notes", "sla", "escalations", "note", "patch"} => r.number \in numbers
    /\ r.kind = "create" => r.args \in Rows
    /\ r.kind = "patch" => /\ DOMAIN r.args.patch \subseteq Fields
                           /\ \A f \in DOMAIN r.args.patch :
                                \/ r.args.patch[f] \in Settable(f)
                                \/ f \in SelectFields /\ r.args.patch[f] = Empty
    /\ r.status = "ok" =>
         /\ r.kind \in {"incident", "patch"} => r.answer \in Row /\ r.answer.number \in numbers
         /\ r.kind = "list" => r.answer.rows \subseteq numbers
         /\ r.kind = "create" => r.answer \in numbers

\* The page's variables and the requests under way have their types: a request
\* names an incident that exists, a row is a complete one, and the form holds
\* what can be typed (incident.js:117-137, 206-323).
TypeOK ==
    /\ DOMAIN incidents \subseteq Numbers
    /\ incidents \in [DOMAIN incidents -> Rows] /\ notes \in [DOMAIN incidents -> Nat]
    /\ filters \in Filters \cup {Numbers} /\ page \in Nat \ {0}
    /\ table.rows \subseteq DOMAIN incidents
    /\ tasks = [t \in Tasks |-> tasks[t]]
    /\ \A t \in Tasks : WellFormed(tasks[t], DOMAIN incidents)
    /\ current \in Row \cup {Null} /\ shown \in Row \cup {Blank}
    /\ touched \subseteq Fields
    /\ form = [f \in Fields |-> form[f]] /\ \A f \in Fields : form[f] \in Typed(f) \cup {Empty}
    /\ view \subseteq {"list", "create", "record"}
    /\ errors \subseteq {"incidents", "note", "edit", "create"}

\* Whatever the order of clicks and answers, two of the three sections are
\* never shown together: each handler hides only the one it knows of
\* (incident.js:212-214, 246-247, 331-339, 363).
AtMostOneView == Cardinality(view) <= 1

\* While a record is shown, currentIncident is the one that is drawn, and it
\* exists: saving and adding notes read it without a test for null
\* (incident.js:283, 304, 312).
ShownRecordIsCurrent == "record" \in view => current = shown /\ shown.number \in DOMAIN incidents

\* A PATCH never names a field that the user has not edited, so it never takes
\* back what another client has written (incident-logic.js:88-104).
PatchOnlyTouched ==
    \A t \in Tasks : tasks[t].kind = "patch" => DOMAIN tasks[t].args.patch \subseteq tasks[t].args.touched

\* False: once nothing is under way, the table is for the filters and the page
\* that were chosen last.  With two lists under way the older answer may come
\* last (incident.js:65-95).
QuietTableIsCurrent == Quiet => table.filters = filters /\ table.page = page

\* False: a table that is not, because the request for the right one has failed,
\* is announced as long as it is shown.  A record opened from it takes the
\* message away (incident.js:73, 210).
StaleTableIsAnnounced ==
    Quiet /\ "list" \in view =>
        (table.filters = filters /\ table.page = page) \/ "incidents" \in errors

Panels == {sla, escalation} \cup {timeline[k][1] : k \in DOMAIN timeline}

PanelsMatch == Panels \subseteq {shown.number}

\* Once nothing is under way, every panel of a record belongs to the incident
\* in the heading (incident.js:206-238, 288).
PanelsOfHeading == Quiet /\ "record" \in view => PanelsMatch

\* Once nothing is under way, no panel shows another incident than the one in
\* the heading, though it may show none (incident.js:206-238).
NoForeignPanel == Quiet /\ "record" \in view => Panels \ {Null} \subseteq {shown.number}

\* A panel left over from another record never goes without a message: the
\* request for the right one has failed (incident.js:222, 229, 236).
StalePanelIsAnnounced == Quiet /\ "record" \in view => PanelsMatch \/ "incidents" \in errors

\* If nobody else writes, the record shown is the API's once nothing is under
\* way: after every save and every answer (incident.js:317-319).
ShownRecordIsStored ==
    Quiet /\ others = 0 /\ "record" \in view => shown.fields = incidents[shown.number]

\* Once nothing is under way, some section of the page is shown
\* (incident.js:342-368).
SomeViewShown == Quiet => view # {}

\* If nobody else writes, the timeline has every note of the incident
\* (incident.js:219-221).
TimelineComplete ==
    Quiet /\ others = 0 /\ "record" \in view => Len(timeline) = notes[shown.number]

ErrorOf(kind) == IF kind \in {"note", "patch", "create"}
                 THEN (IF kind = "patch" THEN "edit" ELSE kind) ELSE "incidents"

SectionOf(e) == IF e = "create" THEN "create" ELSE "record"

\* When a function learns that its request has failed, it says so in an element
\* of a section that is shown (incident.js:73, 216, 291, 321, 366).
FailureIsSeen ==
    [][\A t \in Tasks :
         tasks[t].status = "failed" /\ tasks'[t] # tasks[t] =>
             LET e == ErrorOf(tasks[t].kind)
             IN  e \in errors' /\ (e = "incidents" \/ SectionOf(e) \in view')]_vars

\* An incident that the API has created is opened (incident.js:357-364).
CreatedIsOpened ==
    \A n \in Numbers :
        (\E t \in Tasks : Answered(t, "create") /\ tasks[t].answer = n)
            ~> ("record" \in view /\ shown.number = n)
=============================================================================

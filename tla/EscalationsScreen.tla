------------------------- MODULE EscalationsScreen -------------------------
(***************************************************************************)
(* The escalations screen (static/js/escalations.js, escalations-logic.js) *)
(* of one browser page: its cache of the table, the form in which a row is *)
(* edited, and the form for a new one; and the API behind it, which other  *)
(* clients change too.                                                     *)
(*                                                                         *)
(* A handler runs to its next await without interruption; an asynchronous  *)
(* function that waits for an answer is a task.  An escalation is its      *)
(* number, which is its place in the API's table, and its three fields.    *)
(***************************************************************************)
EXTENDS Naturals, Sequences, FiniteSetsExt, SequencesExt

CONSTANTS
    Fields,        \* those of the edit form: summary, owner, closed_at
    Texts,         \* texts that are not empty
    Empty, Null,   \* "" and null
    Seeded,        \* escalations that exist when the page is opened
    PageSize,      \* the API's default page_size (50)
    Tasks,         \* bound: functions that wait at once
    CanFail,       \* whether requests can fail
    MaxRows,       \* bound: escalations
    MaxOthers      \* bound: changes by other clients

ASSUME ScreenAssumption ==
    /\ Fields \subseteq {"summary", "owner", "closed_at"}
    /\ Empty # Null /\ {Empty, Null} \cap Texts = {}
    /\ Seeded \in Nat /\ MaxRows \in Nat /\ PageSize \in Nat \ {0}
    /\ CanFail \in BOOLEAN /\ MaxOthers \in Nat

\* What the user can type, and what the API may hold in a field.
Typed == Texts \cup {Empty}
Settable(f) == IF f = "summary" THEN Typed ELSE Typed \cup {Null}

VARIABLES
    stored,      \* the API: the rows, by number
    others,      \* changes by other clients so far
    behind,      \* the numbers they changed since the API last served the list
    lost,        \* those that were created since then and never answered
    tasks,       \* tasks[t]: the request that t waits for
    cache,       \* escalationsCache, drawn as the table whenever it is assigned
    edit,        \* the edit form
    touched,     \* the fields the user has edited since the form was opened
    creating,    \* whether the section of the new escalation is shown
    failed       \* the error elements that are not hidden

screenVars == <<stored, others, behind, lost, tasks, cache, edit, touched, creating, failed>>
serverVars == <<stored, others, behind, lost>>
formVars == <<edit, touched, creating>>

Request(kind, number, args) ==
    [kind |-> kind, number |-> number, args |-> args, status |-> "sent", answer |-> Null]

NoRequest == Request("idle", Null, Null)

Hidden == [shown |-> FALSE, number |-> Null, fields |-> [f \in Fields |-> Empty]]

ScreenInit ==
    /\ stored \in [1..Seeded -> {r \in [Fields -> Typed \cup {Null}] :
                                   \A f \in Fields : r[f] \in Settable(f)}]
    /\ others = 0 /\ behind = {} /\ lost = {}
    /\ tasks = [t \in Tasks |-> NoRequest]
    /\ cache = <<>>
    /\ edit = Hidden /\ touched = {}
    /\ creating = FALSE
    /\ failed = {}

Sent(t, kind) == tasks[t].kind = kind /\ tasks[t].status = "sent"
Answered(t, kind) == tasks[t].kind = kind /\ tasks[t].status = "ok"
Failed(t, kind) == tasks[t].kind = kind /\ tasks[t].status = "failed"

ScreenQuiet == \A t \in Tasks : tasks[t].kind = "idle"

Start(t, request) == tasks[t].kind = "idle" /\ tasks' = [tasks EXCEPT ![t] = request]
Await(t, request) == tasks' = [tasks EXCEPT ![t] = request]

-----------------------------------------------------------------------------
(***************************************************************************)
(* The API.  A request is handled at once, in any order among those sent.  *)
(***************************************************************************)
Reply(t, answer) == tasks' = [tasks EXCEPT ![t].status = "ok", ![t].answer = answer]

Row(n) == [number |-> n, fields |-> stored[n]]

\* GET /escalations: the first page, by number.
FirstPage == [n \in 1..Min({PageSize, Len(stored)}) |-> Row(n)]

ServeList(t) ==
    /\ Sent(t, "load") \/ Sent(t, "reload")
    /\ Reply(t, FirstPage)
    /\ behind' = {} /\ lost' = {}
    /\ UNCHANGED <<stored, others>>

ServePatch(t) ==
    LET patch == tasks[t].args.patch
    IN  /\ Sent(t, "patch")
        /\ stored' = [stored EXCEPT ![tasks[t].number] =
                         [f \in Fields |-> IF f \in DOMAIN patch THEN patch[f] ELSE @[f]]]
        /\ Reply(t, Null)
        /\ UNCHANGED <<others, behind, lost>>

ServeCreate(t) ==
    /\ Sent(t, "create")
    /\ stored' = Append(stored, tasks[t].args)
    /\ Reply(t, [number |-> Len(stored) + 1, fields |-> tasks[t].args])
    /\ UNCHANGED <<others, behind, lost>>

\* The request never arrives, or its answer does not: what it did stays done.
Fail(t) ==
    /\ CanFail
    /\ tasks[t].kind # "idle" /\ tasks[t].status # "failed"
    /\ tasks' = [tasks EXCEPT ![t].status = "failed", ![t].answer = Null]
    /\ lost' = IF Answered(t, "create") THEN lost \cup {tasks[t].answer.number} ELSE lost
    /\ UNCHANGED <<stored, others, behind>>

OtherClient ==
    /\ others < MaxOthers /\ others' = others + 1
    /\ \E n \in DOMAIN stored, f \in Fields : \E v \in Settable(f) :
         /\ stored' = [stored EXCEPT ![n][f] = v]
         /\ behind' = behind \cup {n}
    /\ UNCHANGED <<lost, tasks>>

Network ==
    /\ \/ \E t \in Tasks : ServeList(t) \/ ServePatch(t) \/ ServeCreate(t) \/ Fail(t)
       \/ OtherClient
    /\ UNCHANGED <<cache, formVars, failed>>

-----------------------------------------------------------------------------
(***************************************************************************)
(* The table                                                               *)
(***************************************************************************)
\* loadEscalationsView, up to its await.
LoadView(t) == Start(t, Request("load", Null, Null)) /\ UNCHANGED <<serverVars, cache, formVars, failed>>

\* What a hidden form holds is not looked at until it is filled again.
Hide == edit' = Hidden /\ touched' = {}

\* Its answer; a save that has reloaded the table hides the form, whether or not
\* that succeeded.  Nothing hides the message of a failure again.
LoadArrives(t) ==
    /\ \/ (Answered(t, "load") \/ Answered(t, "reload")) /\ cache' = tasks[t].answer /\ UNCHANGED failed
       \/ (Failed(t, "load") \/ Failed(t, "reload")) /\ failed' = failed \cup {"escalations"} /\ UNCHANGED cache
    /\ IF tasks[t].kind = "reload" THEN Hide ELSE UNCHANGED <<edit, touched>>
    /\ Await(t, NoRequest)
    /\ UNCHANGED <<serverVars, creating>>

-----------------------------------------------------------------------------
(***************************************************************************)
(* The edit form                                                           *)
(***************************************************************************)
\* openEscalationEditForm: null is shown as an empty text.
Filled(fields) == [f \in Fields |-> IF fields[f] = Null THEN Empty ELSE fields[f]]

ClickRow ==
    /\ \E i \in DOMAIN cache :
         edit' = [shown |-> TRUE, number |-> cache[i].number, fields |-> Filled(cache[i].fields)]
    /\ touched' = {}
    /\ UNCHANGED <<serverVars, tasks, cache, creating, failed>>

EditField ==
    /\ edit.shown
    /\ \E f \in Fields, s \in Typed :
         /\ edit' = [edit EXCEPT !.fields[f] = s]
         /\ touched' = touched \cup {f}
    /\ UNCHANGED <<serverVars, tasks, cache, creating, failed>>

\* buildEscalationPatchPayload: an empty owner or closed_at is sent as null; the
\* owner is compared as it is sent, and the others as they are typed.
Value(f, s) == IF f # "summary" /\ s = Empty THEN Null ELSE s

IsChanged(f, s, original) == (IF f = "owner" THEN Value(f, s) ELSE s) # original

Payload(original, typed) ==
    [f \in {g \in Fields : IsChanged(g, typed[g], original[g])} |-> Value(f, typed[f])]

\* escalationsCache.find
Cached(number) == SelectInSeq(cache, LAMBDA row : row.number = number)

\* Where the cache has no such row the handler throws before it sends anything.
\* What the user has edited goes along with the request for the properties.
SubmitEdit(t) ==
    /\ edit.shown
    /\ Cached(edit.number) > 0
    /\ LET original == cache[Cached(edit.number)].fields
       IN  Start(t, Request("patch", edit.number,
               [patch |-> Payload(original, edit.fields), touched |-> touched]))
    /\ UNCHANGED <<serverVars, cache, formVars, failed>>

\* Mutant: the table is loaded again whether or not the PATCH has failed.
PatchReloads(t) ==
    /\ \/ Answered(t, "patch") /\ UNCHANGED failed
       \/ Failed(t, "patch") /\ failed' = failed \cup {"escalations"}
    /\ Await(t, [Request("reload", Null, Null) EXCEPT
                     !.kind = IF tasks[t].status = "ok" THEN "reload" ELSE "load"])
    /\ UNCHANGED <<serverVars, cache, formVars>>

\* Mutant: the form is hidden, and the table left as it is.
PatchHides(t) ==
    /\ \/ Answered(t, "patch") /\ Hide /\ UNCHANGED failed
       \/ /\ Failed(t, "patch") /\ failed' = failed \cup {"escalations"}
          /\ UNCHANGED <<edit, touched>>
    /\ Await(t, NoRequest)
    /\ UNCHANGED <<serverVars, cache, creating>>

PatchArrives(t) ==
    /\ \/ Answered(t, "patch") /\ Await(t, Request("reload", Null, Null)) /\ UNCHANGED failed
       \/ Failed(t, "patch") /\ Await(t, NoRequest) /\ failed' = failed \cup {"escalations"}
    /\ UNCHANGED <<serverVars, cache, formVars>>

-----------------------------------------------------------------------------
(***************************************************************************)
(* The new escalation                                                      *)
(***************************************************************************)
OpenCreate ==
    /\ creating' = TRUE
    /\ UNCHANGED <<serverVars, tasks, cache, edit, touched, failed>>

CancelCreate ==
    /\ creating /\ creating' = FALSE
    /\ failed' = failed \ {"create"}
    /\ UNCHANGED <<serverVars, tasks, cache, edit, touched>>

NewRows == {r \in [Fields -> Texts \cup {Null}] :
              \A f \in Fields : /\ r[f] \in Settable(f)
                               /\ f = "closed_at" => r[f] = Null}

SubmitCreate(t) ==
    /\ creating
    /\ Len(stored) + Cardinality({u \in Tasks : Sent(u, "create")}) < MaxRows
    /\ \E row \in NewRows : Start(t, Request("create", Null, row))
    /\ failed' = failed \ {"create"}
    /\ UNCHANGED <<serverVars, cache, formVars>>

SubmitBadCreate ==
    /\ creating /\ failed' = failed \cup {"create"}
    /\ UNCHANGED <<serverVars, tasks, cache, formVars>>

\* The created row is put first, and the table is not loaded again.
CreateArrives(t) ==
    /\ \/ /\ Answered(t, "create")
          /\ cache' = <<tasks[t].answer>> \o cache
          /\ creating' = FALSE /\ UNCHANGED failed
       \/ /\ Failed(t, "create") /\ failed' = failed \cup {"create"}
          /\ UNCHANGED <<cache, creating>>
    /\ Await(t, NoRequest)
    /\ UNCHANGED <<serverVars, edit, touched>>

-----------------------------------------------------------------------------
Continue == \E t \in Tasks : LoadArrives(t) \/ PatchArrives(t) \/ CreateArrives(t)

\* What the user can do while the screen is shown.
UseScreen ==
    \/ ClickRow \/ EditField \/ OpenCreate \/ CancelCreate \/ SubmitBadCreate
    \/ \E t \in Tasks : SubmitEdit(t) \/ SubmitCreate(t)

-----------------------------------------------------------------------------
\* While the edit form is shown, the row it is compared with is in the cache, and
\* is the one it was filled from: whatever the user left alone is there as it
\* was drawn (escalations.js:41-57; a row that is missing ends in a TypeError
\* that nobody sees).
FormFollowsCache ==
    edit.shown =>
        /\ Cached(edit.number) > 0
        /\ \A f \in Fields \ touched :
             edit.fields[f] = Filled(cache[Cached(edit.number)].fields)[f]

\* Once nothing is under way, and unless a failure is shown, the table lists every
\* row of the first page once, as it is stored, but for what other clients did and
\* for the creations that were reported as failed although they were not, since it
\* was loaded.
TableIsCurrent ==
    /\ \A i, j \in DOMAIN cache : cache[i].number = cache[j].number => i = j
    /\ \A i \in DOMAIN cache :
         cache[i].number \in behind \/ cache[i] = Row(cache[i].number)
    /\ \A n \in DOMAIN FirstPage \ lost : Cached(n) > 0

\* escalations-directory-nav.spec.md, BEH-3: "with exactly the changed fields".
\* False: an empty closed_at is compared with null, and so is sent each time.
SavesExactlyTheChanged ==
    \A t \in Tasks : tasks[t].kind = "patch" =>
        DOMAIN tasks[t].args.patch \subseteq tasks[t].args.touched
=============================================================================

-------------------------- MODULE NavigationProofs --------------------------
(***************************************************************************)
(* Navigation and EscalationsScreen for any fields and texts, any page     *)
(* size, any number of rows, visits, tasks and changes by other clients:   *)
(* what a user who waits for every answer finds on the page.               *)
(***************************************************************************)
EXTENDS Navigation, SequenceTheorems, TLAPS

-----------------------------------------------------------------------------
(***************************************************************************)
(* Types                                                                   *)
(***************************************************************************)
Contents == [Fields -> Typed \cup {Null}]

TableRow(n) == [number: 1..n, fields: Contents]

\* What a task of each kind waits for, and with what, over n rows.
Fits(r, n) ==
    /\ DOMAIN r = {"kind", "number", "args", "status", "answer"}
    /\ r.kind \in {"idle", "load", "reload", "patch", "create"}
    /\ r.status \in {"sent", "ok", "failed"}
    /\ r.kind = "patch" => /\ r.number \in 1..n
                           /\ \A f \in Fields \cap DOMAIN r.args.patch :
                                r.args.patch[f] \in Typed \cup {Null}
    /\ r.kind = "create" => r.args \in Contents
    /\ r.kind \in {"load", "reload"} /\ r.status = "ok" => r.answer \in Seq(TableRow(n))
    /\ r.kind = "create" /\ r.status = "ok" => r.answer \in TableRow(n)

\* The edit form; while it is shown, it is of one of n rows.
EditForm(n) ==
    {e \in [shown: BOOLEAN, number: Nat \cup {Null}, fields: [Fields -> Typed]] :
       e.shown => e.number \in 1..n}

TypeOK ==
    /\ stored \in Seq(Contents)
    /\ DOMAIN tasks = Tasks
    /\ \A t \in Tasks : Fits(tasks[t], Len(stored))
    /\ cache \in Seq(TableRow(Len(stored)))
    /\ edit \in EditForm(Len(stored))

-----------------------------------------------------------------------------
LEMMA FirstPageType ==
    ASSUME stored \in Seq(Contents)
    PROVE  /\ FirstPage \in Seq(TableRow(Len(stored)))
           /\ DOMAIN FirstPage = {n \in 1..Len(stored) : n <= PageSize}
           /\ \A n \in DOMAIN FirstPage : FirstPage[n] = Row(n)
<1> DEFINE k == Min({PageSize, Len(stored)})
<1>0. Len(stored) \in Nat /\ PageSize \in Nat
  BY ScreenAssumption, LenProperties
<1>1. k = IF PageSize <= Len(stored) THEN PageSize ELSE Len(stored)
  BY <1>0 DEF Min
<1>2. FirstPage = [n \in 1..k |-> Row(n)]
  BY DEF FirstPage
<1> HIDE DEF k
<1>3. \A n \in 1..k : Row(n) \in TableRow(Len(stored))
  BY <1>0, <1>1, ElementOfSeq DEF Row, TableRow
<1>4. FirstPage \in Seq(TableRow(Len(stored)))
  BY <1>0, <1>1, <1>2, <1>3, IsASeq
<1> QED  BY <1>0, <1>1, <1>2, <1>4

\* More rows do not make a request or a table wrong.
LEMMA MoreRows ==
    ASSUME NEW m \in Nat, NEW n \in Nat, m <= n
    PROVE  /\ TableRow(m) \subseteq TableRow(n)
           /\ Seq(TableRow(m)) \subseteq Seq(TableRow(n))
           /\ \A r : Fits(r, m) => Fits(r, n)
           /\ EditForm(m) \subseteq EditForm(n)
<1>1. TableRow(m) \subseteq TableRow(n)
  BY DEF TableRow
<1>2. Seq(TableRow(m)) \subseteq Seq(TableRow(n))
  BY <1>1, SeqMonotonic
<1> QED  BY <1>1, <1>2 DEF Fits, EditForm

LEMMA SettledFits ==
    ASSUME NEW n, NEW r, Fits(r, n), NEW status \in {"ok", "failed"}, NEW answer,
           status = "ok" => /\ r.kind \in {"load", "reload"} => answer \in Seq(TableRow(n))
                            /\ r.kind = "create" => answer \in TableRow(n)
    PROVE  Fits([r EXCEPT !.status = status, !.answer = answer], n)
<1> DEFINE settled == [r EXCEPT !.status = status, !.answer = answer]
<1>1. settled = [f \in DOMAIN r |-> IF f = "answer" THEN answer
                                   ELSE IF f = "status" THEN status ELSE r[f]]
  OBVIOUS
<1>2. /\ settled.kind = r.kind /\ settled.number = r.number /\ settled.args = r.args
      /\ settled.status = status /\ settled.answer = answer /\ DOMAIN settled = DOMAIN r
  BY <1>1 DEF Fits
<1> HIDE DEF settled
<1>3. Fits(settled, n)
  BY <1>2 DEF Fits
<1> QED  BY <1>3 DEF settled

LEMMA NoRequestFits ==
    ASSUME NEW n
    PROVE  Fits(NoRequest, n) /\ Fits(Request("load", Null, Null), n)
           /\ Fits(Request("reload", Null, Null), n)
BY DEF Fits, NoRequest, Request

\* The tasks after one of them moves.
LEMMA TasksFit ==
    ASSUME TypeOK, stored' \in Seq(Contents), Len(stored) <= Len(stored'),
           NEW t \in Tasks, NEW r, Fits(r, Len(stored')), tasks' = [tasks EXCEPT ![t] = r]
    PROVE  /\ DOMAIN tasks' = Tasks
           /\ \A u \in Tasks : Fits(tasks[u], Len(stored))'
<1>1. \A u \in Tasks : tasks'[u] = IF u = t THEN r ELSE tasks[u]
  BY DEF TypeOK
<1>2. \A u \in Tasks : Fits(tasks[u], Len(stored'))
  BY MoreRows, LenProperties DEF TypeOK
<1>3. \A u \in Tasks : Fits(tasks'[u], Len(stored'))
  BY <1>1, <1>2
<1> QED  BY <1>1, <1>3 DEF TypeOK

LEMMA HiddenForm ==
    ASSUME NEW n
    PROVE  Hidden \in EditForm(n)
<1>1. Hidden \in [shown: BOOLEAN, number: Nat \cup {Null}, fields: [Fields -> Typed]]
  BY DEF Hidden, Typed
<1>2. ~Hidden.shown
  BY DEF Hidden
<1> QED  BY <1>1, <1>2 DEF EditForm

LEMMA TypeInit ==
    ASSUME Init
    PROVE  TypeOK
<1>1. stored \in Seq(Contents)
  <2>1. stored \in [1..Seeded -> Contents]
    BY DEF Init, ScreenInit, Contents
  <2> QED  BY <2>1, SeqDef, ScreenAssumption
<1>2. tasks = [t \in Tasks |-> NoRequest] /\ cache = <<>> /\ edit = Hidden
  BY DEF Init, ScreenInit
<1>3. edit \in EditForm(Len(stored))
  BY <1>2, HiddenForm
<1>4. cache \in Seq(TableRow(Len(stored)))
  BY <1>2, EmptySeq
<1> QED  BY <1>1, <1>2, <1>3, <1>4, NoRequestFits DEF TypeOK

\* The request of t is answered, or fails.
Settles(t, status, answer) ==
    tasks' = [tasks EXCEPT ![t].status = status, ![t].answer = answer]

\* The API's side of the types.
LEMMA TypeNetwork ==
    ASSUME TypeOK, Network
    PROVE  TypeOK'
<1> USE DEF Network
<1>0. /\ stored \in Seq(Contents) /\ Len(stored) \in Nat /\ DOMAIN stored = 1..Len(stored)
      /\ \A n \in 1..Len(stored) : stored[n] \in Contents
      /\ \A t \in Tasks : Fits(tasks[t], Len(stored))
  BY LenProperties, ElementOfSeq DEF TypeOK
<1>1. ASSUME NEW t \in Tasks, NEW status \in {"ok", "failed"}, NEW answer, Len(stored) <= Len(stored'),
             stored' \in Seq(Contents),
             Settles(t, status, answer),
             status = "ok" =>
                /\ tasks[t].kind \in {"load", "reload"} => answer \in Seq(TableRow(Len(stored')))
                /\ tasks[t].kind = "create" => answer \in TableRow(Len(stored'))
      PROVE  TypeOK'
  <2>1. Len(stored') \in Nat
    BY <1>1, LenProperties
  <2>2. Fits(tasks[t], Len(stored'))
    BY <1>0, <1>1, <2>1, MoreRows
  <2>3. Fits([tasks[t] EXCEPT !.status = status, !.answer = answer], Len(stored'))
    BY <1>1, <2>2, SettledFits
  <2>4. tasks' = [tasks EXCEPT ![t] = [tasks[t] EXCEPT !.status = status, !.answer = answer]]
    BY <1>1 DEF Settles
  <2>5. /\ DOMAIN tasks' = Tasks
        /\ \A u \in Tasks : Fits(tasks[u], Len(stored))'
    BY <1>1, <2>3, <2>4, TasksFit
  <2>6. cache' \in Seq(TableRow(Len(stored')))
    BY <1>0, <1>1, <2>1, MoreRows DEF TypeOK
  <2>7. edit' \in EditForm(Len(stored'))
    BY <1>0, <1>1, <2>1, MoreRows DEF TypeOK, formVars
  <2> QED  BY <1>1, <2>5, <2>6, <2>7 DEF TypeOK
<1>2. ASSUME NEW t \in Tasks, ServeList(t)
      PROVE  TypeOK'
  <2>1. FirstPage \in Seq(TableRow(Len(stored))) /\ tasks[t].kind \in {"load", "reload"}
    BY <1>0, <1>2, FirstPageType DEF ServeList, Sent
  <2>2. /\ stored' = stored
        /\ Settles(t, "ok", FirstPage)
    BY <1>2 DEF ServeList, Reply, Settles
  <2> QED  BY <1>0, <1>1, <2>1, <2>2
<1>3. ASSUME NEW t \in Tasks, ServePatch(t)
      PROVE  TypeOK'
  <2> DEFINE n == tasks[t].number
             patch == tasks[t].args.patch
             row == [f \in Fields |-> IF f \in DOMAIN patch THEN patch[f] ELSE stored[n][f]]
  <2>1. /\ tasks[t].kind = "patch" /\ stored' = [stored EXCEPT ![n] = row]
        /\ Settles(t, "ok", Null)
    BY <1>3 DEF ServePatch, Sent, Reply, Settles
  <2>2. n \in 1..Len(stored) /\ row \in Contents
    BY <1>0, <2>1 DEF Fits, Contents
  <2> HIDE DEF row
  <2>3. stored' \in Seq(Contents) /\ Len(stored') = Len(stored)
    BY <1>0, <2>1, <2>2, ExceptSeq
  <2> QED  BY <1>0, <1>1, <2>1, <2>3
<1>4. ASSUME NEW t \in Tasks, ServeCreate(t)
      PROVE  TypeOK'
  <2> DEFINE answer == [number |-> Len(stored) + 1, fields |-> tasks[t].args]
  <2>1. /\ tasks[t].kind = "create" /\ stored' = Append(stored, tasks[t].args)
        /\ Settles(t, "ok", answer)
    BY <1>4 DEF ServeCreate, Sent, Reply, Settles
  <2>2. tasks[t].args \in Contents
    BY <1>0, <2>1 DEF Fits
  <2>3. stored' \in Seq(Contents) /\ Len(stored') = Len(stored) + 1
    BY <1>0, <2>1, <2>2, AppendProperties
  <2>4. answer \in TableRow(Len(stored'))
    BY <1>0, <2>2, <2>3 DEF TableRow
  <2> HIDE DEF answer
  <2> QED  BY <1>0, <1>1, <2>1, <2>3, <2>4
<1>5. ASSUME NEW t \in Tasks, Fail(t)
      PROVE  TypeOK'
  <2>1. Settles(t, "failed", Null) /\ stored' = stored
    BY <1>5 DEF Fail, Settles
  <2> QED  BY <1>0, <1>1, <2>1
<1>6. CASE OtherClient /\ UNCHANGED <<cache, formVars, failed>>
  <2>1. PICK n \in DOMAIN stored, f \in Fields : \E v \in Settable(f) :
          stored' = [stored EXCEPT ![n][f] = v]
    BY <1>6 DEF OtherClient
  <2>2. PICK v \in Settable(f) : stored' = [stored EXCEPT ![n] = [stored[n] EXCEPT ![f] = v]]
    BY <2>1
  <2>3. [stored[n] EXCEPT ![f] = v] \in Contents
    BY <1>0, <2>2 DEF Contents, Settable
  <2>4. stored' \in Seq(Contents) /\ Len(stored') = Len(stored)
    BY <1>0, <2>2, <2>3, ExceptSeq
  <2> QED  BY <1>0, <1>6, <2>4 DEF OtherClient, formVars, TypeOK
<1> QED  BY <1>2, <1>3, <1>4, <1>5, <1>6

\* The page's side: a function starts with a request of its own, or ends.
LEMMA TypePage ==
    ASSUME TypeOK, UNCHANGED serverVars,
           \/ UNCHANGED tasks
           \/ \E t \in Tasks : \E r : tasks' = [tasks EXCEPT ![t] = r] /\ Fits(r, Len(stored)),
           cache' \in Seq(TableRow(Len(stored))),
           edit' \in EditForm(Len(stored))
    PROVE  TypeOK'
<1>1. stored' = stored /\ stored' \in Seq(Contents) /\ Len(stored) <= Len(stored')
  BY LenProperties DEF serverVars, TypeOK
<1>2. CASE UNCHANGED tasks
  BY <1>1, <1>2 DEF TypeOK
<1>3. CASE \E t \in Tasks : \E r : tasks' = [tasks EXCEPT ![t] = r] /\ Fits(r, Len(stored))
  <2>1. PICK t \in Tasks : \E r : tasks' = [tasks EXCEPT ![t] = r] /\ Fits(r, Len(stored))
    BY <1>3
  <2>2. PICK r : tasks' = [tasks EXCEPT ![t] = r] /\ Fits(r, Len(stored))
    BY <2>1
  <2>3. Fits(r, Len(stored'))
    BY <1>1, <2>2
  <2>4. /\ DOMAIN tasks' = Tasks
        /\ \A u \in Tasks : Fits(tasks[u], Len(stored))'
    BY <1>1, <2>2, <2>3, TasksFit
  <2> QED  BY <1>1, <2>4 DEF TypeOK
<1> QED  BY <1>2, <1>3

\* What the form is filled with, and what is read back from it.
LEMMA FormTypes ==
    /\ \A fields \in Contents : Filled(fields) \in [Fields -> Typed]
    /\ \A f \in Fields, s \in Typed : Value(f, s) \in Typed \cup {Null}
BY DEF Contents, Filled, Typed, Value

LEMMA TypeScreen ==
    ASSUME TypeOK, UseScreen
    PROVE  TypeOK'
<1>0. /\ stored \in Seq(Contents) /\ Len(stored) \in Nat
      /\ cache \in Seq(TableRow(Len(stored)))
      /\ \A i \in DOMAIN cache : cache[i] \in TableRow(Len(stored))
      /\ edit \in EditForm(Len(stored))
  BY LenProperties, ElementOfSeq DEF TypeOK
<1>1. CASE ClickRow
  <2>1. PICK i \in DOMAIN cache :
          edit' = [shown |-> TRUE, number |-> cache[i].number, fields |-> Filled(cache[i].fields)]
    BY <1>1 DEF ClickRow
  <2>2. cache[i].number \in 1..Len(stored) /\ Filled(cache[i].fields) \in [Fields -> Typed]
    BY <1>0, FormTypes DEF TableRow
  <2>3. edit' \in EditForm(Len(stored))
    BY <1>0, <2>1, <2>2 DEF EditForm
  <2> QED  BY <1>0, <1>1, <2>3, TypePage DEF ClickRow
<1>2. CASE EditField
  <2>1. PICK f \in Fields, s \in Typed : edit' = [edit EXCEPT !.fields[f] = s]
    BY <1>2 DEF EditField
  <2>2. edit' \in EditForm(Len(stored))
    BY <1>0, <2>1 DEF EditForm
  <2> QED  BY <1>0, <1>2, <2>2, TypePage DEF EditField
<1>3. CASE OpenCreate \/ CancelCreate \/ SubmitBadCreate
  BY <1>0, <1>3, TypePage DEF OpenCreate, CancelCreate, SubmitBadCreate, formVars
<1>4. ASSUME NEW t \in Tasks, SubmitEdit(t)
      PROVE  TypeOK'
  <2> DEFINE original == cache[Cached(edit.number)].fields
             args == [patch |-> Payload(original, edit.fields), touched |-> touched]
             r == Request("patch", edit.number, args)
  <2>1. edit.number \in 1..Len(stored) /\ edit.fields \in [Fields -> Typed]
    BY <1>0, <1>4 DEF SubmitEdit, EditForm
  <2>2. \A f \in Fields \cap DOMAIN args.patch : args.patch[f] \in Typed \cup {Null}
    BY <2>1, FormTypes DEF Payload
  <2>3. tasks' = [tasks EXCEPT ![t] = r] /\ UNCHANGED <<serverVars, cache, edit>>
    BY <1>4 DEF SubmitEdit, Start, formVars
  <2>4. Fits(r, Len(stored))
    BY <2>1, <2>2 DEF Fits, Request
  <2> HIDE DEF r
  <2> QED  BY <1>0, <2>3, <2>4, TypePage
<1>5. ASSUME NEW t \in Tasks, SubmitCreate(t)
      PROVE  TypeOK'
  <2>1. PICK row \in NewRows : tasks' = [tasks EXCEPT ![t] = Request("create", Null, row)]
    BY <1>5 DEF SubmitCreate, Start
  <2>2. row \in Contents
    BY DEF NewRows, Contents, Typed
  <2>3. Fits(Request("create", Null, row), Len(stored))
    BY <2>2 DEF Fits, Request
  <2> QED  BY <1>0, <1>5, <2>1, <2>3, TypePage DEF SubmitCreate, formVars
<1> QED  BY <1>1, <1>2, <1>3, <1>4, <1>5 DEF UseScreen

LEMMA TypeContinue ==
    ASSUME TypeOK, Continue
    PROVE  TypeOK'
<1>0. /\ stored \in Seq(Contents) /\ Len(stored) \in Nat
      /\ cache \in Seq(TableRow(Len(stored)))
      /\ \A t \in Tasks : Fits(tasks[t], Len(stored))
      /\ edit \in EditForm(Len(stored))
      /\ Hidden \in EditForm(Len(stored))
  BY LenProperties, HiddenForm DEF TypeOK
<1>1. ASSUME NEW t \in Tasks, LoadArrives(t)
      PROVE  TypeOK'
  <2>1. cache' \in Seq(TableRow(Len(stored)))
    BY <1>0, <1>1 DEF LoadArrives, Answered, Failed, Fits
  <2>2. edit' \in {edit, Hidden}
    BY <1>1 DEF LoadArrives, Hide
  <2>3. tasks' = [tasks EXCEPT ![t] = NoRequest] /\ UNCHANGED serverVars
    BY <1>1 DEF LoadArrives, Await
  <2> QED  BY <1>0, <2>1, <2>2, <2>3, NoRequestFits, TypePage
<1>2. ASSUME NEW t \in Tasks, PatchArrives(t)
      PROVE  TypeOK'
  <2>1. PICK r \in {NoRequest, Request("reload", Null, Null)} : tasks' = [tasks EXCEPT ![t] = r]
    BY <1>2 DEF PatchArrives, Await
  <2>2. Fits(r, Len(stored)) /\ UNCHANGED <<serverVars, cache, edit>>
    BY <1>2, NoRequestFits DEF PatchArrives, formVars
  <2> QED  BY <1>0, <2>1, <2>2, TypePage
<1>3. ASSUME NEW t \in Tasks, CreateArrives(t)
      PROVE  TypeOK'
  <2>1. cache' \in Seq(TableRow(Len(stored)))
    <3>1. CASE UNCHANGED cache
      BY <1>0, <3>1
    <3>2. CASE Answered(t, "create") /\ cache' = <<tasks[t].answer>> \o cache
      <4>1. <<tasks[t].answer>> \in Seq(TableRow(Len(stored)))
        BY <1>0, <3>2 DEF Answered, Fits
      <4> QED  BY <1>0, <3>2, <4>1, ConcatProperties
    <3> QED  BY <1>3, <3>1, <3>2 DEF CreateArrives
  <2>2. tasks' = [tasks EXCEPT ![t] = NoRequest] /\ UNCHANGED <<serverVars, edit>>
    BY <1>3 DEF CreateArrives, Await
  <2> QED  BY <1>0, <2>1, <2>2, NoRequestFits, TypePage
<1> QED  BY <1>1, <1>2, <1>3 DEF Continue

LEMMA TypeStep ==
    ASSUME TypeOK, [Next]_vars
    PROVE  TypeOK'
<1>0. /\ cache \in Seq(TableRow(Len(stored)))
      /\ edit \in EditForm(Len(stored))
  BY DEF TypeOK
<1>1. CASE \E t \in Tasks : LoadView(t)
  BY <1>0, <1>1, NoRequestFits, TypePage DEF LoadView, Start, formVars
<1>2. CASE UNCHANGED screenVars
  BY <1>2 DEF screenVars, TypeOK
<1>3. CASE DirectoryArrives
  BY <1>0, <1>3, TypePage DEF DirectoryArrives, formVars
<1> QED
  BY <1>1, <1>2, <1>3, TypeNetwork, TypeScreen, TypeContinue DEF Next, vars, OpenIncidents,
     OpenEscalations, OpenDirectory, OpenDashboard, TileAnswered, DashboardArrives

-----------------------------------------------------------------------------
(***************************************************************************)
(* A patient user                                                          *)
(***************************************************************************)
Busy(t) == tasks[t].kind # "idle"

\* Something is under way at one place at most.
OneAtATime ==
    /\ \A t, u \in Tasks : Busy(t) /\ Busy(u) => t = u
    /\ (\E t \in Tasks : Busy(t)) => directory = "idle" /\ batches = {}
    /\ directory # "idle" => batches = {}
    /\ \A b, c \in batches : b = c

\* Until the escalations are visited nothing happens there, and the first load
\* comes before any form is opened.
Unvisited ==
    /\ view = "escalations" => "escalations" \in loaded
    /\ "escalations" \notin loaded =>
         cache = <<>> /\ ~edit.shown /\ \A t \in Tasks : ~Busy(t)
    /\ \A t \in Tasks : tasks[t].kind = "load" => ~edit.shown

\* The tiles are those of the last visit as soon as they arrive, and there are
\* none before.
Tiled ==
    /\ batches \subseteq [visit: {visit}, waiting: SUBSET Tiles, failed: SUBSET Tiles]
    /\ batches # {} => tiles = {}
    /\ visit > 0 /\ batches = {} =>
         \E errors \in SUBSET Tiles :
            tiles = {[tile |-> t, visit |-> visit, error |-> t \in errors] : t \in Tiles}

-----------------------------------------------------------------------------
(***************************************************************************)
(* The table                                                               *)
(***************************************************************************)
ListedOnce(table) ==
    \A i, j \in DOMAIN table : table[i].number = table[j].number => i = j

\* A row is as it is stored, or others have changed it.
UpToDate(row, rows, changed) ==
    row.number \in changed \/ row = [number |-> row.number, fields |-> rows[row.number]]

\* A table lists the first page of rows but for those in missing, as they are but
\* for those that others have changed.
Lists(table, rows, changed, missing) ==
    /\ ListedOnce(table)
    /\ \A i \in DOMAIN table : UpToDate(table[i], rows, changed)
    /\ \A n \in (1..Len(rows)) \ missing :
         n <= PageSize => \E i \in DOMAIN table : table[i].number = n

\* The created row is the last one, and not in the table.
CreatedIsLast ==
    \A t \in Tasks : Answered(t, "create") =>
        /\ tasks[t].answer.number = Len(stored)
        /\ \A i \in DOMAIN cache : cache[i].number < Len(stored)
        /\ UpToDate(tasks[t].answer, stored, behind)

\* What a load has fetched is current when it is drawn.
FetchedIsCurrent ==
    \A t \in Tasks : Answered(t, "load") \/ Answered(t, "reload") =>
        Lists(tasks[t].answer, stored, behind, lost)

\* The table is behind only while a load or a save is under way, or when one of
\* them has failed.
Saving(t) ==
    \/ tasks[t].kind \in {"load", "reload"}
    \/ tasks[t].kind = "patch" /\ tasks[t].status # "sent"

Created == {n \in {Len(stored)} : \E t \in Tasks : Answered(t, "create")}

TableKept ==
    /\ ListedOnce(cache)
    /\ "escalations" \in loaded /\ "escalations" \notin failed /\ (\A t \in Tasks : ~Saving(t)) =>
         Lists(cache, stored, behind, lost \cup Created)

\* The row behind the form, wherever in the table it is.
FormFits ==
    edit.shown => \E i \in DOMAIN cache :
        /\ cache[i].number = edit.number
        /\ \A f \in Fields \ touched : edit.fields[f] = Filled(cache[i].fields)[f]

PageFits == CreatedIsLast /\ FetchedIsCurrent /\ TableKept /\ FormFits

Inv == TypeOK /\ OneAtATime /\ Unvisited /\ Tiled /\ PageFits

-----------------------------------------------------------------------------
(***************************************************************************)
(* One thing at a time.                                                    *)
(***************************************************************************)
\* The API changes what a task has got, and never what it waits for.
LEMMA NetworkMoves ==
    ASSUME TypeOK, Network
    PROVE  /\ \A t \in Tasks : tasks'[t].kind = tasks[t].kind
           /\ UNCHANGED <<cache, edit, touched, creating, failed>>
<1>1. ASSUME NEW t \in Tasks, NEW status, NEW answer, Settles(t, status, answer), NEW u \in Tasks
      PROVE  tasks'[u].kind = tasks[u].kind
  BY <1>1 DEF Settles, TypeOK, Fits
<1>2. ASSUME NEW t \in Tasks, ServeList(t) \/ ServePatch(t) \/ ServeCreate(t) \/ Fail(t)
      PROVE  \E status, answer : Settles(t, status, answer)
  BY <1>2 DEF ServeList, ServePatch, ServeCreate, Fail, Reply, Settles
<1>3. \A t \in Tasks : tasks'[t].kind = tasks[t].kind
  BY <1>1, <1>2 DEF Network, OtherClient
<1> QED  BY <1>3 DEF Network, formVars

\* A function that is resumed ends, or goes on to the reload.
LEMMA ContinueMoves ==
    ASSUME TypeOK, Continue
    PROVE  \E t \in Tasks :
             /\ Busy(t)
             /\ tasks'[t] = NoRequest \/ tasks'[t] = Request("reload", Null, Null)
             /\ \A u \in Tasks \ {t} : tasks'[u] = tasks[u]
<1>1. ASSUME NEW t \in Tasks, LoadArrives(t) \/ PatchArrives(t) \/ CreateArrives(t)
      PROVE  /\ Busy(t)
             /\ \E r \in {NoRequest, Request("reload", Null, Null)} :
                  tasks' = [tasks EXCEPT ![t] = r]
  BY <1>1 DEF LoadArrives, PatchArrives, CreateArrives, Answered, Failed, Await, Busy
<1> QED  BY <1>1 DEF Continue, TypeOK

\* A click starts one function at most.
LEMMA ClickMoves ==
    ASSUME TypeOK, UseScreen
    PROVE  \/ tasks' = tasks
           \/ \E t \in Tasks :
                /\ tasks'[t].kind \in {"patch", "create"} /\ tasks'[t].status = "sent"
                /\ \A u \in Tasks \ {t} : tasks'[u] = tasks[u]
<1>1. ASSUME NEW t \in Tasks, SubmitEdit(t) \/ SubmitCreate(t)
      PROVE  \E kind \in {"patch", "create"} : \E number, args :
                tasks' = [tasks EXCEPT ![t] = Request(kind, number, args)]
  BY <1>1 DEF SubmitEdit, SubmitCreate, Start
<1>2. \A kind, number, args : /\ Request(kind, number, args).kind = kind
                              /\ Request(kind, number, args).status = "sent"
  BY DEF Request
<1>3. CASE \E t \in Tasks : SubmitEdit(t) \/ SubmitCreate(t)
  BY <1>1, <1>2, <1>3 DEF TypeOK
<1> QED
  BY <1>3 DEF UseScreen, ClickRow, EditField, OpenCreate, CancelCreate, SubmitBadCreate

\* The first visit starts the load.
LEMMA VisitMoves ==
    ASSUME TypeOK, NEW t \in Tasks, LoadView(t)
    PROVE  /\ tasks'[t] = Request("load", Null, Null) /\ tasks'[t].kind = "load"
           /\ \A u \in Tasks \ {t} : tasks'[u] = tasks[u]
           /\ UNCHANGED <<serverVars, cache, edit, touched, creating, failed>>
BY DEF LoadView, Start, TypeOK, formVars, Request

LEMMA OneStep ==
    ASSUME Patient, TypeOK, OneAtATime, [Next]_vars
    PROVE  OneAtATime'
<1> USE DEF OneAtATime, UserMay, Quiet, ScreenQuiet, Busy
<1>1. CASE Network /\ UNCHANGED navVars
  BY <1>1, NetworkMoves DEF navVars
<1>2. CASE Continue /\ UNCHANGED navVars
  <2>1. NoRequest.kind = "idle"
    BY DEF NoRequest, Request
  <2> QED  BY <1>2, <2>1, ContinueMoves DEF navVars
<1>3. CASE UserMay /\ UseScreen /\ UNCHANGED navVars
  BY <1>3, ClickMoves DEF navVars
<1>4. CASE OpenEscalations
  BY <1>4, VisitMoves DEF OpenEscalations, screenVars
<1>5. CASE OpenIncidents \/ OpenDirectory
  BY <1>5 DEF OpenIncidents, OpenDirectory, screenVars
<1>6. CASE OpenDashboard
  BY <1>6 DEF OpenDashboard, screenVars
<1>7. CASE DirectoryArrives
  BY <1>7 DEF DirectoryArrives
<1>8. CASE \E b \in batches : TileAnswered(b) \/ DashboardArrives(b)
  BY <1>8 DEF TileAnswered, DashboardArrives, screenVars
<1>9. CASE UNCHANGED vars
  BY <1>9 DEF vars, screenVars, navVars
<1> QED  BY <1>1, <1>2, <1>3, <1>4, <1>5, <1>6, <1>7, <1>8, <1>9 DEF Next

LEMMA UnvisitedStep ==
    ASSUME Patient, TypeOK, Unvisited, [Next]_vars
    PROVE  Unvisited'
<1> USE DEF Unvisited, UserMay, Quiet, ScreenQuiet, Busy
<1>1. CASE Network /\ UNCHANGED navVars
  BY <1>1, NetworkMoves DEF navVars
<1>2. CASE Continue /\ UNCHANGED navVars
  <2>1. NoRequest.kind = "idle" /\ Request("reload", Null, Null).kind = "reload"
    BY DEF NoRequest, Request
  <2>2. PICK t \in Tasks : /\ Busy(t)
                           /\ tasks'[t].kind # "load"
                           /\ \A u \in Tasks \ {t} : tasks'[u] = tasks[u]
    BY <1>2, <2>1, ContinueMoves
  <2>3. edit'.shown => edit.shown
    BY <1>2 DEF Continue, LoadArrives, PatchArrives, CreateArrives, Hide, Hidden, formVars
  <2> QED  BY <1>2, <2>2, <2>3 DEF navVars
<1>3. CASE view = "escalations" /\ UserMay /\ UseScreen /\ UNCHANGED navVars
  <2>1. \A t \in Tasks : tasks'[t].kind # "load"
    BY <1>3, ClickMoves
  <2> QED  BY <1>3, <2>1 DEF navVars
<1>4. CASE OpenEscalations
  BY <1>4, VisitMoves DEF OpenEscalations, screenVars
<1>5. CASE OpenIncidents \/ OpenDirectory \/ OpenDashboard
  BY <1>5 DEF OpenIncidents, OpenDirectory, OpenDashboard, screenVars
<1>7. CASE DirectoryArrives
  BY <1>7 DEF DirectoryArrives, formVars
<1>8. CASE \E b \in batches : TileAnswered(b) \/ DashboardArrives(b)
  BY <1>8 DEF TileAnswered, DashboardArrives, screenVars
<1>9. CASE UNCHANGED vars
  BY <1>9 DEF vars, screenVars, navVars
<1> QED  BY <1>1, <1>2, <1>3, <1>4, <1>5, <1>7, <1>8, <1>9 DEF Next

LEMMA TiledStep ==
    ASSUME Patient, OneAtATime, Tiled, [Next]_vars
    PROVE  Tiled'
<1>1. CASE OpenDashboard
  <2>1. batches = {}
    BY <1>1 DEF OpenDashboard, UserMay, Quiet
  <2>2. batches' = {[visit |-> visit', waiting |-> Tiles, failed |-> {}]} /\ tiles' = {}
    BY <1>1, <2>1 DEF OpenDashboard, Cleared
  <2>3. [visit |-> visit', waiting |-> Tiles, failed |-> {}]
          \in [visit: {visit'}, waiting: SUBSET Tiles, failed: SUBSET Tiles]
    OBVIOUS
  <2>4. /\ batches' \subseteq [visit: {visit'}, waiting: SUBSET Tiles, failed: SUBSET Tiles]
        /\ batches' # {}
    BY <2>2, <2>3
  <2> QED  BY <2>2, <2>4 DEF Tiled
<1>2. CASE \E b \in batches : TileAnswered(b)
  <2>1. PICK b \in batches : TileAnswered(b)
    BY <1>2
  <2>2. PICK tile \in b.waiting, fails \in {FALSE, CanFail} :
          batches' = (batches \ {b}) \cup
             {[b EXCEPT !.waiting = @ \ {tile}, !.failed = IF fails THEN @ \cup {tile} ELSE @]}
    BY <2>1 DEF TileAnswered
  <2>3. b \in [visit: {visit}, waiting: SUBSET Tiles, failed: SUBSET Tiles] /\ tile \in Tiles
    BY <2>1, <2>2 DEF Tiled
  <2>4. [b EXCEPT !.waiting = @ \ {tile}, !.failed = IF fails THEN @ \cup {tile} ELSE @]
          \in [visit: {visit}, waiting: SUBSET Tiles, failed: SUBSET Tiles]
    BY <2>3
  <2>5. /\ batches' \subseteq [visit: {visit}, waiting: SUBSET Tiles, failed: SUBSET Tiles]
        /\ batches' # {}
    BY <2>2, <2>4 DEF Tiled
  <2>6. visit' = visit /\ tiles' = tiles /\ tiles = {}
    BY <2>1 DEF TileAnswered, Tiled
  <2> QED  BY <2>5, <2>6 DEF Tiled
<1>3. CASE \E b \in batches : DashboardArrives(b)
  <2>1. PICK b \in batches : DashboardArrives(b)
    BY <1>3
  <2>2. tiles' = TilesOf(b) /\ visit' = visit /\ b.visit = visit /\ batches' = {}
    BY <2>1 DEF DashboardArrives, Tiled, OneAtATime
  <2> DEFINE errors == Tiles \cap b.failed
  <2>3. tiles' = {[tile |-> t, visit |-> visit', error |-> t \in errors] : t \in Tiles}
    BY <2>2 DEF TilesOf
  <2> QED  BY <2>2, <2>3 DEF Tiled
<1>4. CASE UNCHANGED <<visit, batches, tiles>>
  BY <1>4 DEF Tiled
<1> QED
  BY <1>1, <1>2, <1>3, <1>4 DEF Next, vars, navVars, OpenIncidents, OpenEscalations,
     OpenDirectory, DirectoryArrives

-----------------------------------------------------------------------------
(***************************************************************************)
(* The table and the form.                                                 *)
(***************************************************************************)
\* escalationsCache.find in a table that lists each number once.
LEMMA CachedIs ==
    ASSUME NEW m \in Nat, cache \in Seq(TableRow(m)), ListedOnce(cache), NEW i \in DOMAIN cache
    PROVE  Cached(cache[i].number) = i /\ i > 0
<1> DEFINE found == {j \in 1..Len(cache) : cache[j].number = cache[i].number}
<1>1. DOMAIN cache = 1..Len(cache) /\ Len(cache) \in Nat
  BY LenProperties
<1>2. found = {i}
  BY <1>1 DEF ListedOnce
<1>3. Cached(cache[i].number) = IF found # {} THEN Min(found) ELSE 0
  BY DEF Cached, SelectInSeq
<1> HIDE DEF found
<1>4. Min({i}) = i
  BY <1>1 DEF Min
<1> QED  BY <1>1, <1>2, <1>3, <1>4

\* The first page, when it is served.
LEMMA PageLists ==
    ASSUME stored \in Seq(Contents)
    PROVE  Lists(FirstPage, stored, {}, {})
<1>1. Len(stored) \in Nat
  BY LenProperties
<1>2. \A n \in DOMAIN FirstPage : FirstPage[n] = [number |-> n, fields |-> stored[n]]
  BY FirstPageType DEF Row
<1> QED  BY <1>1, <1>2, FirstPageType DEF Lists, ListedOnce, UpToDate

LEMMA TableRows ==
    ASSUME NEW m, NEW table \in Seq(TableRow(m))
    PROVE  \A i \in DOMAIN table : table[i] \in TableRow(m) /\ table[i].number \in 1..m
<1>1. \A i \in DOMAIN table : table[i] \in TableRow(m)
  BY LenProperties, ElementOfSeq
<1> QED  BY <1>1 DEF TableRow

\* A table stays as good when rows change that are known to have changed.
LEMMA ChangedLists ==
    ASSUME NEW rows, NEW changed, NEW now, Len(now) = Len(rows),
           NEW since, changed \subseteq since,
           \A n \in 1..Len(rows) : n \in since \/ now[n] = rows[n]
    PROVE  \A table \in Seq(TableRow(Len(rows))) : \A missing :
             Lists(table, rows, changed, missing) => Lists(table, now, since, missing)
<1> SUFFICES ASSUME NEW table \in Seq(TableRow(Len(rows))), NEW missing,
                    Lists(table, rows, changed, missing)
             PROVE  Lists(table, now, since, missing)
  OBVIOUS
<1>1. \A i \in DOMAIN table : table[i].number \in 1..Len(rows)
  BY TableRows
<1> QED  BY <1>1 DEF Lists, UpToDate

\* A table lacks a row that is appended.
LEMMA AppendedLists ==
    ASSUME NEW table, NEW rows \in Seq(Contents), NEW changed, NEW missing,
           Lists(table, rows, changed, missing),
           \A i \in DOMAIN table : table[i].number \in 1..Len(rows),
           NEW row \in Contents
    PROVE  Lists(table, Append(rows, row), changed, missing \cup {Len(rows) + 1})
<1>1. /\ Len(rows) \in Nat /\ Len(Append(rows, row)) = Len(rows) + 1
      /\ \A n \in 1..Len(rows) : Append(rows, row)[n] = rows[n]
  BY LenProperties, AppendProperties
<1>2. \A i \in DOMAIN table : UpToDate(table[i], Append(rows, row), changed)
  BY <1>1 DEF Lists, UpToDate
<1> QED  BY <1>1, <1>2 DEF Lists

\* And lists it once it is put first.
LEMMA PutFirst ==
    ASSUME NEW m \in Nat, NEW table \in Seq(TableRow(m)), NEW row \in TableRow(m), ListedOnce(table),
           \A i \in DOMAIN table : table[i].number # row.number
    PROVE  /\ ListedOnce(<<row>> \o table)
           /\ (<<row>> \o table)[1] = row
           /\ 1 \in DOMAIN (<<row>> \o table)
           /\ \A i \in DOMAIN table : /\ i + 1 \in DOMAIN (<<row>> \o table)
                                      /\ (<<row>> \o table)[i + 1] = table[i]
           /\ \A j \in DOMAIN (<<row>> \o table) : j = 1 \/ j - 1 \in DOMAIN table
<1>1. /\ <<row>> \in Seq(TableRow(m)) /\ Len(<<row>>) = 1
      /\ Len(table) \in Nat /\ DOMAIN table = 1..Len(table)
  BY LenProperties
<1>2. /\ Len(<<row>> \o table) = 1 + Len(table)
      /\ DOMAIN (<<row>> \o table) = 1..(1 + Len(table))
      /\ \A j \in 1..(1 + Len(table)) :
           (<<row>> \o table)[j] = IF j <= 1 THEN <<row>>[j] ELSE table[j - 1]
  BY <1>1, ConcatProperties, LenProperties
<1> QED  BY <1>1, <1>2 DEF ListedOnce

LEMMA CreatedLists ==
    ASSUME NEW m \in Nat, NEW table \in Seq(TableRow(m)), NEW row \in TableRow(m),
           \A i \in DOMAIN table : table[i].number # row.number,
           NEW rows, NEW changed, NEW missing,
           Lists(table, rows, changed, missing \cup {row.number}),
           UpToDate(row, rows, changed)
    PROVE  Lists(<<row>> \o table, rows, changed, missing)
<1> DEFINE longer == <<row>> \o table
<1>1. /\ ListedOnce(longer) /\ longer[1] = row /\ 1 \in DOMAIN longer
      /\ \A i \in DOMAIN table : i + 1 \in DOMAIN longer /\ longer[i + 1] = table[i]
      /\ \A j \in DOMAIN longer : j = 1 \/ j - 1 \in DOMAIN table
      /\ DOMAIN table \subseteq Nat /\ DOMAIN longer \subseteq Nat
  <2>1. ListedOnce(table)
    BY DEF Lists
  <2>2. <<row>> \in Seq(TableRow(m))
    OBVIOUS
  <2>3. longer \in Seq(TableRow(m))
    BY <2>2, ConcatProperties
  <2> QED  BY <2>1, <2>3, PutFirst, LenProperties
<1> HIDE DEF longer
<1>2. \A j \in DOMAIN longer : longer[j] = row \/ \E i \in DOMAIN table : longer[j] = table[i]
  <2>1. ASSUME NEW j \in DOMAIN longer, j # 1
        PROVE  j - 1 \in DOMAIN table /\ longer[j] = table[j - 1]
    BY <1>1, <2>1
  <2> QED  BY <1>1, <2>1
<1>3. \A n \in (1..Len(rows)) \ missing :
        n <= PageSize => \E j \in DOMAIN longer : longer[j].number = n
  BY <1>1 DEF Lists
<1>4. Lists(longer, rows, changed, missing)
  <2>1. \A j \in DOMAIN longer : UpToDate(longer[j], rows, changed)
    BY <1>2 DEF Lists
  <2> QED  BY <1>1, <1>3, <2>1 DEF Lists
<1> QED  BY <1>4 DEF longer

\* What is known of the other tasks while one is under way.
LEMMA Alone ==
    ASSUME OneAtATime, NEW t \in Tasks, Busy(t), \A u \in Tasks \ {t} : tasks'[u] = tasks[u]
    PROVE  \A u \in Tasks \ {t} : tasks[u].kind = "idle" /\ tasks'[u].kind = "idle"
BY DEF OneAtATime, Busy

LEMMA SettlesMoves ==
    ASSUME TypeOK, NEW t \in Tasks, NEW status, NEW answer, Settles(t, status, answer)
    PROVE  /\ tasks'[t].kind = tasks[t].kind
           /\ tasks'[t].status = status /\ tasks'[t].answer = answer
           /\ \A u \in Tasks \ {t} : tasks'[u] = tasks[u]
BY DEF Settles, TypeOK, Fits

LEMMA PageNetwork ==
    ASSUME TypeOK, OneAtATime, PageFits, Network, UNCHANGED navVars
    PROVE  PageFits'
<1> USE DEF PageFits
<1>0. /\ stored \in Seq(Contents) /\ Len(stored) \in Nat /\ DOMAIN stored = 1..Len(stored)
      /\ cache \in Seq(TableRow(Len(stored)))
      /\ \A i \in DOMAIN cache : cache[i].number \in 1..Len(stored)
      /\ DOMAIN tasks = Tasks
      /\ UNCHANGED <<cache, edit, touched, failed, loaded>>
  <2>1. stored \in Seq(Contents) /\ cache \in Seq(TableRow(Len(stored))) /\ DOMAIN tasks = Tasks
    BY DEF TypeOK
  <2>2. UNCHANGED <<cache, edit, touched, failed, loaded>>
    BY NetworkMoves DEF navVars
  <2> QED  BY <2>1, <2>2, LenProperties, TableRows
<1>1. FormFits' /\ ListedOnce(cache)'
  BY <1>0 DEF FormFits, TableKept
<1>2. ASSUME NEW t \in Tasks, ServeList(t)
      PROVE  PageFits'
  <2>1. /\ tasks[t].kind \in {"load", "reload"} /\ Settles(t, "ok", FirstPage)
        /\ stored' = stored /\ behind' = {} /\ lost' = {}
    BY <1>2 DEF ServeList, Sent, Reply, Settles
  <2>2. /\ tasks'[t].kind \in {"load", "reload"} /\ tasks'[t].answer = FirstPage
        /\ \A u \in Tasks \ {t} : tasks'[u].kind = "idle"
    BY <2>1, SettlesMoves, Alone DEF Busy
  <2>3. Lists(FirstPage, stored', behind', lost')
    BY <1>0, <2>1, PageLists
  <2>4. CreatedIsLast'
    BY <2>2 DEF CreatedIsLast, Answered
  <2>5. FetchedIsCurrent'
    BY <2>2, <2>3 DEF FetchedIsCurrent, Answered
  <2>6. TableKept'
    BY <1>1, <2>2 DEF TableKept, Saving
  <2> QED  BY <1>1, <2>4, <2>5, <2>6
<1>3. ASSUME NEW t \in Tasks, ServePatch(t)
      PROVE  PageFits'
  <2>1. tasks[t].kind = "patch" /\ Settles(t, "ok", Null)
    BY <1>3 DEF ServePatch, Sent, Reply, Settles
  <2>2. /\ tasks'[t].kind = "patch" /\ tasks'[t].status = "ok"
        /\ \A u \in Tasks \ {t} : tasks'[u].kind = "idle"
    BY <2>1, SettlesMoves, Alone DEF Busy
  <2>3. CreatedIsLast' /\ FetchedIsCurrent'
    BY <2>2 DEF CreatedIsLast, FetchedIsCurrent, Answered
  <2>4. TableKept'
    BY <1>1, <2>2 DEF TableKept, Saving
  <2> QED  BY <1>1, <2>3, <2>4
<1>4. ASSUME NEW t \in Tasks, ServeCreate(t)
      PROVE  PageFits'
  <2> DEFINE answer == [number |-> Len(stored) + 1, fields |-> tasks[t].args]
  <2>1. /\ tasks[t].kind = "create" /\ tasks[t].status = "sent"
        /\ stored' = Append(stored, tasks[t].args) /\ UNCHANGED <<behind, lost>>
        /\ Settles(t, "ok", answer)
    BY <1>4 DEF ServeCreate, Sent, Reply, Settles
  <2>2. tasks[t].args \in Contents
    BY <2>1 DEF TypeOK, Fits
  <2>3. /\ tasks'[t].kind = "create" /\ tasks'[t].status = "ok" /\ tasks'[t].answer = answer
        /\ \A u \in Tasks \ {t} : tasks[u].kind = "idle" /\ tasks'[u].kind = "idle"
    BY <2>1, SettlesMoves, Alone DEF Busy
  <2>4. Len(stored') = Len(stored) + 1 /\ stored'[Len(stored')] = tasks[t].args
    BY <1>0, <2>1, <2>2, AppendProperties
  <2>5. UpToDate(answer, stored', behind')
    BY <2>4 DEF UpToDate
  <2>6. answer.number = Len(stored')
    BY <2>4
  <2> HIDE DEF answer
  <2>7. CreatedIsLast'
    BY <1>0, <2>3, <2>4, <2>5, <2>6 DEF CreatedIsLast, Answered
  <2>8. FetchedIsCurrent'
    BY <2>3 DEF FetchedIsCurrent, Answered
  <2>9. TableKept'
    <3>1. Created = {} /\ Created' = {Len(stored) + 1} /\ \A u \in Tasks : ~Saving(u)
      BY <2>1, <2>3, <2>4 DEF Created, Answered, Saving
    <3>2. ASSUME "escalations" \in loaded, "escalations" \notin failed
          PROVE  Lists(cache', stored', behind', lost' \cup Created')
      <4>1. Lists(cache, stored, behind, lost)
        BY <3>1, <3>2 DEF TableKept
      <4>2. Lists(cache, Append(stored, tasks[t].args), behind, lost \cup {Len(stored) + 1})
        BY <1>0, <2>2, <4>1, AppendedLists
      <4> QED  BY <1>0, <2>1, <3>1, <4>2
    <3> QED  BY <1>0, <1>1, <3>2 DEF TableKept
  <2> QED  BY <1>1, <2>7, <2>8, <2>9
<1>5. ASSUME NEW t \in Tasks, Fail(t)
      PROVE  PageFits'
  <2>1. /\ tasks[t].kind # "idle" /\ UNCHANGED <<stored, behind>>
        /\ Settles(t, "failed", Null)
        /\ lost' = IF Answered(t, "create") THEN lost \cup {tasks[t].answer.number} ELSE lost
    BY <1>5 DEF Fail, Settles
  <2>2. /\ tasks'[t].kind = tasks[t].kind /\ tasks'[t].status = "failed"
        /\ \A u \in Tasks \ {t} : tasks[u].kind = "idle" /\ tasks'[u].kind = "idle"
    BY <2>1, SettlesMoves, Alone DEF Busy
  <2>3. CreatedIsLast' /\ FetchedIsCurrent'
    BY <2>2 DEF CreatedIsLast, FetchedIsCurrent, Answered
  <2>4. lost' \cup Created' = lost \cup Created
    BY <2>1, <2>2 DEF CreatedIsLast, Created, Answered
  <2>5. (\A u \in Tasks : ~Saving(u)') => \A u \in Tasks : ~Saving(u)
    BY <2>2 DEF Saving
  <2>6. TableKept'
    BY <1>0, <1>1, <2>1, <2>4, <2>5 DEF TableKept
  <2> QED  BY <1>1, <2>3, <2>6
<1>6. CASE OtherClient
  <2>1. PICK n \in DOMAIN stored, f \in Fields : \E v \in Settable(f) :
          stored' = [stored EXCEPT ![n][f] = v] /\ behind' = behind \cup {n}
    BY <1>6 DEF OtherClient
  <2>2. /\ Len(stored') = Len(stored) /\ behind \subseteq behind'
        /\ \A k \in 1..Len(stored) : k \in behind' \/ stored'[k] = stored[k]
        /\ UNCHANGED <<lost, tasks>>
    <3>1. PICK v : stored' = [stored EXCEPT ![n] = [stored[n] EXCEPT ![f] = v]]
      BY <2>1
    <3>2. Len(stored') = Len(stored)
      BY <1>0, <3>1, LenProperties, ExceptSeq
    <3> QED  BY <1>0, <1>6, <2>1, <3>1, <3>2 DEF OtherClient
  <2>3. \A table \in Seq(TableRow(Len(stored))) : \A missing :
          Lists(table, stored, behind, missing) => Lists(table, stored', behind', missing)
    BY <2>2, ChangedLists
  <2>4. CreatedIsLast'
    <3>1. ASSUME NEW t \in Tasks, Answered(t, "create")
          PROVE  UpToDate(tasks[t].answer, stored', behind')
      <4>1. tasks[t].answer.number \in 1..Len(stored)
        BY <3>1 DEF Answered, TypeOK, Fits, TableRow
      <4>2. UpToDate(tasks[t].answer, stored, behind)
        BY <3>1 DEF CreatedIsLast
      <4> QED  BY <2>2, <4>1, <4>2 DEF UpToDate
    <3>2. \A t \in Tasks : Answered(t, "create")' = Answered(t, "create")
      BY <2>2 DEF Answered
    <3> QED  BY <1>0, <2>2, <3>1, <3>2 DEF CreatedIsLast
  <2>5. FetchedIsCurrent'
    BY <1>0, <2>2, <2>3 DEF FetchedIsCurrent, Answered, TypeOK, Fits
  <2>6. TableKept'
    <3>1. Created' = Created /\ \A u \in Tasks : Saving(u)' = Saving(u)
      BY <2>2 DEF Created, Answered, Saving
    <3> QED  BY <1>0, <1>1, <2>2, <2>3, <3>1 DEF TableKept
  <2> QED  BY <1>1, <2>4, <2>5, <2>6
<1> QED  BY <1>2, <1>3, <1>4, <1>5, <1>6 DEF Network

\* A function goes on with its answer.
LEMMA PageContinue ==
    ASSUME TypeOK, OneAtATime, Unvisited, PageFits, Continue, UNCHANGED navVars
    PROVE  PageFits'
<1> USE DEF PageFits
<1>0. /\ Len(stored) \in Nat /\ cache \in Seq(TableRow(Len(stored)))
      /\ \A i \in DOMAIN cache : cache[i] \in TableRow(Len(stored))
      /\ DOMAIN tasks = Tasks /\ \A t \in Tasks : Fits(tasks[t], Len(stored))
      /\ UNCHANGED loaded
  <2>1. stored \in Seq(Contents) /\ cache \in Seq(TableRow(Len(stored)))
    BY DEF TypeOK
  <2> QED  BY <2>1, LenProperties, TableRows DEF TypeOK, navVars
<1>1. ASSUME NEW t \in Tasks, NEW r, tasks' = [tasks EXCEPT ![t] = r], Busy(t)
      PROVE  tasks'[t] = r /\ \A u \in Tasks \ {t} : tasks[u].kind = "idle" /\ tasks'[u].kind = "idle"
  BY <1>0, <1>1, Alone
<1>2. NoRequest.kind = "idle" /\ Request("reload", Null, Null).kind = "reload"
      /\ Request("reload", Null, Null).status = "sent"
  BY DEF NoRequest, Request
<1>3. ASSUME NEW t \in Tasks, LoadArrives(t)
      PROVE  PageFits'
  <2>1. /\ tasks[t].kind \in {"load", "reload"} /\ tasks' = [tasks EXCEPT ![t] = NoRequest]
        /\ UNCHANGED <<stored, behind, lost>>
    BY <1>3 DEF LoadArrives, Answered, Failed, Await, serverVars
  <2>2. \A u \in Tasks : tasks'[u].kind = "idle"
    BY <1>1, <1>2, <2>1 DEF Busy
  <2>3. CreatedIsLast' /\ FetchedIsCurrent' /\ Created' = {}
    BY <2>2 DEF CreatedIsLast, FetchedIsCurrent, Created, Answered
  <2>4. FormFits'
    <3>1. CASE tasks[t].kind = "reload"
      BY <1>3, <3>1 DEF LoadArrives, Hide, Hidden, FormFits
    <3>2. CASE tasks[t].kind = "load"
      BY <1>3, <3>2 DEF LoadArrives, Unvisited, FormFits
    <3> QED  BY <2>1, <3>1, <3>2
  <2>5. TableKept'
    <3>1. CASE (Answered(t, "load") \/ Answered(t, "reload")) /\ cache' = tasks[t].answer
      <4>1. Lists(cache', stored', behind', lost' \cup Created')
        BY <2>1, <2>3, <3>1 DEF FetchedIsCurrent
      <4> QED  BY <4>1 DEF TableKept, Lists
    <3>2. CASE "escalations" \in failed' /\ cache' = cache
      BY <3>2 DEF TableKept
    <3> QED  BY <1>3, <3>1, <3>2 DEF LoadArrives
  <2> QED  BY <2>3, <2>4, <2>5
<1>4. ASSUME NEW t \in Tasks, PatchArrives(t)
      PROVE  PageFits'
  <2>1. tasks[t].kind = "patch" /\ UNCHANGED <<stored, behind, lost, cache, edit, touched>>
    BY <1>4 DEF PatchArrives, Answered, Failed, serverVars, formVars
  <2>2. FormFits'
    BY <2>1 DEF FormFits
  <2>3. \A u \in Tasks \ {t} : tasks'[u].kind = "idle"
    BY <1>1, <1>4, <2>1 DEF PatchArrives, Await, Busy
  <2>4. CASE tasks' = [tasks EXCEPT ![t] = Request("reload", Null, Null)]
    <3>1. tasks'[t].kind = "reload" /\ tasks'[t].status = "sent"
      BY <1>0, <1>2, <2>4
    <3>2. CreatedIsLast' /\ FetchedIsCurrent'
      BY <2>3, <3>1 DEF CreatedIsLast, FetchedIsCurrent, Answered
    <3>3. TableKept'
      BY <2>1, <3>1 DEF TableKept, Saving
    <3> QED  BY <2>2, <3>2, <3>3
  <2>5. CASE tasks' = [tasks EXCEPT ![t] = NoRequest] /\ "escalations" \in failed'
    <3>1. tasks'[t].kind = "idle"
      BY <1>0, <1>2, <2>5
    <3>2. CreatedIsLast' /\ FetchedIsCurrent'
      BY <2>3, <3>1 DEF CreatedIsLast, FetchedIsCurrent, Answered
    <3>3. TableKept'
      BY <2>1, <2>5 DEF TableKept
    <3> QED  BY <2>2, <3>2, <3>3
  <2> QED  BY <1>4, <2>4, <2>5 DEF PatchArrives, Await
<1>5. ASSUME NEW t \in Tasks, CreateArrives(t)
      PROVE  PageFits'
  <2> DEFINE row == tasks[t].answer
  <2>1. /\ tasks[t].kind = "create" /\ tasks' = [tasks EXCEPT ![t] = NoRequest]
        /\ UNCHANGED <<stored, behind, lost, edit, touched>>
        /\ "escalations" \in failed' <=> "escalations" \in failed
    BY <1>5 DEF CreateArrives, Answered, Failed, Await, serverVars
  <2>2. \A u \in Tasks : tasks'[u].kind = "idle" /\ (u # t => tasks[u].kind = "idle")
    BY <1>1, <1>2, <2>1 DEF Busy
  <2>3. CreatedIsLast' /\ FetchedIsCurrent' /\ Created' = {}
    BY <2>2 DEF CreatedIsLast, FetchedIsCurrent, Created, Answered
  <2>4. \A u \in Tasks : ~Saving(u)
    BY <2>1, <2>2 DEF Saving
  <2>5. CASE Failed(t, "create") /\ cache' = cache
    <3>1. Created = {}
      BY <2>2, <2>5 DEF Created, Answered, Failed
    <3>2. FormFits' /\ TableKept'
      BY <1>0, <2>1, <2>3, <2>4, <2>5, <3>1 DEF FormFits, TableKept
    <3> QED  BY <2>3, <3>2
  <2>6. CASE Answered(t, "create") /\ cache' = <<row>> \o cache
    <3>1. /\ row \in TableRow(Len(stored)) /\ row.number = Len(stored)
          /\ UpToDate(row, stored, behind)
          /\ \A i \in DOMAIN cache : cache[i].number # row.number
          /\ Created = {row.number}
      <4>1. row \in TableRow(Len(stored))
        BY <1>0, <2>6 DEF Answered, Fits
      <4>2. /\ row.number = Len(stored) /\ UpToDate(row, stored, behind)
            /\ \A i \in DOMAIN cache : cache[i].number < Len(stored)
        BY <2>6 DEF CreatedIsLast
      <4>3. \A i \in DOMAIN cache : cache[i].number \in Nat
        BY <1>0 DEF TableRow
      <4> QED  BY <1>0, <2>6, <4>1, <4>2, <4>3 DEF Created
    <3> HIDE DEF row
    <3>2. ListedOnce(cache') /\ \A i \in DOMAIN cache : i + 1 \in DOMAIN cache' /\ cache'[i + 1] = cache[i]
      BY <1>0, <2>6, <3>1, PutFirst DEF TableKept
    <3>3. FormFits'
      BY <2>1, <3>2 DEF FormFits
    <3>4. ASSUME "escalations" \in loaded, "escalations" \notin failed
          PROVE  Lists(cache', stored', behind', lost' \cup Created')
      <4>1. Lists(cache, stored, behind, lost \cup {row.number})
        BY <2>4, <3>1, <3>4 DEF TableKept
      <4>2. Lists(<<row>> \o cache, stored, behind, lost)
        BY <1>0, <3>1, <4>1, CreatedLists
      <4> QED  BY <2>1, <2>3, <2>6, <4>2
    <3>5. TableKept'
      BY <1>0, <2>1, <3>2, <3>4 DEF TableKept
    <3> QED  BY <2>3, <3>3, <3>5
  <2> QED  BY <1>5, <2>5, <2>6 DEF CreateArrives
<1> QED  BY <1>3, <1>4, <1>5 DEF Continue

\* A step of the page that fetches nothing and leaves table and form alone.
LEMMA PageKept ==
    ASSUME PageFits, UNCHANGED <<serverVars, tasks, cache, edit, touched>>,
           "escalations" \in loaded' => "escalations" \in loaded,
           "escalations" \in failed => "escalations" \in failed'
    PROVE  PageFits'
<1>1. UNCHANGED <<stored, behind, lost>>
  BY DEF serverVars
<1>2. \A t \in Tasks : \A kind : Answered(t, kind)' = Answered(t, kind)
  BY DEF Answered
<1>3. Created' = Created /\ \A t \in Tasks : Saving(t)' = Saving(t)
  BY <1>1, <1>2 DEF Created, Saving
<1>4. CreatedIsLast' /\ FetchedIsCurrent'
  BY <1>1, <1>2 DEF PageFits, CreatedIsLast, FetchedIsCurrent
<1>5. TableKept'
  BY <1>1, <1>3 DEF PageFits, TableKept
<1>6. FormFits'
  BY DEF PageFits, FormFits
<1> QED  BY <1>4, <1>5, <1>6 DEF PageFits

\* The user opens the form of a row, edits it, saves it or creates a row.
LEMMA PageUse ==
    ASSUME TypeOK, ScreenQuiet, PageFits, UseScreen, UNCHANGED navVars
    PROVE  PageFits'
<1>1. \A t \in Tasks : /\ tasks[t].kind = "idle"
                       /\ tasks'[t].kind \in {"idle", "patch", "create"}
                       /\ tasks'[t].kind # "idle" => tasks'[t].status = "sent"
  BY ClickMoves DEF ScreenQuiet
<1>2. /\ CreatedIsLast' /\ FetchedIsCurrent'
      /\ Created = {} /\ Created' = {}
      /\ \A t \in Tasks : ~Saving(t) /\ ~Saving(t)'
  BY <1>1 DEF CreatedIsLast, FetchedIsCurrent, Created, Saving, Answered
<1>3. /\ UNCHANGED <<stored, behind, lost, cache, loaded>>
      /\ "escalations" \in failed' <=> "escalations" \in failed
  BY DEF UseScreen, ClickRow, EditField, OpenCreate, CancelCreate, SubmitBadCreate,
     SubmitEdit, SubmitCreate, serverVars, navVars
<1>4. TableKept'
  BY <1>2, <1>3 DEF PageFits, TableKept
<1>5. FormFits'
  <2>1. CASE ClickRow
    BY <2>1 DEF ClickRow, FormFits
  <2>2. CASE EditField
    <3>1. PICK f \in Fields, s \in Typed :
            edit' = [edit EXCEPT !.fields[f] = s] /\ touched' = touched \cup {f}
      BY <2>2 DEF EditField
    <3>2. /\ edit'.shown = edit.shown /\ edit'.number = edit.number
          /\ \A g \in Fields \ touched' : edit'.fields[g] = edit.fields[g]
      BY <3>1 DEF TypeOK, EditForm
    <3> QED  BY <1>3, <3>1, <3>2 DEF PageFits, FormFits
  <2>3. CASE UNCHANGED <<edit, touched>>
    BY <1>3, <2>3 DEF PageFits, FormFits
  <2> QED  BY <2>1, <2>2, <2>3 DEF UseScreen, OpenCreate, CancelCreate, SubmitBadCreate,
           SubmitEdit, SubmitCreate, formVars
<1> QED  BY <1>2, <1>4, <1>5 DEF PageFits

LEMMA PageStep ==
    ASSUME Patient, TypeOK, OneAtATime, Unvisited, PageFits, [Next]_vars
    PROVE  PageFits'
<1>1. CASE (Network \/ Continue) /\ UNCHANGED navVars
  BY <1>1, PageNetwork, PageContinue
<1>2. CASE UserMay /\ UseScreen /\ UNCHANGED navVars
  BY <1>2, PageUse DEF UserMay, Quiet
<1>3. CASE OpenEscalations
  <2>1. CASE "escalations" \in loaded /\ UNCHANGED screenVars
    BY <2>1, PageKept DEF screenVars, serverVars
  <2>2. ASSUME NEW t \in Tasks, LoadView(t), "escalations" \notin loaded
        PROVE  PageFits'
    <3>1. /\ tasks'[t].kind = "load" /\ tasks'[t].status = "sent"
          /\ \A u \in Tasks \ {t} : tasks'[u].kind = "idle"
          /\ UNCHANGED <<cache, edit, touched>>
      BY <1>3, <2>2, VisitMoves DEF Unvisited, Busy, Request
    <3>2. CreatedIsLast' /\ FetchedIsCurrent'
      BY <3>1 DEF CreatedIsLast, FetchedIsCurrent, Answered
    <3>3. TableKept'
      BY <3>1 DEF PageFits, TableKept, Saving
    <3>4. FormFits'
      BY <3>1 DEF PageFits, FormFits
    <3> QED  BY <3>2, <3>3, <3>4 DEF PageFits
  <2> QED  BY <1>3, <2>1, <2>2 DEF OpenEscalations
<1>4. CASE \/ OpenIncidents \/ OpenDirectory \/ OpenDashboard
           \/ \E b \in batches : TileAnswered(b) \/ DashboardArrives(b)
           \/ UNCHANGED vars
  BY <1>4, PageKept DEF OpenIncidents, OpenDirectory, OpenDashboard, TileAnswered,
     DashboardArrives, vars, screenVars, navVars, serverVars
<1>5. CASE DirectoryArrives
  BY <1>5, PageKept DEF DirectoryArrives, formVars
<1> QED  BY <1>1, <1>2, <1>3, <1>4, <1>5 DEF Next

-----------------------------------------------------------------------------
(***************************************************************************)
(* The theorems                                                            *)
(***************************************************************************)
LEMMA InvInit ==
    ASSUME Init
    PROVE  Inv
<1>1. /\ tasks = [t \in Tasks |-> NoRequest] /\ cache = <<>> /\ edit = Hidden
      /\ view = "incidents" /\ loaded = {"incidents"} /\ directory = "idle"
      /\ visit = 0 /\ batches = {} /\ tiles = {}
  BY DEF Init, ScreenInit
<1>2. \A t \in Tasks : tasks[t].kind = "idle"
  BY <1>1 DEF NoRequest, Request
<1>3. ~edit.shown /\ DOMAIN cache = {}
  BY <1>1 DEF Hidden
<1>4. OneAtATime /\ Tiled
  BY <1>1, <1>2 DEF OneAtATime, Tiled, Busy
<1>5. Unvisited
  BY <1>1, <1>2, <1>3 DEF Unvisited, Busy
<1>6. PageFits
  BY <1>1, <1>2, <1>3 DEF PageFits, CreatedIsLast, FetchedIsCurrent, TableKept, FormFits,
     Answered, ListedOnce
<1> QED  BY <1>4, <1>5, <1>6, TypeInit DEF Inv

LEMMA InvStep ==
    ASSUME Patient, Inv, [Next]_vars
    PROVE  Inv'
BY TypeStep, OneStep, UnvisitedStep, TiledStep, PageStep DEF Inv

\* Whoever the user is, requests and answers, table and form hold what the code
\* takes them to hold: a form that is shown is of an escalation that exists, and a
\* PATCH is sent for one that exists (escalations.js:41-57, 64-100).
THEOREM TypeCorrect == Spec => []TypeOK
<1>1. Init => TypeOK
  BY TypeInit
<1>2. TypeOK /\ [Next]_vars => TypeOK'
  BY TypeStep
<1> QED  BY <1>1, <1>2, PTL DEF Spec

THEOREM Invariance ==
    ASSUME Patient
    PROVE  Spec => []Inv
<1>1. Init => Inv
  BY InvInit
<1>2. Inv /\ [Next]_vars => Inv'
  BY InvStep
<1> QED  BY <1>1, <1>2, PTL DEF Spec

\* A user who waits for every answer always edits a row that is in the cache, and
\* what they leave alone is in the form as the cache holds it: saving compares with
\* what was shown (escalations.js:41-57).  The clicks of an impatient user break
\* it: see the overlap run.
THEOREM FormIsCached ==
    ASSUME Patient
    PROVE  Spec => []FormFollowsCache
<1>1. Inv => FormFollowsCache
  <2> SUFFICES ASSUME Inv, edit.shown
               PROVE  /\ Cached(edit.number) > 0
                      /\ \A f \in Fields \ touched :
                           edit.fields[f] = Filled(cache[Cached(edit.number)].fields)[f]
    BY DEF FormFollowsCache
  <2>1. PICK i \in DOMAIN cache :
          /\ cache[i].number = edit.number
          /\ \A f \in Fields \ touched : edit.fields[f] = Filled(cache[i].fields)[f]
    BY DEF Inv, PageFits, FormFits
  <2>2. ListedOnce(cache) /\ cache \in Seq(TableRow(Len(stored))) /\ Len(stored) \in Nat
    BY LenProperties DEF Inv, PageFits, TableKept, TypeOK
  <2>3. Cached(edit.number) = i /\ i > 0
    BY <2>1, <2>2, CachedIs
  <2> QED  BY <2>1, <2>3
<1> QED  BY <1>1, Invariance, PTL

\* The dashboard of a user who waits shows one tile of each kind, and all of the
\* last visit (dashboard.js:60-74).
THEOREM DashboardOfLastVisit ==
    ASSUME Patient
    PROVE  Spec => []DashboardIsOfLastVisit
<1>1. Inv => DashboardIsOfLastVisit
  <2> SUFFICES ASSUME Inv, Quiet, visit > 0
               PROVE  /\ \A t \in Tiles : \E shown \in tiles : shown.tile = t
                      /\ \A shown, other \in tiles :
                           shown.visit = visit /\ (shown.tile = other.tile => shown = other)
    BY DEF DashboardIsOfLastVisit
  <2>1. PICK errors \in SUBSET Tiles :
          tiles = {[tile |-> t, visit |-> visit, error |-> t \in errors] : t \in Tiles}
    BY DEF Inv, Tiled, Quiet
  <2> DEFINE TileOf(t) == [tile |-> t, visit |-> visit, error |-> t \in errors]
  <2>2. tiles = {TileOf(t) : t \in Tiles}
    BY <2>1
  <2>3. \A t : TileOf(t).tile = t /\ TileOf(t).visit = visit
    OBVIOUS
  <2> HIDE DEF TileOf
  <2> QED  BY <2>2, <2>3
<1> QED  BY <1>1, Invariance, PTL

\* The escalations of a user who waits, once visited and unless a failure is shown,
\* are the first page as it is stored, each row once, but for what other clients
\* have changed and what was created without being confirmed since the table was
\* loaded (nav.js:21-31, escalations.js:64-121).
THEOREM VisitedViewsFilled ==
    ASSUME Patient
    PROVE  Spec => []VisitedIsFilled
<1>1. Inv => VisitedIsFilled
  <2> SUFFICES ASSUME Inv, Quiet, "escalations" \in loaded, "escalations" \notin failed
               PROVE  TableIsCurrent
    BY DEF VisitedIsFilled
  <2>1. Created = {} /\ \A t \in Tasks : ~Saving(t)
    BY DEF Quiet, ScreenQuiet, Created, Saving, Answered
  <2>2. Lists(cache, stored, behind, lost)
    BY <2>1 DEF Inv, PageFits, TableKept
  <2>3. stored \in Seq(Contents) /\ cache \in Seq(TableRow(Len(stored))) /\ Len(stored) \in Nat
    BY LenProperties DEF Inv, TypeOK
  <2>4. \A i, j \in DOMAIN cache : cache[i].number = cache[j].number => i = j
    BY <2>2 DEF Lists, ListedOnce
  <2>5. \A i \in DOMAIN cache :
          cache[i].number \in behind \/ cache[i] = Row(cache[i].number)
    BY <2>2 DEF Lists, UpToDate, Row
  <2>6. ASSUME NEW n \in DOMAIN FirstPage \ lost
        PROVE  Cached(n) > 0
    <3>1. n \in (1..Len(stored)) \ lost /\ n <= PageSize
      BY <2>3, FirstPageType
    <3>2. PICK i \in DOMAIN cache : cache[i].number = n
      BY <2>2, <3>1 DEF Lists
    <3> QED  BY <2>2, <2>3, <3>2, CachedIs DEF Lists
  <2> QED  BY <2>4, <2>5, <2>6 DEF TableIsCurrent
<1> QED  BY <1>1, Invariance, PTL
=============================================================================

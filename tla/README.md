# mock-servicenow: TLA+ models, checks and proofs

This directory models mock-servicenow: a small ITSM API (FastAPI over one
SQLite file), the seed command and entrypoint that prepare its database, an MCP
server that forwards tool calls to it, and a browser UI. File and line numbers
below are those of the repository.

Run a model with `tlc -config MCTicketApi_all.cfg MCTicketApi`, a proof with
`tlapm TicketApiProofs.tla`.

## 1. The system

| Component | State it keeps | Operations | Talks to |
|---|---|---|---|
| Shared connection (`app/db.py`) | the open transaction; the tables | `execute`, `commit` under a lock; `next_*_number`, `allocate_work_note_sys_id` | every router; the database file |
| Incidents, escalations routers (`app/routers/`) | none of their own: locals of a handler | POST, PATCH, GET one, list | the connection |
| Work notes router | locals of a handler, with a retry loop | POST, list | the connection, `incidents` rows |
| SLA and directory routers | none | lists | the connection |
| Seed command (`app/seed.py`) | six tables, filled in four commits; what it makes of a ticket | check, load, derive, fail | the file; exit status to the shell |
| Entrypoint (`docker/itsm-api`) | the file on a volume | seed, wipe once and seed again, serve | the seed, uvicorn |
| MCP server (`mcp_server/`) | none | one HTTP request per tool | the API |
| Incident console (`static/js/incident*.js`) | filters, page, `currentIncident`, the edit form, which section and which messages are shown | list, open, add note, edit, create | the API |
| Escalations screen (`escalations*.js`) | a cache of the table, two forms | load, edit, create | the API |
| Navigation, directory, dashboard (`nav*.js`, ...) | the view, which views have been loaded, the tiles | go to a view; load at the first visit, or at each | the screens, the API |
| End-to-end fixtures (`tests_e2e/`) | two server processes, the position in a scan | seed, start, poll, yield, stop; find a breached incident | both servers, over HTTP and signals |

What is hard in it, and what correctness means there:

* **Interleaving.** Every handler is a sync `def` and runs on a threadpool. The
  connection's lock is held for one statement, not for one handler, so two
  handlers interleave between any two statements. POST chooses a number in one
  statement and inserts it in another.
* **One transaction for everybody.** Python's `sqlite3` opens a transaction
  before the first write and keeps it until a commit. On a shared connection
  that transaction belongs to whoever writes: rows are visible before they are
  committed, anybody's commit commits them, and a failed INSERT leaves the
  transaction open. Correct means: what a client was told is in the file for
  good, and no request takes another one's write away.
* **Kills.** The process may die between INSERT, commit and response; the
  container may die in the middle of the seed. Correct means: no acknowledged
  row is lost or changes its identity, no note is left without its incident,
  and the server never runs over a partial seed.
* **Boundaries.** Numbers have a fixed width, the retry loop a fixed limit,
  pages any number at all; minutes are rounded, days have a window, and
  timestamps are texts of several formats that are compared as texts.
* **Awaits.** A handler of the browser page runs without interruption to its
  next `await`; then other handlers run, and other clients. The page has no way
  to tell an old answer from a new one. Correct means: the heading, the panels
  and the variables that handlers read agree, a save sends what the user
  changed, and every failure is seen.
* **Lost answers.** A request of the UI or of the MCP server may fail after the
  API has done the work. Correct means: the caller is told whether the work was
  done, was not and never will be, or may be.
* **Processes that do not do as they are told.** A server may lose its port to
  another program, never start, block on a pipe that nobody reads, or ignore
  SIGTERM. Correct means: a session of tests ends, and leaves nothing running.

`PROJECT.json` lists the hazards at their lines, each with the properties that
cover it, or with the reason why none does.

## 2. The modules

| Module | Models | Lines of code it stands for |
|---|---|---|
| `SharedConnection` | the statements of the connection | `db.py` 30-163 |
| `TicketApi` | one router of numbered tickets: POST, PATCH, GET one | `incidents.py` 111-169, `escalations.py` 59-112, `db.py` 166-188 |
| `ItsmApi` | two `TicketApi`s on one threadpool and one connection | `main.py` 24-57 |
| `WorkNotes` | POST with its retries, and the list | `work_notes.py` 24-109, `db.py` 191-210 |
| `Listings` | the lists: count, then read a page; or read all and slice | `incidents.py` 51-108, `escalations.py` 25-56, `sla.py`, `directory.py`, `pagination.py` |
| `SeedLifecycle` | seed, wipe, serve and kill of containers over one file | `seed.py` 80-460, `entrypoint.sh` |
| `SeedDerivation` | what the seed makes of one ticket, and how timestamps compare | `seed.py` 130-208, 235-366, `incidents.py` 89-94, `work_notes.py` 49 |
| `ToolContract` | what a tool call promises (abstract) | |
| `McpGateway` | the nine tools, each one request with a timeout | `mcp_server/` |
| `IncidentConsole` | the incident screens of one browser page, over an abstract API | `incident.js`, `incident-logic.js` |
| `EscalationsScreen` | the cache and the forms of the escalations, over an abstract API | `escalations.js`, `escalations-logic.js`, `escalations.py` 25-112 |
| `Navigation` | views, directory and dashboard, over `EscalationsScreen` | `nav.js`, `directory.js`, `dashboard.js` |
| `E2eServers` | the two server processes of a test session and their driver | `tests_e2e/servers.py`, `conftest.py` 59-76 |
| `BreachedIncident` | the search for an unresolved, breached incident | `tests_e2e/breached_sla_fixture.py` |
| `E2eSession` | the session: the servers, and the search and other tests on them | `conftest.py` 59-76 |
| `*Proofs` | theorems: of the module of that name, but for `SeedProofs` (`SeedLifecycle`, `SeedDerivation`) and `McpServerProofs` (`McpGateway`, `E2eSession`) | |
| `MC*` | instances for TLC | |

### SharedConnection

`mem` is what the connection sees, `disk` what is committed, `inTxn` whether a
transaction is open. `Write` is an INSERT or UPDATE that succeeds, `Rejected`
one that violates a constraint (its effect is undone, the transaction it opened
is not), `Commit` and `Reopen` (a new process over the same file) complete it.
No handler deletes and none rolls back, so there is no action for either.

### TicketApi

A handler is a sequence of calls on the connection; each is an action, and
`pc[t]` says which one worker `t` makes next.

| Code (`incidents.py`) | Action |
|---|---|
| 126 `next_incident_number(conn)` | `CreateAllocate` |
| 127 `datetime.now(...)` | `CreateStamp` |
| 129 INSERT | `CreateInsert`, or `CreateCollides` (IntegrityError, 500) |
| 143 commit | `CreateCommit` |
| 144-145 SELECT, 201 | `CreateRespond` |
| 151-161 SELECT, 404, choice of fields | `PatchLookup` |
| 162 UPDATE | `PatchUpdate`, or `PatchRejected` (null for a NOT NULL column, 500) |
| 166 commit | `PatchCommit` |
| 168-169 SELECT, 200 | `PatchRespond` |
| 111-120 | `GetTicket` |
| the other routers' statements and commits | `Elsewhere` |
| end of the process, uvicorn again over the same file | `Restart` |

A row is abstracted to the identity of the POST that made it (`account`: it
stands for all immutable fields), its `opened` time, and for every patchable
field the number of the UPDATE that last wrote it. That is all the properties
tell apart. A suffix may be one larger than the largest the regular expression
matches, since `next_incident_number` formats it without complaint.
`errors` and `replies` are what the clients have been answered; the program does
not keep them.

`Elsewhere` makes the module open: it may be composed with any other handler
of the process. Nothing in the theorems assumes that the router is alone.

### ItsmApi

Two instances, `Incidents` and `Escalations`, with separate handlers and
answers, and a shared connection, clock, threadpool and process. A worker takes
a request of one router only when it is idle in the other. `IncidentsOnly` is
`TicketApi` with the tables restricted to `incidents`, and `EscalationsOnly`
likewise: the refinement mapping under which every step of the other router is a
stutter or `Elsewhere`.

### WorkNotes

`NoteLookup`, `NoteAllocate`, `NoteInsert`/`NoteCollides`, `NoteCommit`,
`NoteRespond` follow `create_work_note` statement by statement; `NoteCollides`
is both `continue` and the `else` of the loop (`RuntimeError`, 500). The list
reads the rows of its page in `ListRows` and the total in `ListCount`; a reply
keeps each row with its key, as the client has seen it. Incidents
come from an abstract POST /incidents (`IncidentInsert`, `IncidentCommit`), so a
note can be posted to an incident that is visible and not committed.
Time is a clock that does not go backwards; seeded notes are from time 0, which
says that the fixtures' dates (up to August 2026) have passed. `SeedDerivation`
has the comparison of the two text formats of `created_at`.

### SeedLifecycle

Committed states of the file only. A loader is one transaction (`LoadStage`);
a kill inside it leaves what was committed before. `Check` is `seed_all()` up
to its decision, with what
`main()` and the shell make of it: 0 serves, 2 wipes once and runs again, and
anything else, or a second 2, ends the script. The decision is taken from row
counts: `ExpectedCount` is that of the fixture, but for `work_notes`, where the
code expects two per incident whatever the fixture holds (`seed.py:401`).
`NotesPaired` says that the fixtures are so, as the committed ones are. `BadStages` are the loaders that
may fail, for good or for once: on a fixture they reject, or on a full disk. The
two ways to end are told apart ("failed", "exited"), so that `StartedServes` can
say that the second is never taken.

`Restart` of `TicketApi` and `WorkNotes` is a new uvicorn over the same file, as
the tests and a developer run it. A restart of the *container* runs the seed
first, and that is this module: see section 5 on `AckedChangesServed`.

### Listings

The five list endpoints have the same shape, and `endpoint` is the one that is
listed. A row is its place in the order of the list and the value the filter
looks at; `Kept` has, for every endpoint, the values each text of the query lets
through (`open_only=false` is no filter, `breached=false` is one).

| Code | Action |
|---|---|
| the query and its validation (`incidents.py` 63-75, `sla.py` 27, `pagination.py` 11-18) | `Request` |
| `SELECT COUNT(*)` (`incidents.py` 99, `escalations.py` 43, `sla.py` 44) | `CountRows` |
| `SELECT ... LIMIT ? OFFSET ?` (`incidents.py` 102-104, ...) | `ReadRows` |
| `paginate_rows` | `ReadDirectory` |
| a client that turns the pages until `page * page_size >= total` | `NextPage` |
| POST, PATCH between two statements | `Insert`, `Move` |

Whatever a reader holds (`seen`, `start`, `again`) is kept for the properties;
the server keeps nothing between two requests. A new row has the largest number,
which is what `TicketApi` guarantees of acknowledged ones.

### SeedDerivation

One ticket of the fixtures, or one that a client posts, goes through
`SeedHistorical`, `SeedNarrative` or `PostIncident`, then `Derive` and `PostNote`.
A time is a number of seconds, with minutes, days and the business window as
short as the instance makes them, and a timestamp is a time and a format.
`Text` gives the parts of a timestamp in the order of its characters, and `Less`
compares them as SQLite compares texts: that is the conversion, not the
identity, and the separators (`T` after a space), the fraction and a missing
suffix decide where the digits are equal.

`Derive` is `derive_task_sla`: the first response by wall clock, the resolution
by business minutes, summed day by day and rounded down each day, over the notes
in the order in which the query returns them.

### ToolContract and McpGateway

A call goes through `Refuse` (schema), `NotConfigured` or `Send`; the API
answers with `Carry`, `Reject`, `Redirect` or `Crash`, or is killed; `Receive` is
`_request` and the tool after the await, and `Unreachable` is
`httpx.RequestError`, the timeout included, which does not stop the request.

| Code | Action |
|---|---|
| `extra="forbid"`, required arguments, types (`server.py` 20) | `Accepts`, `Refuse` |
| `_client()` outside the `try`: RuntimeError | `NotConfigured` |
| a body of 2xx / an error envelope / plain text or nothing (`client.py` 156-160) | `Receive`, by `Result` |
| `RequestError` (`client.py` 152-155) | `Unreachable` |

`ToolContract` is what such a call promises: at most one execution; after "ok"
it was done, after "failed" it was not and never will be, and after "unknown"
nothing is known. `McpGateway` implements it with
`status` computed from the outcome, where only "unreachable" is "unknown".

### EscalationsScreen and Navigation

As in `IncidentConsole`, a function that waits is a task. `cache` is
`escalationsCache`, which the table always shows; `edit` is the edit form, with
what `openEscalationEditForm` makes of null, and `Payload` is
`buildEscalationPatchPayload`, comparison by comparison.

| Code | Action |
|---|---|
| `escalations.js` 33-43 | `LoadView`, `LoadArrives` |
| 19, 24-31 click on a row; the form's controls | `ClickRow`, `EditField` |
| 45-72 save, which reloads the table and then hides the form | `SubmitEdit`, `PatchArrives`, `LoadArrives` |
| 80-89 | `OpenCreate`, `CancelCreate` |
| 91-126 create, which puts the row in front of the cache | `SubmitCreate`, `SubmitBadCreate`, `CreateArrives` |
| `nav.js` 20-35 | `OpenIncidents`, `OpenEscalations`, `OpenDirectory`, `OpenDashboard` |
| `directory.js` 15-33 | `DirectoryArrives` |
| `dashboard.js` 50-74 | `TileAnswered`, `DashboardArrives` |

A click on a tile is a click on "Incidents" and clicks on the incident screens,
which `IncidentConsole` has. The form's contents are set to a constant when it
is hidden; nothing reads them before a row is clicked, which fills them again.

`behind` and `lost` are kept for the properties: the rows that other clients have
changed, and the escalations that were created although the page was told that
the request failed, each since the API last served the list. The page cannot know
of either, and no table of it is asked to show them.

### E2eServers, BreachedIncident and E2eSession

`ctx[p]` is where the driver is in the context manager of server `p`: polling,
yielded, in the `finally`, waiting for the end, or out of it. `proc[p]` is the
process. The driver's actions are the lines of `servers.py` (`Seed`,
`PollExited`, `PollAnswered`, `PollMissed`, `PollTimesOut`, `FinallyDead`,
`Terminate`, `WaitEnds`, `WaitExpires`); the processes' are what uvicorn and the
machine may do at any time (`Boots`, `Exits`, `Stops`, `TakePort`). A server
writes a line per request to a pipe that nobody reads, and blocks when it is
full. A killed process ends at once.

`BreachedIncident` is the fixture with one HTTP request per action. The tests run
one after the other and share a server that is never reset (`conftest.py` 63-67):
`CallFixture` and `FixtureEnds` are the beginning and the end of a call, and
`TestPatches` is a test that resolves an incident between two calls, as the
signature test does with the one it got, or opens one. `E2eSession` composes both: the
fixture's requests and the tests' go to the server on the port, whoever that is,
fill its pipe, and fail when nobody answers.

### IncidentConsole

Every asynchronous function of `incident.js` that waits for the API is a task,
and `tasks[t]` is the request it waits for: sent, answered or failed. `Serve` is
the API handling a request, in one step and in any order; `Fail` is a request
that never arrives or whose answer does not (what it did stays done);
`OtherClient` changes a row or adds a note behind the page's back. Between its
awaits a function is one action:

| Code (`incident.js`) | Action |
|---|---|
| 77-95 filter form, previous and next page | `SubmitFilters`, `PrevPage`, `NextPage` (all of them `LoadList`) |
| 69-74 answer to the list | `ListArrives` |
| 240 click on a row | `ClickRow` |
| 208-218 answer to the record | `IncidentArrives` |
| 219-238 notes, SLA, escalations, one after the other | `PanelArrives`, `PanelFails` |
| 245 back to the list | `BackToList` |
| 270-293 work note | `SubmitNote`, `SubmitBadNote`, `NoteArrives`, `NoteFails` |
| the form's controls | `EditField` |
| 297-323 edit | `SubmitEdit`, `SubmitNoEdit`, `EditArrives`, `EditFails` |
| 330-340 open and cancel | `OpenCreate`, `CancelCreate` |
| 342-368 create | `SubmitCreate`, `SubmitBadCreate`, `CreateArrives`, `CreateFails` |

`Patient` is an assumption about the user, not about the program: a patient user
does nothing while a request is under way. What holds for patient users only
is checked with `Patient = TRUE`, and the runs that break it show why.

A value of a field is a member of a small set. What the form does to values is
kept: `populateEditForm` turns null into the empty text and a value that a
`<select>` does not list into nothing (`Filled`), and `diffIncidentFields` turns
the empty text back into null (`Read`). `touched` is what the user has edited;
the program does not keep it, and `SubmitEdit` records it beside the request for
the property alone. A note is its incident and its place there; of the SLA rows
and of the related escalation only the incident they belong to is kept.

A filter is a fixed set of numbers, as the filters by account and category are;
that editing a state changes what a filter by state selects is left out, and no
property depends on it. A second handler may use the page's
variables while a first one waits, but no two tasks are ever in the middle of
one: the browser runs handlers one at a time.

## 3. The runs

| Run | Shows | Bounds |
|---|---|---|
| `tickets_all` | all properties of `TicketApi` over POST, PATCH, GET, foreign commits and a kill | 3 workers, 3 requests, 2 fields, numbers up to 4, 2 times, 1 kill |
| `itsm_api` | each router implements `TicketApi` while the other one runs | 2 workers, 2 requests per router, 1 field each, 1 kill |
| `notes` | the properties of `WorkNotes` | 3 workers, 3 requests, limit of 2 tries, 2 incidents, pages of 1 |
| `listings` | pages and totals over tables that change between the statements | 1 client, tables of up to 4 rows, 2 patches, pages -1 to 2, sizes -1 to 2 and 201 |
| `seed` | safety of the seed, that PATCHes survive it, and that a start ends in serving | 3 writes, 3 kills, any loader may fail at any time, fixtures of 1-2 rows |
| `derivation` | SLA minutes against a count of seconds, and texts compared for times | every second from a Thursday to a Tuesday, with days of 4 minutes of 2 seconds, 2 notes by clients, at 6 times |
| `gateway` | what callers are told, and that calls end | 1 caller, 3 tries, 1 kill, 145 requests over the 9 tools |
| `e2e_session` | that a session ends with nothing running, and what the fixture delivers | 2 polls, pipes of 12 lines, 4 incidents, 0-4 of them breached, pages of 2, scans of 3, 2 calls of the fixture, 1 patch |
| `console_any` | what holds for every user, however hasty | 2 requests at once, 2 incidents, 1 field |
| `console_failing` | what failures leave behind, for a patient user | 1 request at a time, 2 incidents, a priority that is not listed, 1 note |
| `console_calm` | that a record and its panels agree with each other and with the API, and that a created incident is opened | 1 request at a time, 2 pages of 1 incident, 2 filters, 2 notes, 2 changes by others |
| `screens` | that each view shows what it should or its failure, for a patient user | 1 request of the escalations at a time, at most 2 escalations, pages of 1, 1 field, 1 change by others, 2 tiles, 2 visits |

Why the bounds are enough for what they look for. A collision needs two POSTs;
a third tells whether the loser's number was really won, and whether the wasted
transaction hurts a bystander. Three requests on three workers put a create, a
patch and a read in every relative order. Numbers go up to
`MaxSeq + 1 = 4`, so the width is exceeded inside the run. One kill is enough
because it erases all that is not in the file: what follows a second kill starts
from a state that a first one could have left. In `notes` the limit of tries is
2 rather than 5: giving up needs as many winners as tries, which three workers
provide, and it happens in the run; with pages of 1 a second note is on a second
page, so a kill that frees a sys_id can move what a page shows. In `seed` three kills interrupt the seed,
the seed after the wipe, and the server.

In `listings` one client is enough, since clients only meet in the rows: what
another one does is `Insert` and `Move`. Four rows make four pages of one and two
of two; a page before the first, a size of 0, of -1 and of 201 are the ends of
what is validated and what is not. In `derivation` the unit is as small as it may
be with seconds still within a minute, and minutes before, in and after the
business window; the days from a Thursday to a Tuesday hold two borders of a
weekend. In `gateway` one caller is enough, since the server keeps nothing that
two calls would share; three tries make two retries, and each tool is called
with what it requires and with one argument more, less, of another type, null,
empty or outside what the API accepts. In `e2e_session` the scan covers no
breach, less than a page, exactly one, more, and more than it looks at; a second
call finds what the first one and a test between them have left; the pipe
holds fewer lines than a session may write. In `derivation` clients post, and
filters begin, at midnight and three seconds later of every second day, so on the
days of the seed's notes and on others, in a second that begins a minute and in one
that does not; two notes are enough for a client's to be before, among or behind the
seed's and another client's.

In the console two requests are enough for one answer to overtake another, and
two incidents for one record to be taken for another; pages of one row make the
second incident a second page; notes up to the API's page size keep
`console_calm` within one page of notes, and `MCIncidentConsole_truncated` goes
one beyond. In `screens` the table is empty at first and the API's page holds
one row, so that of two created escalations one is on the page and one beyond;
the field is `closed_at`, which is shown, compared and sent in the
most ways (`owner` gives the same result). What the bounds leave open is proved
where section 4 says so.

`tickets_all`, `itsm_api`, `notes` and `console_any` are reduced by the symmetry of the
workers or of the page's tasks, which is sound for what they check: invariants
and action properties, and no choice among workers or tasks is by name.

The properties:

* `AckedCreateIsStored`, `AckedPatchIsStored`, `AckedNoteIsStored`: an answer
  that says "stored" is true from then on, with the content of that request.
* `PendingWriteKept`: a handler's write is still there when it commits and when
  it reads it back, whatever fails meanwhile on the same transaction.
* `UncommittedHasCommitter`: a visible, uncommitted row always has a handler on
  its way to a commit.
* `OpenedInNumberOrder`, `NotesInOrder`: keys and times agree, although they
  are read in different statements.
* `CollisionHasWinner`: a POST that failed on its number lost it to one that
  succeeded.
* `AckedIdentityStable`: an acknowledged number never answers 404 and never
  shows another ticket (an action property).
* `RoutersUndisturbed`: the two refinements of `ItsmApi`.
* `NotesHaveIncident`: no orphan in the file, even after a kill.
* `GivesUpOnlyUnderContention`: a 500 from the retry loop means that as many
  other notes were written as it made tries.
* `PagesAreStable`: a note stays on the page it was listed on, as long as the
  row under its sys_id is that note.
* `WalkIsComplete`: who turns the pages to the end has seen all that was there
  at the beginning, and nothing twice, while rows are added; a PATCH that moves
  a row in or out of the filter is the exception (`disturbed`), and without a
  filter there is none.
* `PageAgreesWithTotal`: total and page, from two statements, agree but for rows
  that came in between.
* `ServesFullySeeded`, `PatchesServed`, `StartedServes` for the container.
* `RecordsTellTheTime`: an SLA record is right to the minute (two of them for
  business time, where the first and the last day lose one), and so is the
  breach. `FilterToTheSecond`: comparing texts goes wrong at most for an incident
  opened in the very second of the filter. `OnlyClientsNotesAreEarly`: the list of
  notes is out of the order of time at most where a client's note comes before
  those that the seed made of the same day.
* `DuplicateHasLostAnswer`: a caller that tries again only after an error does
  its work twice only where it was told "could not reach". `ContractKept`: the
  refinement of `ToolContract`. `EveryCallEnds`: no call waits for ever.
* `NothingLeftRunning`, `SessionEnds`: whatever fails, a session ends and no
  server outlives it. `FixtureDelivers`: whatever earlier tests and calls have
  left behind, the incident is breached and open, and one is created only where
  nothing is breached.
* `AtMostOneView`, `ShownRecordIsCurrent`: whatever the order of clicks and
  answers, one section is shown at most, and while it is the record's,
  `currentIncident` is what is drawn.
* `PatchOnlyTouched`: a save does not send what the user left alone, so it does
  not take back what another client wrote there.
* `PanelsOfHeading`, `ShownRecordIsStored`: with a patient user and no failure,
  once nothing is under way, the panels belong to the record and the record is
  what the API has. Of the list there is no such property: see section 5.
* `StalePanelIsAnnounced`, `FailureIsSeen`, `CreatedIsOpened`: failures are
  shown where the user is, and a created incident is opened.
* `FormFollowsCache`: an open edit form is compared with the row it was filled
  from. `DashboardIsOfLastVisit`: one tile of each kind, all of one visit.
  `VisitedIsFilled`: a view that is never loaded again shows its rows, and all
  that was saved and created since, or a failure; but not what other clients did
  since it was loaded, nor a creation whose answer was lost.

Fairness is assumed four times. `StartedServes` has `WF_vars(Entrypoint)`: the
entrypoint is a sequential script that waits for nobody, so it takes its next
step unless the container is killed, which the formula allows for.
`CreatedIsOpened` has `WF_vars(Serve(t))` and `WF_vars(Continue(t))`: the API
answers every request (its handlers wait for nothing but the connection's lock,
which is held for one statement), and the browser resumes a function whose
answer is there. `EveryCallEnds` has `WF_vars(Unreachable(c))` and nothing else:
`httpx.AsyncClient` has a timeout of 5 seconds unless it is given another, and
`client.py:8` gives none, so the wait ends although the API may hang for ever.
`SessionEnds` has `WF_vars(Driver)`: the driver is one program whose waits all
have timeouts (`servers.py` 92, 102, 124, 164, 174, 195, and 30 seconds in
`breached_sla_fixture.py:54`), but for the seed, whose end is assumed, as is the
end of the tests themselves. The user's clicks, requests from outside, servers,
restarts and kills are under no fairness.

Most configurations switch deadlock checking off: the bounds on requests and
kills end every behaviour, and a server without requests is not stuck.
`console_calm` and `screens` have no such end, and are checked for deadlock.

## 4. What is proved

`TicketApiProofs`, for any set of workers, seeded numbers, width of the number,
fields and bounds, from `TicketAssumption` alone:

| Theorem | Property |
|---|---|
| `TypeCorrect` | `TypeOK` |
| `CreateDurability`, `PatchDurability` | `AckedCreateIsStored`, `AckedPatchIsStored` |
| `PendingWritesSafe` | `PendingWriteKept` |
| `AckedIdentity` | `AckedIdentityStable` |
| `UncommittedCommitted` | `UncommittedHasCommitter` |
| `OpeningOrder` | `OpenedInNumberOrder` |
| `CollisionsHaveWinners` | `CollisionHasWinner` |

The argument. `Kept(old, new)` says that one table extends another: the same
tickets with fields as new or newer. The invariant `Growing` says that the
connection's table extends the file's and that no field is from the future, and
it gives two lemmas: no step but a kill takes anything from the connection
(`RowsGrow`), and no step at all takes anything from the file (`StoredGrows`).
`HandlerHolds` then says what each handler knows at each of its calls (its row
is on the connection before the commit, in the file after it); it is needed
because the durability of an *answer* follows from where the handler is, not
from the answers given so far. `Durable` is the conjunction, it is inductive,
and the four durability and identity theorems follow from it. `Elsewhere` is
one of its steps, so the theorems hold whatever the other routers do.

`OpeningOrder` has an invariant of its own. Two handlers may hold numbers at
once, so the order of times is not inductive: `FreeNumberIsNext` says that a
number which was allocated and is *still free* is the next one, and its opening
time is no earlier than anybody's. When another handler inserts, either it had
the same number, which is then no longer free, or it is shown that there was
no other free number. The number past the width needs `NoGapAtEnd`: it is not
counted by the expression, and is in the table only if all before it is.

`CollisionsHaveWinners` has another, `Contest`: until a kill, whoever owns a row
that was not seeded has been answered or is between its INSERT and its answer
(`OwnersWin`), the number of a failed POST is in the table, is not a seeded one
and belongs to another request (`LosersLost`), and requests have identities of
their own. A seeded number cannot be lost to, since whoever allocates a number
takes one past all there are (`Trying`).

`WorkNotesProofs`, for any workers, incidents, seeded notes, page sizes and limit
on the tries, from `WorkNotesAssumption`:

| Theorem | Property |
|---|---|
| `NoteDurability` | `AckedNoteIsStored` |
| `NoOrphans` | `NotesHaveIncident` |
| `TimelineInOrder` | `NotesInOrder` |
| `GivingUpMeansContention` | `GivesUpOnlyUnderContention` |
| `PageStability` | `PagesAreStable` |
| `TypeCorrect` | `TypeOK` |

They share `Typed`: the file's notes are on the connection, and a handler behind
its INSERT has its note there. `NoOrphans` (`Homed`) adds that the incident of
every visible note is visible too, so whichever commit takes the note to the file
takes the incident with it.
`TimelineInOrder` rests on `FreeSeqIsNext`, as for the tickets: a key which a
handler holds and which is still free is the next one. For
`GivingUpMeansContention` the invariant counts: a handler that has failed `n`
times finds at least `n` notes of other requests from its first key on, one more
with each collision, since a retry allocates past all there are.
`PageStability` needs that the rows of an incident before a listed one stay:
notes come after it only, and a kill takes the last ones first
(`UncommittedIsLast`). The attempt to prove it in its first form, that a sys_id
stays on its page, failed for a good reason: after a kill the sys_id of a
listed, uncommitted note goes to another one, which may belong to another
incident. So a reply now keeps the rows, and the property speaks of the note.

`SeedProofs`, of `SeedLifecycle`, for any finite, nonempty fixtures, any bad loader and any
number of kills: `ServingIsSeeded`, `TypeCorrect`, `SeedLoadsFromEmpty`, and
`PatchesSurvive`. The last needs that clients have created nothing (`AckedChangesServed`
in section 5 shows that it cannot be had without) and that the fixtures have two
notes per incident, `NotesPaired`. With others, such as the ticket without
interactions that `SeedDerivation` allows, the seed does not recognise its own work,
and each start of the container removes the database: `MCSeedLifecycle_seed` with
one note in the fixture refutes `PatchesServed`. The invariant says of every table that it
is empty, or holds all of its fixture, and of the loading phase how far it is;
`IsFullySeeded` compares counts, and the proof that equal counts mean the
fixture's own rows rests on the cardinality of finite sets.

`SeedProofs`, of `SeedDerivation`, for any tickets, commitments, times, business
window, and lengths of a minute and a day, from `DerivationAssumption`,
`TicketsAssumption` and `CommitmentsAssumption`:

| Theorem | Property |
|---|---|
| `SlaRecordsTellTheTime` | `RecordsTellTheTime` |
| `FiltersAreExact` | `FilterToTheSecond` |
| `NotesMisplacedAtMost` | `OnlyClientsNotesAreEarly` |

What the assumptions say of the fixtures: the seed refuses who is not a customer, an
agent or the portal (`seed.py` 145-155), no interaction in `fixtures/seed` is before
its ticket's `opened_at`, and every tier has its commitment. An empty ticket, without
any interaction, is allowed.

`RecordsTellTheTime` compares two independent computations: what the code does, a
sum over days of whole minutes between texts, and a count, second by second, of
the seconds of business since the ticket was opened. The invariant
`DerivationInv` says that until the records are derived the notes are those of
the ticket (`SeededNotes`) and the row is the one the seed wrote (`Derivable`), so
`Derive` reads the ticket back from its rows; and that each record that has been
derived tells the time (`Recorded`), whatever clients post afterwards. It rests
on these lemmas:

* `BusinessSum`: the recursive function that `MapThenSumSet` chooses exists, so that
  its value on a set is that of one of its days and that on the others.
  `SumExists` proves it by induction over the size of the set. The induction
  theorems of the library take a predicate as a parameter; `NatInSet` is the same
  fact for a *set* of numbers, from `NatLessThanWellFounded` and `WFMin`, and that
  can be used.
* `SecondsOfDay`: the seconds of business of one day between two times are as many as
  `Overlap` says. `MinutesOfDay`: rounding down to minutes leaves something out
  only of the first and of the last day, since between them the window is whole
  minutes.
* `BusinessBounds`: hence, by induction over the days, the sum is short of the count by
  less than two minutes, however many days there are. That is the `slack` of
  the property, and `TargetMissed` says what it means for a breach.
* `ResponsesEnd`: the first note that is not the customer's, in the order of the texts,
  is the earliest reply of the ticket; all these texts have one format, where the
  order of the texts is that of the times (`SameFormatOrder`).

`FiltersAreExact` needs that whatever is stored as `opened_at` has a "T" after the
date (`OpenedStamped`); a bound may have any format (`BoundCompared`), and errs only
where all its digits are those of the row. `NotesMisplacedAtMost` needs to know who
writes what (`NotesStamped`): the seed writes one format and the database another,
and within each the order of the texts is that of the times (`SameFormatOrder`).
Two notes of different formats are told apart by the day, which comes first, or
by the separator, which puts the client's first: so the seed's notes may come too
late among those of clients of their day (section 5), and nothing else can.

`IncidentConsoleProofs`, for any number of tasks, incidents, fields, filters and
notes, patient users or not, failures or not, from `ConsoleAssumption`:

| Theorem | Property |
|---|---|
| `ConsoleTypeCorrect` | `TypeOK` |
| `OneViewAtATime` | `AtMostOneView` |
| `CurrentIsShown` | `ShownRecordIsCurrent` |
| `OnlyTouchedIsPatched` | `PatchOnlyTouched`, if `Unlisted` and `EmptyTexts` are empty |
| `LeftoversAreAnnounced` | `StalePanelIsAnnounced`, for a patient user |
| `FailuresAreSeen` | `FailureIsSeen`, for a patient user |
| `PanelsBelong` | `PanelsOfHeading`, for a patient user, if no request fails |
| `ShownIsStored` | `ShownRecordIsStored`, likewise |

The three parts of `Inv` are inductive only together. A note is posted to
`currentIncident.number`, which is a number because a record is shown
(`ShownRecordIsCurrent`); that survives the opening of the list only because no
other section is shown beside it (`OneSection`); and an answer can be drawn
because its request named an incident that exists (`TypeOK`).
`OnlyTouchedIsPatched` adds `FormFollows`, that the fields the user left alone
still are as they were drawn, and the lemma `ReadBack`, that the form gives
such a value back unchanged. The lemma needs its two hypotheses: a row with an
unlisted priority is in section 5, and a row with an empty text (which the
API accepts) is read back as null.

A patient user has one request under way at most (`Alone`), so `OneByOne` can say
by the kind of that request which section is shown and which panels are already
of the incident in the heading, or that a failure is announced; `Calm`, for
requests that do not fail, says that the table is behind only while a list is
loaded and the record only while the answer to a PATCH is on its way. What the
properties say of the page at rest is their last line. The hypotheses are
needed: `console_any` has no such properties, `MCIncidentConsole_mixed` and
`MCIncidentConsole_reverted` refute two of them for a user in a hurry, and after a
failed request the panels and the record are behind.

`NavigationProofs`, for any fields, texts, page size, tasks, tiles and bounds,
failures or not, from `ScreenAssumption` and `NavigationAssumption`:

| Theorem | Property |
|---|---|
| `TypeCorrect` | `TypeOK` |
| `FormIsCached` | `FormFollowsCache`, for a patient user |
| `DashboardOfLastVisit` | `DashboardIsOfLastVisit`, for a patient user |
| `VisitedViewsFilled` | `VisitedIsFilled`, for a patient user |

For a patient user one thing is under way at most (`OneAtATime`), and a load is
only under way before the first form is opened (`Unvisited`), so no answer
replaces the cache under a form but that of the reload, which hides it.
`TableKept` says when the table may be behind: from the answer to a PATCH to the
reload, and after a failure that is shown. In between, the table lists the first
page (`Lists`), but for a created row whose answer is on its way (`Created`):
that one has the largest number (`CreatedIsLast`), so putting it first lists
it once. The bound on the visits, the number of tiles and which rows are on the
page do not matter. That the user is patient does: `Navigation_overlap` and
`Navigation_replaced` refute two of the three for one who is not.

The attempt to prove `VisitedIsFilled` in its first form failed for a good reason.
A creation that the API has carried out and whose answer is lost is reported in
the form for the new escalation, not in the table's error, and is in no table
until the next reload. It goes unnoticed with a page of one row that is full
already, as the run had it: hence `lost`, and the bounds of `screens` as they are.

`ItsmApiProofs`, for any workers, tables and bounds, from `ItsmAssumption` (what
`TicketApi` assumes, for both): `RoutersImplementTicketApi`, which is
`RoutersUndisturbed`. The connection's tables are those of the two routers and no
others (`TwoTables`), which makes each restricted table one that `TicketApi` can
have (`Shape`). A statement on one table is the same statement on the restricted
one; so each handler's action is the action of that name of its own `TicketApi`,
for the other one it is `Elsewhere` or changes nothing, and a restart is a restart
of both. So what `TicketApiProofs` proves of one router in a process that writes
and commits behind its back holds of each of the two.

`McpServerProofs`, of `McpGateway`, for any callers, requests and number of tries and kills, from
`GatewayAssumption`:

| Theorem | Property |
|---|---|
| `OnlyLostAnswersDuplicate` | `DuplicateHasLostAnswer` |
| `GatewayKeepsContract` | `ContractKept`, the refinement of `ToolContract` |
| `RejectionsAreAboutValues` | `RejectedForAValue` |
| `TypeCorrect` | `TypeOK` |

The invariant says of every call what its outcome allows to be on the wire and
in `carried`: nothing before it is sent, the work done exactly behind "done", and
not behind "rejected", "crashed" or "redirected". So an error other than
"unreachable" finds no work done, and none comes later, since the answer has
taken the request off the wire. The refinement maps `Receive` to `Succeed` or
`Fail`, `Unreachable` to `GiveUp`, `Carry` to `DoWork`, and what only moves a
message to a stutter.

`McpServerProofs`, of `E2eSession`, for any incidents, breaches and page size, any
bounds on polls, patches, calls, requests and lines of a pipe, from the assumptions of
`E2eServers`, `BreachedIncident` and `E2eSession`: `SessionLeavesNothing`
(`NothingLeftRunning`) and `FixtureKeepsPromise` (`FixtureDelivers`). For the first,
`Reaped` says of each server that it has no process before its context manager is
entered, and none or a dead one once it is left; the machine may start no process
and revive none, and a driver leaves only over a process that it has seen end or
has killed. For the second, `Scanning` says that whatever the fixture holds (the page,
the candidate, the result) is an incident with a breached record, that it gives up
or creates one only after a first page without any, and that what it
returned is open, since it has just seen it open or opened it and no test runs
meanwhile; and that an earlier call created one only for the same reason.

`ListingsProofs`, for any pages, sizes, bounds and clients, from
`ListingsAssumption`: `WalksAreComplete` (`WalkIsComplete`), `TotalsAgree`
(`PageAgreesWithTotal`), `TypeCorrect`. The invariant of a walk that nothing has
disturbed is stated in ranks: `Rank` of a row does not change when rows are
added behind it, the rows seen are those whose ranks are within the pages turned
so far, and the rows of the start have ranks up to the total at most. At the end
`page * size` has reached the total, so all of them are among the seen; and since
each page begins behind the last one, none is seen twice. The rank is a
cardinality, which is why the lemmas rest on those of finite sets. `TotalsAgree`
turns that round: the rank is a bijection of the rows kept onto `1..n`
(`RankBijection`), so a window of ranks within the total has as many rows as
ranks; and since the rows counted are the first ones, their ranks among
themselves are those among all, and the shown ones fit between the page's offset
and the total.

Every safety property of the runs is proved. Only model-checked are the liveness
properties (`CreatedIsOpened`, `StartedServes`, `EveryCallEnds`, `SessionEnds`), which
are out of the prover's reach, and the absence of deadlock, which is about
`ENABLED`.
The type invariants of `TicketApi`, `WorkNotes`, `SeedLifecycle`, `Navigation`,
`IncidentConsole`, `McpGateway` and `Listings` are proved, and so are no longer
among what TLC checks. The proofs do not cover the abstraction from Python to
these modules, nor SQLite itself.

## 5. Where the documentation and the code differ

Every line has a configuration outside the regular runs in which TLC finds the
property violated, with the trace: `tlc -config MCTicketApi_collides.cfg
MCTicketApi`.

| Configuration | Property it refutes | What happens, and what the repository says |
|---|---|---|
| `MCTicketApi_collides` | `PostNeverCollides` | Two concurrent POSTs read the same maximum, and the loser gets a 500. `db.py:167`: "guaranteed not to collide with any existing row". A number that has outgrown its width is not counted, and every later POST collides. |
| `MCSeedLifecycle_restart` | `AckedChangesServed` | One POST changes the row counts; at the next start the seed takes the database for an interrupted seed, and the entrypoint removes it. Dockerfile:24: "idempotent, so this is safe on every container start/restart". |
| `MCIncidentConsole_mixed` | `NoForeignPanel` | After two clicks in a row, without any failure, panels belong to another incident than the heading. incident-console.spec.md:130: "never leaves a previous Incident's or filter's data visibly mixed with the new selection". |
| `MCIncidentConsole_overtaken` | `QuietTableIsCurrent` | Two filters in quick succession: the answer to the first comes last, and its rows stay in the table under the second. `incident.js:85`: "fully replaces the table body — never merges with the prior filter set"; incident-console.spec.md:130 says so too. |
| `MCIncidentConsole_blank` | `SomeViewShown` | An incident is created, its record cannot be loaded, and every section is hidden. incident-console.spec.md:103: "never fails silently, shows a blank screen, or swallows the error". |
| `MCIncidentConsole_unlisted` | `PatchOnlyTouched` | Seeded incidents with priority 5, which the form cannot show: each save of them sends an empty priority and is refused. incident-console.spec.md:89: "with exactly the changed fields". |
| `Navigation_unchanged` | `SavesExactlyTheChanged` | An open escalation has `closed_at` null, its form shows an empty text, and `escalations-logic.js:27` finds the two different: each save sends `closed_at: null`, which opens again what another client has closed. escalations-directory-nav.spec.md, BEH-3: "with exactly the changed fields". |
| `Navigation_overlap` | `DashboardIsOfLastVisit` | Two quick clicks: both visits clear the container first and append their tiles later, twice each. `dashboard.js:64`: "a revisit never mixes stale tiles in". |
| `MCSeedDerivation_sameday` | `NotesListedInTime` | A note posted on a day of the fixtures sorts before those seeded, since a space comes before a "T". work-notes.spec.md, BEH-1: "ordered by created_at ascending (chronological ticket timeline)". |
| `MCE2eSession_port` | `YieldedServerIsOwn` | Another program takes the port between `_free_port` and the bind; the poll is content with it. `servers.py:50`: "once the server answers GET /, with the fixture data already seeded". |

Other behaviours worth knowing, of which the documentation says nothing:

| Configuration | Property it refutes | What happens |
|---|---|---|
| `MCTicketApi_reuse` | `NumberNeverReused` | a GET shows an uncommitted row, the process is killed, the number is given away again; what POST has acknowledged is safe (`AckedIdentityStable`) |
| `MCIncidentConsole_reverted` | `ShownRecordIsStored` | an older answer arrives after a save and takes it off the page |
| `MCIncidentConsole_truncated` | `TimelineComplete` | only the API's first page of notes is loaded |
| `Navigation_replaced` | `FormFollowsCache` | an impatient user: the answer to a load, older than a creation, replaces the cache while the form is open, and the row it edits is not in it |

With `PatchNeverErrors` as the invariant, `MCTicketApi_all` shows a PATCH with an
explicit null for a NOT NULL column that ends in a 500. With
`StaleTableIsAnnounced`, `MCIncidentConsole_failing` shows a table of the page or
filter before without any message: the request for the right one has failed, and
a record that is opened from the table, and left, takes the message away
(`incident.js:210`). With `FailureIsSeen` as the property, and failures,
`MCIncidentConsole_any` shows a user who cancels a creation and is not told that it
has failed. With `ServesWhileTesting`, `MCE2eSession_session` shows a server that
blocks on its pipe, which nobody reads.
With `UnreachableDidNothing` and `ServerErrorIsPassedOn` as the invariant,
`MCMcpGateway_calls` shows that "could not be reached at all" (`errors.py:11`)
also stands for a request that has been carried out, and that the 500 of an
unhandled exception, which is plain text, does not reach the caller verbatim
(incident-tools.spec.md, BEH-10). With `FilteredWalkIsComplete`, `MCListings_pages`
shows a walk that misses a row because a PATCH has moved another one out of the
filter.

## 6. The plan

What is left, most valuable first.

1. `WorkNotes` on the connection of `ItsmApi`, and `DurableStore`, an abstract
   store (an acknowledged write is there for ever) that `TicketApi` and
   `WorkNotes` implement.
2. The related escalation of `IncidentConsole`, which is looked for on the first
   page only, with an API that has more than a page.

Not modelled: rendering, styles and form layout; the wording of messages and of
validation errors; static files; which engineer an incident is assigned to; the
errors of the loaders about malformed fixtures, beyond the fact that a loader
fails; the browser of the end-to-end tests; the fixtures' contents, the tests,
git hooks and the specification files.

----------------------------- MODULE Navigation -----------------------------
(***************************************************************************)
(* The navigation of the page, its directory and its dashboard             *)
(* (static/js/nav.js, directory.js, dashboard.js), over the escalations    *)
(* screen.  The escalations and the directory are loaded when they are     *)
(* first visited, the dashboard at every visit.                            *)
(***************************************************************************)
EXTENDS EscalationsScreen

CONSTANTS
    Tiles,         \* DASHBOARD_TILES: one request each
    Patient,       \* whether the user waits for every answer
    MaxVisits      \* bound: visits of the dashboard

ASSUME NavigationAssumption == Patient \in BOOLEAN /\ MaxVisits \in Nat

VARIABLES
    view,        \* currentView
    loaded,      \* loadedViews
    directory,   \* whether the directory's requests are under way
    visit,       \* the visits of the dashboard so far
    batches,     \* the requests of the visits that are under way
    tiles        \* the tiles in the container, and of which visit they are

navVars == <<view, loaded, directory, visit, batches, tiles>>
vars == <<screenVars, navVars>>

Init ==
    /\ ScreenInit
    /\ view = "incidents" /\ loaded = {"incidents"}
    /\ directory = "idle"
    /\ visit = 0 /\ batches = {}
    /\ tiles = {}

Quiet == ScreenQuiet /\ directory = "idle" /\ batches = {}

UserMay == Patient => Quiet

-----------------------------------------------------------------------------
\* A click on "incidents", or on a tile of the dashboard: what the latter does to
\* the incident screens are clicks of theirs (back to the list, cancel, filter).
OpenIncidents ==
    /\ UserMay
    /\ view' = "incidents"
    /\ UNCHANGED <<screenVars, loaded, directory, visit, batches, tiles>>

\* The view counts as loaded from the first click on, whatever becomes of it.
OpenEscalations ==
    /\ UserMay
    /\ view' = "escalations" /\ loaded' = loaded \cup {"escalations"}
    /\ \/ "escalations" \notin loaded /\ \E t \in Tasks : LoadView(t)
       \/ "escalations" \in loaded /\ UNCHANGED screenVars
    /\ UNCHANGED <<directory, visit, batches, tiles>>

OpenDirectory ==
    /\ UserMay
    /\ view' = "directory" /\ loaded' = loaded \cup {"directory"}
    /\ directory' = IF "directory" \in loaded THEN directory ELSE "waiting"
    /\ UNCHANGED <<screenVars, visit, batches, tiles>>

\* Promise.all: both tables are drawn, or neither of them and the error.
DirectoryArrives ==
    /\ directory = "waiting" /\ directory' = "idle"
    /\ \E fails \in {FALSE, CanFail} :
         failed' = IF fails THEN failed \cup {"directory"} ELSE failed
    /\ UNCHANGED <<serverVars, tasks, cache, formVars, view, loaded, visit, batches, tiles>>

-----------------------------------------------------------------------------
\* Mutant: the container is not emptied.
Kept(old) == old

\* container.innerHTML = ""
Cleared(old) == {}

OpenDashboard ==
    /\ UserMay
    /\ visit < MaxVisits
    /\ view' = "dashboard"
    /\ visit' = visit + 1
    /\ batches' = batches \cup {[visit |-> visit + 1, waiting |-> Tiles, failed |-> {}]}
    /\ tiles' = Cleared(tiles)
    /\ UNCHANGED <<screenVars, loaded, directory>>

TileAnswered(b) ==
    /\ \E tile \in b.waiting, fails \in {FALSE, CanFail} :
         batches' = (batches \ {b}) \cup
             {[b EXCEPT !.waiting = @ \ {tile}, !.failed = IF fails THEN @ \cup {tile} ELSE @]}
    /\ UNCHANGED <<screenVars, view, loaded, directory, visit, tiles>>

\* renderTile: the total, or the error.
TilesOf(b) == {[tile |-> t, visit |-> b.visit, error |-> t \in b.failed] : t \in Tiles}

\* Promise.allSettled: all tiles of the visit are appended at once.
DashboardArrives(b) ==
    /\ b.waiting = {} /\ batches' = batches \ {b}
    /\ tiles' = tiles \cup TilesOf(b)
    /\ UNCHANGED <<screenVars, view, loaded, directory, visit>>

-----------------------------------------------------------------------------
Next ==
    \/ OpenIncidents \/ OpenEscalations \/ OpenDirectory \/ OpenDashboard
    \/ view = "escalations" /\ UserMay /\ UseScreen /\ UNCHANGED navVars
    \/ (Network \/ Continue) /\ UNCHANGED navVars
    \/ DirectoryArrives
    \/ \E b \in batches : TileAnswered(b) \/ DashboardArrives(b)

Spec == Init /\ [][Next]_vars

-----------------------------------------------------------------------------
\* Once nothing is under way, a dashboard that has been visited shows one tile of
\* each kind, and all of them are of the last visit (dashboard.js:60-74: "a revisit
\* never mixes stale tiles in").
DashboardIsOfLastVisit ==
    Quiet /\ visit > 0 =>
        /\ \A t \in Tiles : \E shown \in tiles : shown.tile = t
        /\ \A shown, other \in tiles :
             shown.visit = visit /\ (shown.tile = other.tile => shown = other)

\* A view that has been visited is filled, or its failure is shown, since no
\* other visit will load it (nav.js:21-31); and whatever has been saved or created
\* since is in the table of the escalations (escalations.js:64-121).
VisitedIsFilled ==
    Quiet /\ "escalations" \in loaded /\ "escalations" \notin failed => TableIsCurrent
=============================================================================

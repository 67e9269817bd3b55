--------------------------- MODULE SeedLifecycle ---------------------------
(***************************************************************************)
(* The containers of the itsm-api over one database file: entrypoint.sh    *)
(* runs the seed command (app/seed.py), wipes the file and seeds again if  *)
(* the command found it inconsistent, and then becomes the server.  The    *)
(* file is on a volume and outlives the container.                         *)
(*                                                                         *)
(* Only committed states of the file appear: a loader writes its tables in *)
(* one transaction, and a kill before its commit leaves nothing of it.     *)
(***************************************************************************)
EXTENDS Naturals, Sequences, FiniteSets

CONSTANTS
    Fixture,      \* Fixture[tb]: the keys of the rows the fixtures define
    BadStages,    \* the loaders that may fail: on their fixture, on a full disk
    Creatable,    \* the tables clients POST to
    Patchable,    \* the tables clients PATCH
    MaxWrites,    \* bound: requests that write, over all the containers
    MaxKills      \* bound: kills of a container

Tables == {"incidents", "work_notes", "escalations",
           "assignment_group", "sys_user", "task_sla"}

\* The loaders in the order seed_all() calls them, by the tables they fill.
Stages == <<{"incidents", "work_notes"}, {"escalations"},
            {"assignment_group", "sys_user"}, {"task_sla"}>>

ASSUME SeedAssumption ==
    /\ \A tb \in Tables : IsFiniteSet(Fixture[tb]) /\ Fixture[tb] # {}
    /\ BadStages \subseteq 1..4
    /\ Creatable \subseteq {"incidents", "work_notes", "escalations"}
    /\ Patchable \subseteq {"incidents", "escalations"}
    /\ MaxWrites \in Nat /\ MaxKills \in Nat

VARIABLES
    db,         \* db[tb]: the committed rows, a function from keys to versions
    phase,      \* what the container is doing
    stage,      \* the loader that runs next
    reseeding,  \* whether the seed command runs for the second time
    writes,     \* requests that wrote so far
    acked,      \* what clients were told is in the database
    kills

vars == <<db, phase, stage, reseeding, writes, acked, kills>>

Seeding == {"check", "load", "wipe"}

Empty == [k \in {} |-> 0]

\* A row as the fixtures have it is version 0; a PATCH writes a higher one.
Loaded(tb) == [k \in Fixture[tb] |-> 0]

\* COUNT(*) of a table.
Count(tb) == Cardinality(DOMAIN db[tb])

\* _expected_counts(): the rows of the fixture, but for the notes, of which
\* every incident is taken to have two, whatever the fixture holds.
ExpectedCount(tb) ==
    IF tb = "work_notes" THEN 2 * Cardinality(Fixture["incidents"])
    ELSE Cardinality(Fixture[tb])

Init ==
    /\ db = [tb \in Tables |-> Empty]
    /\ phase = "down" /\ stage = 1 /\ reseeding = FALSE
    /\ writes = 0 /\ acked = {} /\ kills = 0

\* docker compose up, or a restart of the container.
Boot ==
    /\ phase \in {"down", "failed", "exited"}
    /\ phase' = "check"
    /\ reseeding' = FALSE
    /\ UNCHANGED <<db, stage, writes, acked, kills>>

-----------------------------------------------------------------------------
(***************************************************************************)
(* python -m app.seed                                                      *)
(***************************************************************************)
IsUnseeded == \A tb \in Tables : Count(tb) = 0

\* Mutant: one table speaks for all.
IncidentsAreSeeded == Count("incidents") = Cardinality(Fixture["incidents"])

\* Mutant: a seeded database is not recognised.
NeverSeeded == FALSE

\* Every table has as many rows as expected, whatever rows they are; the number
\* of derived task_sla rows is not fixed.
IsFullySeeded ==
    /\ \A tb \in Tables \ {"task_sla"} : Count(tb) = ExpectedCount(tb)
    /\ Count("task_sla") > 0

\* seed_all() before it loads anything, and what main() and the shell make of
\* it: exit status 2 is wiped away once; the second time it ends the script.
Check ==
    /\ phase = "check"
    /\ phase' = IF IsUnseeded THEN "load"
                ELSE IF IsFullySeeded THEN "serving"
                ELSE IF reseeding THEN "exited" ELSE "wipe"
    /\ stage' = 1
    /\ UNCHANGED <<db, reseeding, writes, acked, kills>>

\* One loader: all its rows, in one commit.  Its own count check cannot fail,
\* since seed_all() has found every table empty.
LoadStage ==
    /\ phase = "load"
    /\ db' = [tb \in Tables |-> IF tb \in Stages[stage] THEN Loaded(tb) ELSE db[tb]]
    /\ stage' = stage + 1
    /\ phase' = IF stage = Len(Stages) THEN "serving" ELSE "load"
    /\ UNCHANGED <<reseeding, writes, acked, kills>>

\* SEED_DATA_INVALID, or an exception that nothing catches: exit status 1 in
\* both cases, and the script ends with it, in its first run and in its second.
LoadFails ==
    /\ phase = "load"
    /\ stage \in BadStages
    /\ phase' = "failed"
    /\ UNCHANGED <<db, stage, reseeding, writes, acked, kills>>

-----------------------------------------------------------------------------
(***************************************************************************)
(* entrypoint.sh                                                           *)
(***************************************************************************)

\* Mutant: the wrong file is removed.
WipeNothing ==
    /\ phase = "wipe"
    /\ phase' = "check" /\ reseeding' = TRUE
    /\ UNCHANGED <<db, stage, writes, acked, kills>>

\* rm -f "$DB_PATH", and the seed command again.
Wipe ==
    /\ phase = "wipe"
    /\ db' = [tb \in Tables |-> Empty]
    /\ phase' = "check" /\ reseeding' = TRUE
    /\ UNCHANGED <<stage, writes, acked, kills>>

-----------------------------------------------------------------------------
(***************************************************************************)
(* uvicorn: the requests that write, each after its commit.                *)
(***************************************************************************)
Store(tb, k, version) ==
    /\ phase = "serving"
    /\ writes < MaxWrites
    /\ writes' = writes + 1
    /\ db' = [db EXCEPT ![tb] = [j \in DOMAIN @ \cup {k} |-> IF j = k THEN version ELSE @[j]]]
    /\ acked' = acked \cup {[table |-> tb, key |-> k, version |-> version]}
    /\ UNCHANGED <<phase, stage, reseeding, kills>>

\* POST /incidents, /incidents/{number}/work_notes, /escalations: a new key.
Post(tb) == tb \in Creatable /\ Store(tb, writes + 1, 0)

\* PATCH /incidents/{number}, /escalations/{number}.
Patch(tb, k) == tb \in Patchable /\ k \in DOMAIN db[tb] /\ Store(tb, k, writes + 1)

Kill ==
    /\ phase # "down"
    /\ kills < MaxKills
    /\ kills' = kills + 1
    /\ phase' = "down"
    /\ UNCHANGED <<db, stage, reseeding, writes, acked>>

-----------------------------------------------------------------------------
Entrypoint == Check \/ LoadStage \/ LoadFails \/ Wipe

Next ==
    \/ Boot \/ Entrypoint \/ Kill
    \/ \E tb \in Tables : Post(tb)
    \/ \E tb \in Tables : \E k \in DOMAIN db[tb] : Patch(tb, k)

Spec == Init /\ [][Next]_vars

\* The script, once started, goes on until something kills it.
FairSpec == Spec /\ WF_vars(Entrypoint)

-----------------------------------------------------------------------------
Keys == (UNION {Fixture[tb] : tb \in Tables}) \cup Nat

TypeOK ==
    /\ DOMAIN db = Tables
    /\ \A tb \in Tables : DOMAIN db[tb] \subseteq Keys /\ db[tb] \in [DOMAIN db[tb] -> Nat]
    /\ phase \in Seeding \cup {"down", "failed", "exited", "serving"}
    /\ stage \in 1..(Len(Stages) + 1) /\ reseeding \in BOOLEAN
    /\ phase = "load" => stage <= Len(Stages)
    /\ writes \in Nat /\ kills \in Nat
    /\ acked \subseteq [table : Tables, key : Keys, version : Nat]

\* The server never runs over a partial seed, however often the container was
\* killed in the middle of one: every row of every fixture is there.
ServesFullySeeded ==
    phase = "serving" => \A tb \in Tables : Fixture[tb] \subseteq DOMAIN db[tb]

\* The seed never adds to rows that are there: while it loads, the tables hold
\* exactly what the loaders before it put there.
LoadsFromEmpty ==
    phase = "load" =>
        \A i \in DOMAIN Stages : \A tb \in Stages[i] :
            db[tb] = IF i < stage THEN Loaded(tb) ELSE Empty

AckedIsStored == \A a \in acked : a.key \in DOMAIN db[a.table] /\ db[a.table][a.key] >= a.version

\* "idempotent, so this is safe on every container start/restart": what a
\* client was told is stored is there whenever the server runs.
AckedChangesServed == phase = "serving" => AckedIsStored

\* The fixtures have two notes per incident, as the committed ones do.  Where they
\* have not, a complete database is never recognised (seed.py:401).
NotesPaired == Cardinality(Fixture["work_notes"]) = ExpectedCount("work_notes")

\* As long as clients have created nothing, their PATCHes survive every kill,
\* restart and run of the seed command (seed.py:420-424); if NotesPaired.
PatchesServed ==
    phase = "serving" /\ (\A a \in acked : a.version > 0) => AckedIsStored

\* A container that has started comes to serve, unless it is killed or one of
\* the loaders fails: the one retry of entrypoint.sh is enough.
StartedServes == phase \in Seeding ~> phase \in {"serving", "down", "failed"}
=============================================================================

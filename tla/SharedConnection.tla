------------------------- MODULE SharedConnection -------------------------
(***************************************************************************)
(* The one SQLite connection of the itsm-api process (app/db.py).          *)
(*                                                                         *)
(* Every router's handler runs on FastAPI's worker threadpool and reaches  *)
(* the database through a single _ThreadSafeConnection.  The wrapper holds *)
(* its lock for one execute() or one commit(), never for a whole handler:  *)
(* one call is therefore one step of the models that extend this module,   *)
(* and handlers interleave between calls.                                  *)
(*                                                                         *)
(* Python's sqlite3 opens a transaction by itself before the first INSERT  *)
(* or UPDATE and keeps it until commit().  The connection is shared, so    *)
(* the transaction is shared: a row one handler has inserted is visible to *)
(* all the others before anybody commits it, and any handler's commit      *)
(* commits it.                                                             *)
(***************************************************************************)
EXTENDS Naturals

VARIABLES
    mem,     \* the tables as the connection sees them, uncommitted rows included
    disk,    \* the tables as they were last committed to the database file
    inTxn    \* whether a transaction is open on the connection

connVars == <<mem, disk, inTxn>>

\* A table is a function from the primary keys it holds to its rows.
RowAdded(table, key, row) ==
    [k \in DOMAIN table \cup {key} |-> IF k = key THEN row ELSE table[k]]

(***************************************************************************)
(* The statements.  Write covers an INSERT and an UPDATE that violate no   *)
(* constraint.  Rejected is one that does: sqlite3.IntegrityError is       *)
(* raised, the statement's own effect is undone, but the transaction that  *)
(* was opened for it stays open, since no handler calls rollback().        *)
(***************************************************************************)
Write(name, key, row) ==
    /\ mem' = [mem EXCEPT ![name] = RowAdded(@, key, row)]
    /\ inTxn' = TRUE
    /\ UNCHANGED disk

Rejected ==
    /\ inTxn' = TRUE
    /\ UNCHANGED <<mem, disk>>

\* commit(): everything pending on the connection, whoever wrote it.
Commit ==
    /\ disk' = mem
    /\ inTxn' = FALSE
    /\ UNCHANGED mem

\* get_connection() and create_schema() in a new process over the same file:
\* what the dead process had not committed is gone.
Reopen ==
    /\ mem' = disk
    /\ inTxn' = FALSE
    /\ UNCHANGED disk
=============================================================================

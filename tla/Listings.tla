------------------------------ MODULE Listings ------------------------------
(***************************************************************************)
(* The list endpoints: GET /incidents, /escalations and /sla, which count  *)
(* and then read a page in two statements on the shared connection, and    *)
(* GET /users and /assignment_groups, which read everything and cut the    *)
(* page out of it (app/routers/, app/pagination.py).  Rows are inserted    *)
(* and patched between any two statements, and clients turn the pages.     *)
(*                                                                         *)
(* A row is its place in the order of the list, which is that of its       *)
(* number, and the value that the endpoint's filter looks at.  A new row   *)
(* has the largest number.                                                 *)
(***************************************************************************)
EXTENDS Integers, Sequences, FiniteSets

CONSTANTS
    Clients,
    Pages, Sizes,    \* the page and page_size that clients ask for
    MaxRows,         \* bound: rows of the table
    MaxMoves         \* bound: rows patched

(***************************************************************************)
(* For every endpoint, the values its filter lets through, by the text in  *)
(* the query; "none" is a query without it.  open_only=false is no filter  *)
(* (escalations.py:37), breached=false is one (sla.py:37).                 *)
(***************************************************************************)
Kept == [
    incidents |-> [none |-> {"new", "closed"}, new |-> {"new"}, closed |-> {"closed"}],
    escalations |-> [none |-> {"open", "closed"}, true |-> {"open"}, false |-> {"open", "closed"}],
    sla |-> [none |-> {"breached", "met"}, true |-> {"breached"}, false |-> {"met"}],
    users |-> [none |-> {"user"}]]

Endpoints == DOMAIN Kept

ASSUME ListingsAssumption ==
    /\ Pages \subseteq Int /\ Sizes \subseteq Int
    /\ MaxRows \in Nat /\ MaxMoves \in Nat

VARIABLES
    endpoint,    \* the endpoint that the clients list
    rows,        \* its table, in the order of the numbers
    moves,       \* rows patched so far
    ask          \* ask[c]: what client c has asked for, and got

vars == <<endpoint, rows, moves, ask>>

Values == Kept[endpoint]["none"]

\* "page" is the one asked for last, "total" and "items" its answer, "counted"
\* how many rows there were when it was counted.  Of the walk as a whole,
\* "start" are the rows to be listed when it began, "seen" and "again" those it
\* has shown, and shown twice; "disturbed" is set when a row begins or ceases
\* to pass the filter.
NewAsk(phase, filter, page, size, start) ==
    [phase |-> phase, filter |-> filter, page |-> page, size |-> size,
     first |-> page, total |-> 0, counted |-> 0, items |-> {},
     start |-> start, seen |-> {}, again |-> {}, disturbed |-> FALSE]

Init ==
    /\ endpoint \in Endpoints
    /\ rows \in UNION {[1..n -> Values] : n \in 0..MaxRows}
    /\ moves = 0
    /\ ask = [c \in Clients |-> NewAsk("idle", "none", 1, 1, {})]

Listed(i, filter) == rows[i] \in Kept[endpoint][filter]

Matching(filter) == {i \in DOMAIN rows : Listed(i, filter)}

Rank(i, filter) == Cardinality({j \in 1..i : Listed(j, filter)})

Now(c, new) == ask' = [ask EXCEPT ![c] = new] /\ UNCHANGED <<endpoint, rows, moves>>

-----------------------------------------------------------------------------
(***************************************************************************)
(* A request, and its validation: the filter of incidents and of the SLA   *)
(* records is one of a set of texts; the page and its size are only        *)
(* looked at by the directory.                                             *)
(***************************************************************************)
Valid(filter, page, size) ==
    /\ filter \in DOMAIN Kept[endpoint]
    /\ endpoint = "users" => page >= 1 /\ size \in 1..200

Request(c) ==
    /\ ask[c].phase \in {"idle", "refused"}
    /\ \E filter \in DOMAIN Kept[endpoint] \cup {"other"}, page \in Pages, size \in Sizes :
         IF Valid(filter, page, size)
         THEN Now(c, NewAsk("count", filter, page, size, Matching(filter)))
         ELSE Now(c, NewAsk("refused", "none", 1, 1, {}))

\* Mutant: the total is that of the table.
CountAll(c) ==
    /\ ask[c].phase = "count" /\ endpoint # "users"
    /\ Now(c, [ask[c] EXCEPT !.phase = "rows", !.total = Len(rows), !.counted = Len(rows)])

\* SELECT COUNT(*), with the same WHERE as the SELECT that follows.
CountRows(c) ==
    /\ ask[c].phase = "count" /\ endpoint # "users"
    /\ Now(c, [ask[c] EXCEPT !.phase = "rows", !.counted = Len(rows),
                             !.total = Cardinality(Matching(ask[c].filter))])

\* Mutant: OFFSET counts from the page itself.
OffsetByPage(page, size) == IF page * size < 0 THEN 0 ELSE page * size

\* SQLite takes a negative OFFSET for 0.
Offset(page, size) == IF (page - 1) * size < 0 THEN 0 ELSE (page - 1) * size

\* LIMIT ? OFFSET ?, where a negative LIMIT is none.
InWindow(rank, page, size) ==
    /\ rank > Offset(page, size)
    /\ size >= 0 => rank <= Offset(page, size) + size

PageRows(filter, page, size) ==
    {i \in Matching(filter) : InWindow(Rank(i, filter), page, size)}

Answered(a, items) ==
    [a EXCEPT !.phase = "read", !.items = items,
              !.seen = @ \cup items, !.again = @ \cup (a.seen \cap items)]

ReadRows(c) ==
    /\ ask[c].phase = "rows"
    /\ Now(c, Answered(ask[c], PageRows(ask[c].filter, ask[c].page, ask[c].size)))

\* paginate_rows: rows[start : start + page_size], and len(rows).
Slice(page, size) == {i \in DOMAIN rows : i > (page - 1) * size /\ i <= (page - 1) * size + size}

ReadDirectory(c) ==
    /\ ask[c].phase = "count" /\ endpoint = "users"
    /\ Now(c, [Answered(ask[c], Slice(ask[c].page, ask[c].size))
                 EXCEPT !.total = Len(rows), !.counted = Len(rows)])

-----------------------------------------------------------------------------
\* A client that has more to come asks for the next page.
AtEnd(a) == a.page * a.size >= a.total

Walks(a) == a.first = 1 /\ a.size >= 1

NextPage(c) ==
    /\ ask[c].phase = "read" /\ Walks(ask[c]) /\ ~AtEnd(ask[c])
    /\ Now(c, [ask[c] EXCEPT !.phase = "count", !.page = @ + 1])

\* POST: a row at the end.  Nothing but the seed writes users or task_sla.
Insert(v) ==
    /\ endpoint \in {"incidents", "escalations"} /\ Len(rows) < MaxRows
    /\ rows' = Append(rows, v)
    /\ UNCHANGED <<endpoint, moves, ask>>

\* PATCH: a row changes what the filter looks at.
Move(i, v) ==
    /\ endpoint \in {"incidents", "escalations"} /\ moves < MaxMoves
    /\ rows' = [rows EXCEPT ![i] = v]
    /\ moves' = moves + 1
    /\ ask' = [c \in Clients |->
         [ask[c] EXCEPT !.disturbed =
             @ \/ Listed(i, ask[c].filter) # (v \in Kept[endpoint][ask[c].filter])]]
    /\ UNCHANGED endpoint

Next ==
    \/ \E v \in Values : Insert(v)
    \/ \E i \in DOMAIN rows, v \in Values : Move(i, v)
    \/ \E c \in Clients :
         \/ Request(c) \/ CountRows(c) \/ ReadRows(c) \/ ReadDirectory(c) \/ NextPage(c)

Spec == Init /\ [][Next]_vars

-----------------------------------------------------------------------------
Asks == [
    phase : {"idle", "refused", "count", "rows", "read"},
    filter : UNION {DOMAIN Kept[e] : e \in Endpoints},
    page : Int, size : Int, first : Int, total : Nat, counted : Nat, items : SUBSET Nat,
    start : SUBSET Nat, seen : SUBSET Nat, again : SUBSET Nat, disturbed : BOOLEAN]

\* The types of the variables.
TypeOK ==
    /\ endpoint \in Endpoints /\ rows \in Seq(Values) /\ moves \in Nat
    /\ ask \in [Clients -> Asks]
    /\ \A c \in Clients : ask[c].filter \in DOMAIN Kept[endpoint]

\* A client that turns the pages until "total" is reached has seen every row
\* that was there when it began, and none of them twice, however many rows are
\* added meanwhile (incidents.py:99-104); unless a PATCH moves a row in or out
\* of the filter, which without a filter nothing can.
WalkIsComplete ==
    \A c \in Clients :
        ask[c].phase = "read" /\ Walks(ask[c]) /\ ~ask[c].disturbed =>
            /\ ask[c].again = {}
            /\ AtEnd(ask[c]) => ask[c].start \subseteq ask[c].seen

\* The total, counted first, and the rows, read later, agree but for rows that
\* came in between: a page that ends within the total is full, and what it
\* shows beyond the total was not there to be counted.
PageAgreesWithTotal ==
    \A c \in Clients :
        LET a == ask[c]
            offset == Offset(a.page, a.size)
            old == {i \in a.items : i <= a.counted}
        IN  a.phase = "read" /\ ~a.disturbed =>
                /\ old # {} => offset + Cardinality(old) <= a.total
                /\ a.size >= 0 /\ offset + a.size <= a.total =>
                       Cardinality(a.items) = a.size

\* Not so when rows move in and out of the filter: the pages shift.
FilteredWalkIsComplete ==
    \A c \in Clients :
        ask[c].phase = "read" /\ Walks(ask[c]) /\ AtEnd(ask[c]) =>
            ask[c].start \cap Matching(ask[c].filter) \subseteq ask[c].seen
=============================================================================

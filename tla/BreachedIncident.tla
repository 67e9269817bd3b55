-------------------------- MODULE BreachedIncident --------------------------
(***************************************************************************)
(* The fixture that provides an incident which is not resolved and has a   *)
(* breached first-response record (tests_e2e/breached_sla_fixture.py):     *)
(* one HTTP request per action.  Several tests of a session call it, one   *)
(* after the other, over a server that nobody resets: between two calls    *)
(* any incident may be resolved or opened again.  SLA records are written  *)
(* by the seed only.                                                       *)
(***************************************************************************)
EXTENDS Naturals, Sequences, SequencesExt

CONSTANTS
    Incidents,    \* the number of the last seeded incident
    Breaches,     \* what /sla may list: sequences of incidents
    PageSize,
    MaxScan,      \* _MAX_SCAN_RECORDS
    MaxSlaPolls,  \* bound: polls for a record of the new incident
    MaxPatches,   \* bound: PATCHes by the tests
    MaxCalls      \* bound: calls of the fixture

ASSUME BreachedAssumption ==
    /\ Incidents \in Nat
    /\ Breaches \subseteq Seq(1..Incidents)
    /\ {PageSize, MaxScan} \subseteq Nat \ {0} /\ {MaxSlaPolls, MaxPatches, MaxCalls} \subseteq Nat

VARIABLES
    breached,    \* the incidents of /sla?sla_definition=first_response&breached=true
    open,        \* the incidents that exist and are not resolved or closed
    last,        \* the number of the last incident: 1..last exist
    patches,
    calls,
    fx           \* the locals of the fixture, and where it is

fixtureVars == <<breached, open, last, patches, calls, fx>>

\* The locals at the beginning of a call.
Fresh(pc) == [pc |-> pc, page |-> 1, items |-> <<>>, scanned |-> 0,
              candidate |-> {}, created |-> 0, result |-> {}, polls |-> 0]

FixtureInit ==
    /\ breached \in Breaches
    /\ open \in SUBSET (1..Incidents)
    /\ last = Incidents
    /\ patches = 0 /\ calls = 0
    /\ fx = Fresh("idle")

At(pc) == fx.pc = pc

\* A test calls the fixture, and goes on once it has returned or raised.
CallFixture ==
    /\ At("idle") /\ calls < MaxCalls
    /\ calls' = calls + 1
    /\ fx' = Fresh("scan")
    /\ UNCHANGED <<breached, open, last, patches>>

FixtureEnds ==
    /\ fx.pc \in {"returned", "unavailable", "failed"}
    /\ fx' = Fresh("idle")
    /\ UNCHANGED <<breached, open, last, patches, calls>>

\* Mutant: the two fallbacks in the order in which the docstring numbers them.
ScannedCreates(f) == [f EXCEPT !.pc = "create"]

\* The end of the scan: reopen what was found, or else create.
Scanned(f) == [f EXCEPT !.pc = IF f.candidate = {} THEN "create" ELSE "reopen"]

Returns(f, number) == [f EXCEPT !.pc = "returned", !.result = {number}]

\* One page of records; the loop ends after MaxScan records.
GetPage ==
    /\ At("scan")
    /\ LET first == (fx.page - 1) * PageSize
           items == SubSeq(breached, first + 1,
                           IF first + PageSize < Len(breached) THEN first + PageSize ELSE Len(breached))
       IN  fx' = IF items = <<>> THEN Scanned(fx) ELSE [fx EXCEPT !.pc = "look", !.items = items]
    /\ UNCHANGED <<breached, open, last, patches, calls>>

AfterPage(f) ==
    IF f.page * PageSize >= Len(breached) \/ f.scanned >= MaxScan
    THEN Scanned(f) ELSE [f EXCEPT !.pc = "scan", !.page = @ + 1]

\* GET /incidents/{number} of the next record of the page.
LookAt ==
    /\ At("look")
    /\ LET number == Head(fx.items)
           looked == [fx EXCEPT !.items = Tail(@), !.scanned = @ + 1]
           kept == IF fx.candidate = {} THEN [looked EXCEPT !.candidate = {number}] ELSE looked
       IN  fx' = IF number \in open THEN Returns(looked, number)
                 ELSE IF kept.items = <<>> THEN AfterPage(kept) ELSE kept
    /\ UNCHANGED <<breached, open, last, patches, calls>>

\* PATCH state=in_progress.
Reopen ==
    /\ At("reopen")
    /\ \E number \in fx.candidate :
         /\ open' = open \cup {number}
         /\ fx' = Returns(fx, number)
    /\ UNCHANGED <<breached, last, patches, calls>>

\* POST /incidents: no SLA record comes of it.
CreateIncident ==
    /\ At("create")
    /\ last' = last + 1
    /\ open' = open \cup {last'}
    /\ fx' = [fx EXCEPT !.pc = "poll", !.created = last']
    /\ UNCHANGED <<breached, patches, calls>>

\* GET /sla?incident_number=..., until there is a breached record.
PollSla ==
    /\ At("poll")
    /\ fx' = IF Contains(breached, fx.created) THEN Returns(fx, fx.created)
             ELSE IF fx.polls < MaxSlaPolls THEN [fx EXCEPT !.polls = @ + 1]
             ELSE [fx EXCEPT !.pc = "unavailable"]
    /\ UNCHANGED <<breached, open, last, patches, calls>>

FixtureRequest == GetPage \/ LookAt \/ Reopen \/ CreateIncident \/ PollSla

\* No answer: httpx raises.
FixtureFails ==
    /\ fx.pc \in {"scan", "look", "reopen", "create", "poll"}
    /\ fx' = [fx EXCEPT !.pc = "failed"]
    /\ UNCHANGED <<breached, open, last, patches, calls>>

\* A test resolves an incident, such as the one it got from the fixture, or
\* opens it again.
TestPatches(number, opens) ==
    /\ At("idle") /\ patches < MaxPatches
    /\ patches' = patches + 1
    /\ open' = IF opens THEN open \cup {number} ELSE open \ {number}
    /\ UNCHANGED <<breached, last, calls, fx>>
=============================================================================

----------------------------- MODULE E2eSession -----------------------------
(***************************************************************************)
(* A session of tests over the MCP server and the itsm-api: the processes  *)
(* of E2eServers, and, while both have been yielded, tests that run one    *)
(* after the other, call the fixture of BreachedIncident and send requests *)
(* of their own.                                                           *)
(***************************************************************************)
EXTENDS E2eServers, BreachedIncident

CONSTANT MaxRequests    \* bound: requests of the tests

ASSUME SessionAssumption == MaxRequests \in Nat

VARIABLE requests    \* requests of the tests so far

sessionVars == <<serverVars, fixtureVars, requests>>

SessionInit == ServersInit /\ FixtureInit /\ requests = 0

Testing == ctx["api"] = "yielded" /\ ctx["mcp"] = "yielded"

\* A request to p, which p logs if it answers; a client gives up otherwise.
RequestTo(p) ==
    /\ Testing /\ Answers(p)
    /\ log' = Logged(p)
    /\ UNCHANGED <<ctx, proc, polls, taken, seeded>>

RunFixture ==
    \/ Testing /\ (CallFixture \/ FixtureEnds) /\ UNCHANGED <<serverVars, requests>>
    \/ RequestTo("api") /\ FixtureRequest /\ UNCHANGED requests
    \/ Testing /\ ~Answers("api") /\ FixtureFails /\ UNCHANGED <<serverVars, requests>>

\* A request that changes no incident.
RunTest(p) ==
    /\ At("idle") /\ requests < MaxRequests
    /\ RequestTo(p)
    /\ requests' = requests + 1
    /\ UNCHANGED fixtureVars

\* All tests have the same server; where the port was taken, the one that
\* answers there.
PatchingTest ==
    /\ RequestTo("api")
    /\ \E number \in 1..last, opens \in BOOLEAN : TestPatches(number, opens)
    /\ UNCHANGED requests

\* The session ends when its tests do, or when a start has failed.
EndSession ==
    /\ Testing => At("idle")
    /\ Unwind
    /\ UNCHANGED <<fixtureVars, requests>>

Driver ==
    \/ Drive /\ UNCHANGED <<fixtureVars, requests>>
    \/ RunFixture
    \/ EndSession

SessionNext ==
    \/ Driver
    \/ \E p \in Servers : RunTest(p)
    \/ PatchingTest
    \/ Happens /\ UNCHANGED <<fixtureVars, requests>>

SessionSpec == SessionInit /\ [][SessionNext]_sessionVars

\* The driver is one program, and all that it waits for has a timeout, but for
\* the seed; that this and the tests end is assumed.  Of the servers nothing is.
FairSessionSpec == SessionSpec /\ WF_sessionVars(Driver)

-----------------------------------------------------------------------------
Over == ctx["api"] = "left" /\ ctx["mcp"] \in {"idle", "left"}

\* Whatever fails, the seed, a start, a test or the end of a server that does
\* not stop: no process outlives the session (servers.py:91-127, 163-198).
NothingLeftRunning == Over => \A p \in Servers : ~Running(p)

\* The session comes to an end, also over servers that never start, that hang,
\* or that do not stop.
SessionEnds == <>Over

\* Whatever earlier tests and calls have left behind, the incident that the
\* fixture returns has a breached record and is open; and it only creates one,
\* or finds none, where nothing at all is breached
\* (breached_sla_fixture.py:53-101).
FixtureDelivers ==
    /\ At("returned") => /\ fx.result # {}
                         /\ \A number \in fx.result : Contains(breached, number) /\ number \in open
    /\ (last > Incidents \/ At("unavailable")) => breached = <<>>

\* servers.py:50: "The base URL once the server answers GET /, with the fixture
\* data already seeded".  False where another program took the port.
YieldedServerIsOwn == ctx["api"] = "yielded" => ~taken["api"]

\* False: nobody reads the pipe of a server, which blocks when it is full.
ServesWhileTesting == Testing /\ proc["api"] = "up" => Answers("api")
=============================================================================

----------------------------- MODULE E2eServers -----------------------------
(***************************************************************************)
(* The server processes of an end-to-end session (tests_e2e/servers.py,    *)
(* conftest.py:59-76): the driver seeds a database, starts the itsm-api    *)
(* and inside of that the MCP server, polls each of them until it answers, *)
(* runs the tests, and ends both in the reverse order, also when a start   *)
(* or a test fails.                                                        *)
(***************************************************************************)
EXTENDS Naturals

CONSTANTS
    MaxPolls,    \* bound: polls before the deadline of a start
    PipeLines    \* lines of output that a pipe holds which nobody reads

ASSUME ServersAssumption == MaxPolls \in Nat \ {0} /\ PipeLines \in Nat \ {0}

Servers == {"api", "mcp"}

VARIABLES
    ctx,       \* ctx[p]: where the driver is in the context manager of p
    proc,      \* proc[p]: the process, "none" before Popen
    polls,     \* polls[p]: polls made so far
    log,       \* log[p]: lines in the pipe to the driver
    taken,     \* taken[p]: another program listens on the port chosen for p
    seeded     \* whether the seed has filled the database

serverVars == <<ctx, proc, polls, log, taken, seeded>>

ServersInit ==
    /\ ctx = [p \in Servers |-> "idle"]
    /\ proc = [p \in Servers |-> "none"]
    /\ polls = [p \in Servers |-> 0]
    /\ log = [p \in Servers |-> 0]
    /\ taken = [p \in Servers |-> FALSE]
    /\ seeded = FALSE

Set(f, p, v) == [f EXCEPT ![p] = v]

Moves(p, from, to) == ctx[p] = from /\ ctx' = Set(ctx, p, to)

Becomes(p, from, to) == proc[p] \in from /\ proc' = Set(proc, p, to)

Running(p) == proc[p] \in {"booting", "up", "stopping"}

\* A server whose pipe is full blocks when it logs: it answers nothing, and
\* does not react to SIGTERM.
Blocked(p) == log[p] = PipeLines

\* Somebody listens on the port of p, and answers.
Answers(p) == taken[p] \/ (proc[p] = "up" /\ ~Blocked(p))

Logged(p) == IF taken[p] \/ Blocked(p) THEN log ELSE Set(log, p, log[p] + 1)

-----------------------------------------------------------------------------
(***************************************************************************)
(* The driver                                                              *)
(***************************************************************************)

Popen(p) == proc' = Set(proc, p, "booting")

\* subprocess.run of the seed; a failure raises before there is a server.
Seed(succeeds) ==
    /\ Moves("api", "idle", IF succeeds THEN "polling" ELSE "left")
    /\ seeded' = succeeds
    /\ IF succeeds THEN Popen("api") ELSE UNCHANGED proc
    /\ UNCHANGED <<polls, log, taken>>

StartMcp ==
    /\ ctx["api"] = "yielded"
    /\ Moves("mcp", "idle", "polling")
    /\ Popen("mcp")
    /\ UNCHANGED <<polls, log, taken, seeded>>

PollExited(p) ==
    /\ Moves(p, "polling", "finally")
    /\ proc[p] = "dead"
    /\ UNCHANGED <<proc, polls, log, taken, seeded>>

\* GET / answers 200, or the connection is accepted.
PollAnswered(p) ==
    /\ Moves(p, "polling", "yielded")
    /\ proc[p] # "dead" /\ Answers(p)
    /\ log' = IF p = "api" THEN Logged(p) ELSE log
    /\ UNCHANGED <<proc, polls, taken, seeded>>

PollMissed(p) ==
    /\ ctx[p] = "polling" /\ proc[p] # "dead"
    /\ polls[p] < MaxPolls
    /\ polls' = Set(polls, p, polls[p] + 1)
    /\ UNCHANGED <<ctx, proc, log, taken, seeded>>

\* The deadline: kill, wait, raise.
PollTimesOut(p) ==
    /\ Moves(p, "polling", "finally")
    /\ polls[p] > 0
    /\ proc' = Set(proc, p, "dead")
    /\ UNCHANGED <<polls, log, taken, seeded>>

\* The tests are over, or one of the two starts has failed.
Unwind ==
    /\ \/ ctx["mcp"] = "yielded" /\ ctx' = Set(ctx, "mcp", "finally")
       \/ ctx["mcp"] = "left" /\ Moves("api", "yielded", "finally")
    /\ UNCHANGED <<proc, polls, log, taken, seeded>>

FinallyDead(p) ==
    /\ Moves(p, "finally", "left")
    /\ proc[p] = "dead"
    /\ UNCHANGED <<proc, polls, log, taken, seeded>>

Terminate(p) ==
    /\ Moves(p, "finally", "waiting")
    /\ Becomes(p, {"booting", "up"}, "stopping")
    /\ UNCHANGED <<polls, log, taken, seeded>>

WaitEnds(p) ==
    /\ Moves(p, "waiting", "left")
    /\ proc[p] = "dead"
    /\ UNCHANGED <<proc, polls, log, taken, seeded>>

\* Mutant: a process that does not stop is left to itself.
WaitGivesUp(p) ==
    /\ Moves(p, "waiting", "left")
    /\ UNCHANGED <<proc, polls, log, taken, seeded>>

\* Mutant: wait() without a timeout.
WaitForEver(p) == WaitEnds(p)

\* TimeoutExpired: kill, wait.
WaitExpires(p) ==
    /\ Moves(p, "waiting", "left")
    /\ proc' = Set(proc, p, "dead")
    /\ UNCHANGED <<polls, log, taken, seeded>>

DriveServer(p) ==
    \/ PollExited(p) \/ PollAnswered(p) \/ PollMissed(p) \/ PollTimesOut(p)
    \/ FinallyDead(p) \/ Terminate(p) \/ WaitEnds(p) \/ WaitExpires(p)

Drive ==
    \/ \E succeeds \in BOOLEAN : Seed(succeeds)
    \/ StartMcp
    \/ \E p \in Servers : DriveServer(p)

-----------------------------------------------------------------------------
(***************************************************************************)
(* The processes, and the rest of the machine                              *)
(***************************************************************************)

\* The server binds its port.
Boots(p) ==
    /\ ~taken[p] /\ Becomes(p, {"booting"}, "up")
    /\ UNCHANGED <<ctx, polls, log, taken, seeded>>

\* It cannot start, because of the port or otherwise.
Exits(p) ==
    /\ Becomes(p, {"booting"}, "dead")
    /\ UNCHANGED <<ctx, polls, log, taken, seeded>>

Stops(p) ==
    /\ ~Blocked(p) /\ Becomes(p, {"stopping"}, "dead")
    /\ UNCHANGED <<ctx, polls, log, taken, seeded>>

\* Between _free_port and the bind of the server the port is anybody's.
TakePort(p) ==
    /\ proc[p] = "booting" /\ taken' = Set(taken, p, TRUE)
    /\ UNCHANGED <<ctx, proc, polls, log, seeded>>

Happens == \E p \in Servers : Boots(p) \/ Exits(p) \/ Stops(p) \/ TakePort(p)
=============================================================================

---------------------------- MODULE ToolContract ----------------------------
(***************************************************************************)
(* What an MCP tool call promises its caller, whatever becomes of the      *)
(* request in between: the work is done at most once; "ok" means that it   *)
(* was done, "failed" that it was not and never will be, and "unknown"     *)
(* promises nothing: the work may be done, now or later.                   *)
(***************************************************************************)
CONSTANT Calls

VARIABLES
    status,    \* status[c]: what the caller knows of its call
    done       \* the calls whose work has been done

vars == <<status, done>>

Statuses == {"new", "open", "ok", "failed", "unknown"}

Init == status = [c \in Calls |-> "new"] /\ done = {}

Step(c, from, to) == status[c] = from /\ status' = [status EXCEPT ![c] = to]

Begin(c)   == Step(c, "new", "open") /\ UNCHANGED done
Refuse(c)  == Step(c, "new", "failed") /\ UNCHANGED done
Succeed(c) == c \in done /\ Step(c, "open", "ok") /\ UNCHANGED done
Fail(c)    == c \notin done /\ Step(c, "open", "failed") /\ UNCHANGED done
GiveUp(c)  == Step(c, "open", "unknown") /\ UNCHANGED done

DoWork(c) ==
    /\ status[c] \in {"open", "unknown"}
    /\ c \notin done
    /\ done' = done \cup {c}
    /\ UNCHANGED status

Next == \E c \in Calls :
    Begin(c) \/ Refuse(c) \/ Succeed(c) \/ Fail(c) \/ GiveUp(c) \/ DoWork(c)

Spec == Init /\ [][Next]_vars
=============================================================================

----------------------------- MODULE McpGateway -----------------------------
(***************************************************************************)
(* The MCP server (mcp_server/): every tool call opens an HTTP client,     *)
(* sends one request to the itsm-api, waits at most for the client's       *)
(* timeout, and turns whatever comes back into a result or a ToolError.    *)
(* The server keeps no state and never retries; its caller may.            *)
(*                                                                         *)
(* The values of the arguments are abstracted to what the schema of the    *)
(* tool and the validation of the API make of them: "good"; "bad", of the  *)
(* right type and outside the values the API accepts or knows; "empty", an *)
(* empty text in the path; "null"; "mistyped".                             *)
(***************************************************************************)
EXTENDS Naturals

CONSTANTS
    Callers,     \* MCP clients; each wants one thing done
    Requests,    \* what a caller may ask for
    MaxTries,    \* bound: calls by one caller
    MaxKills     \* bound: kills of the itsm-api

(***************************************************************************)
(* The tools: the method and the part of the path that is an argument, the *)
(* arguments that are required and optional, and those among them that the *)
(* API checks against a set of values or looks up.                         *)
(***************************************************************************)
Tool(method, path, required, optional, checked) ==
    [method |-> method, path |-> path, required |-> required,
     optional |-> optional, checked |-> checked]

Paging == {"page", "page_size"}
Fields == {"state", "priority", "assigned_to", "assignment_group"}

Tools == [
    list_incidents |-> Tool("GET", {}, {},
        {"account_id", "state", "category", "opened_after", "opened_before", "escalated"}
            \cup Paging,
        {"state", "opened_after", "opened_before"}),
    get_incident |-> Tool("GET", {"number"}, {"number"}, {}, {"number"}),
    create_incident |-> Tool("POST", {},
        {"account_id", "category", "short_description", "description", "state", "priority"}, {},
        {"state", "priority"}),
    update_incident |-> Tool("PATCH", {"number"}, {"number"}, Fields,
        {"number", "state", "priority"}),
    list_escalations |-> Tool("GET", {}, {}, {"account_id", "open_only"} \cup Paging, {}),
    list_sla_records |-> Tool("GET", {}, {},
        {"incident_number", "breached", "sla_definition"} \cup Paging, {"sla_definition"}),
    list_work_notes |-> Tool("GET", {"incident_number"}, {"incident_number"}, Paging,
        {"incident_number"} \cup Paging),
    add_work_note |-> Tool("POST", {"incident_number"},
        {"incident_number", "created_by", "note_type", "body"}, {},
        {"incident_number", "note_type"}),
    list_users |-> Tool("GET", {}, {}, {}, {})]

Values == {"good", "bad", "empty", "null", "mistyped"}

\* Any argument has a name; these are the names a schema lists, and another one.
Names == UNION {Tools[t].required \cup Tools[t].optional : t \in DOMAIN Tools} \cup {"surplus"}

IsRequest(r) ==
    /\ r.tool \in DOMAIN Tools
    /\ DOMAIN r.args \subseteq Names
    /\ \A a \in DOMAIN r.args : r.args[a] \in Values

ASSUME GatewayAssumption ==
    /\ \A r \in Requests : IsRequest(r)
    /\ MaxTries \in Nat /\ MaxKills \in Nat

VARIABLES
    intent,      \* intent[k]: the request caller k makes, again if it has to
    configured,  \* whether API_BASE_URL is set
    up,          \* whether the itsm-api runs
    kills,
    wire,        \* wire[c]: the request of call c, or the answer to it, on its way
    carried,     \* the calls the itsm-api has carried out
    outcome      \* outcome[c]: "none" before the call, "waiting" during it

vars == <<intent, configured, up, kills, wire, carried, outcome>>

\* Call <<k, n>> is the n-th time that k asks for intent[k].
Calls == Callers \X (1..MaxTries)

Errors == {"refused", "unconfigured", "api_error", "undecodable", "unreachable"}

Init ==
    /\ intent \in [Callers -> Requests]
    /\ configured \in BOOLEAN /\ up \in BOOLEAN
    /\ kills = 0
    /\ wire = [c \in Calls |-> "none"]
    /\ carried = {}
    /\ outcome = [c \in Calls |-> "none"]

Wants(c) == intent[c[1]]

\* A caller asks again when it has been told of an error, and only then.
MayCall(c) ==
    /\ outcome[c] = "none"
    /\ c[2] > 1 => outcome[<<c[1], c[2] - 1>>] \in Errors

Goes(c, result) == outcome' = [outcome EXCEPT ![c] = result]

Puts(c, message) == wire' = [wire EXCEPT ![c] = message]

-----------------------------------------------------------------------------
(***************************************************************************)
(* The call, up to the await of the request                                *)
(***************************************************************************)

\* The published schema, with extra="forbid": all that is required, of the
\* right type, and nothing unknown.  An optional argument may be null.
Accepts(r) ==
    LET tool == Tools[r.tool]
    IN  /\ tool.required \subseteq DOMAIN r.args
        /\ DOMAIN r.args \subseteq tool.required \cup tool.optional
        /\ \A a \in DOMAIN r.args : r.args[a] # "mistyped"
        /\ \A a \in tool.required : r.args[a] # "null"

Refuse(c) ==
    /\ MayCall(c) /\ ~Accepts(Wants(c))
    /\ Goes(c, "refused")
    /\ UNCHANGED <<intent, configured, up, kills, wire, carried>>

\* _client() raises RuntimeError, outside the tool's try.
NotConfigured(c) ==
    /\ MayCall(c) /\ Accepts(Wants(c)) /\ ~configured
    /\ Goes(c, "unconfigured")
    /\ UNCHANGED <<intent, configured, up, kills, wire, carried>>

Send(c) ==
    /\ MayCall(c) /\ Accepts(Wants(c)) /\ configured
    /\ Goes(c, "waiting")
    /\ Puts(c, "sent")
    /\ UNCHANGED <<intent, configured, up, kills, carried>>

\* What the client puts into the path, the query or the body: null is left out.
Sent(r) == [a \in {b \in DOMAIN r.args : r.args[b] # "null"} |-> r.args[a]]

-----------------------------------------------------------------------------
(***************************************************************************)
(* The itsm-api.  An error envelope is answered before anything is done,   *)
(* and so is the plain-text 500 of a POST whose key was taken; a client    *)
(* that has gone does not stop a handler.                                  *)
(***************************************************************************)

\* GET or PATCH /incidents/ without a number: 307 to /incidents, without a
\* body, which the client does not follow.
Redirected(r) ==
    r.tool \in {"get_incident", "update_incident"} /\ r.args["number"] = "empty"

\* 404 or 422.  A null that was sent would fail the validation as well.
Rejects(r) ==
    \E a \in DOMAIN Sent(r) \cap Tools[r.tool].checked : Sent(r)[a] # "good"

Carries(r) == ~Redirected(r) /\ ~Rejects(r)

Answer(c, message) ==
    /\ wire[c] = "sent" /\ up
    /\ Puts(c, message)
    /\ UNCHANGED <<intent, configured, up, kills, outcome>>

Carry(c) ==
    /\ Answer(c, "done")
    /\ Carries(Wants(c))
    /\ carried' = carried \cup {c}

Reject(c) ==
    /\ Answer(c, "rejected")
    /\ Rejects(Wants(c)) /\ ~Redirected(Wants(c))
    /\ UNCHANGED carried

Redirect(c) == Answer(c, "redirected") /\ Redirected(Wants(c)) /\ UNCHANGED carried

\* "Internal Server Error", as text: the number or the sys_id was taken.
Crash(c) ==
    /\ Answer(c, "crashed")
    /\ Carries(Wants(c)) /\ Tools[Wants(c).tool].method = "POST"
    /\ UNCHANGED carried

Kill ==
    /\ up /\ kills < MaxKills
    /\ up' = FALSE /\ kills' = kills + 1
    /\ wire' = [c \in Calls |-> IF wire[c] = "sent" THEN "lost" ELSE wire[c]]
    /\ UNCHANGED <<intent, configured, carried, outcome>>

Boot == ~up /\ up' = TRUE /\ UNCHANGED <<intent, configured, kills, wire, carried, outcome>>

-----------------------------------------------------------------------------
(***************************************************************************)
(* The call, after the await                                               *)
(***************************************************************************)

\* Mutant: status codes below 500 are all taken for success.
ResultOf(message) == IF message \in {"done", "rejected"} THEN "ok" ELSE "undecodable"

\* Mutant: only status 200 is a success, and a POST answers 201.
ResultOf200(message) == IF message \in {"done", "rejected"} THEN "api_error" ELSE "undecodable"

\* The body of a 2xx, the message of an error envelope, or the exception that
\* response.json() raises on anything else.
Result(message) ==
    IF message = "done" THEN "ok"
    ELSE IF message = "rejected" THEN "api_error" ELSE "undecodable"

Receive(c) ==
    /\ outcome[c] = "waiting"
    /\ wire[c] \in {"done", "rejected", "crashed", "redirected"}
    /\ Goes(c, Result(wire[c]))
    /\ UNCHANGED <<intent, configured, up, kills, wire, carried>>

\* Mutant: only a refused connection ends the wait (timeout=None).
NoConnection(c) ==
    /\ outcome[c] = "waiting" /\ ~up
    /\ Goes(c, "unreachable")
    /\ UNCHANGED <<intent, configured, up, kills, wire, carried>>

\* httpx.RequestError: the connection is refused or breaks, or the timeout is
\* over.  The request, if it is on its way, stays there.
Unreachable(c) ==
    /\ outcome[c] = "waiting"
    /\ Goes(c, "unreachable")
    /\ UNCHANGED <<intent, configured, up, kills, wire, carried>>

-----------------------------------------------------------------------------
Next ==
    \/ Kill \/ Boot
    \/ \E c \in Calls :
         \/ Refuse(c) \/ NotConfigured(c) \/ Send(c)
         \/ Carry(c) \/ Reject(c) \/ Redirect(c) \/ Crash(c)
         \/ Receive(c) \/ Unreachable(c)

Spec == Init /\ [][Next]_vars

\* The client's timer fires if nothing else ends the wait.  Of the API, which
\* may hang, nothing is assumed.
FairSpec == Spec /\ \A c \in Calls : WF_vars(Unreachable(c))

-----------------------------------------------------------------------------
Wires == {"none", "sent", "lost", "done", "rejected", "crashed", "redirected"}

\* The types of the variables.
TypeOK ==
    /\ intent \in [Callers -> Requests]
    /\ configured \in BOOLEAN /\ up \in BOOLEAN /\ kills \in Nat
    /\ wire \in [Calls -> Wires]
    /\ carried \subseteq Calls
    /\ outcome \in [Calls -> Errors \cup {"none", "waiting", "ok"}]

\* A caller that asks again only after an error makes a second incident or a
\* second note only where it was told that the API could not be reached
\* (client.py:147-152): every other error is safe to retry.
DuplicateHasLostAnswer ==
    \A c, d \in carried :
        c[1] = d[1] /\ c[2] < d[2] => outcome[c] = "unreachable"

\* Arguments left out, or null, are no reason for the API to reject a call
\* (client.py:33-48, 91-98, 140-142): an error of the API is about a value that
\* the caller gave.
RejectedForAValue ==
    \A c \in Calls : outcome[c] = "api_error" =>
        \E a \in DOMAIN Wants(c).args : Wants(c).args[a] \in {"bad", "empty"}

\* No call waits for ever, even for an API that hangs ("never hangs").
EveryCallEnds ==
    \A c \in Calls : outcome[c] = "waiting" ~> outcome[c] \in Errors \cup {"ok"}

\* What the errors say to a caller: only "unreachable" leaves it open whether
\* the work was done.
Status(c) ==
    IF outcome[c] = "none" THEN "new"
    ELSE IF outcome[c] = "waiting" THEN "open"
    ELSE IF outcome[c] = "ok" THEN "ok"
    ELSE IF outcome[c] = "unreachable" THEN "unknown" ELSE "failed"

Contract == INSTANCE ToolContract WITH
    status <- [c \in Calls |-> Status(c)], done <- carried

\* Every call keeps the contract: at most one execution, none behind an error
\* that is not "unreachable", and none after it was reported (client.py:144-160,
\* tools/*.py).
ContractKept == Contract!Spec

\* errors.py:11: "could not be reached at all (connection refused, DNS,
\* timeout)".  False: a timeout says nothing of what the API does.
UnreachableDidNothing == \A c \in carried : outcome[c] # "unreachable"

\* incident-tools.spec.md, BEH-10: "the API's 5xx body passed through verbatim".
\* False: the 500 of an unhandled exception is plain text.
ServerErrorIsPassedOn == \A c \in Calls : outcome[c] = "undecodable" => wire[c] # "crashed"
=============================================================================

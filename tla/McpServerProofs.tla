-------------------------- MODULE McpServerProofs --------------------------
(***************************************************************************)
(* The MCP server and the sessions that test it: theorems about McpGateway *)
(* and about E2eSession, for any callers, requests, breaches and bounds.   *)
(***************************************************************************)
EXTENDS McpGateway, E2eSession, TLAPS

-----------------------------------------------------------------------------
(***************************************************************************)
(* McpGateway                                                              *)
(***************************************************************************)

\* What becomes of the request of a call, and what its caller is told, fit.
Fits(c) ==
    /\ c \in carried <=> wire[c] = "done"
    /\ wire[c] = "none" <=> outcome[c] \in {"none", "refused", "unconfigured"}
    /\ outcome[c] = "ok" => wire[c] = "done"
    /\ outcome[c] = "api_error" => wire[c] = "rejected"
    /\ outcome[c] = "undecodable" => wire[c] \in {"crashed", "redirected"}
    /\ wire[c] = "rejected" => Rejects(Wants(c))
    /\ wire[c] # "none" => Accepts(Wants(c))

WireFits == \A c \in Calls : Fits(c)

\* A caller has been told of an error by every call before its last one.
CallsInOrder ==
    \A c, d \in Calls :
        c[1] = d[1] /\ c[2] < d[2] /\ outcome[d] # "none" => outcome[c] \in Errors

IInv == TypeOK /\ WireFits /\ CallsInOrder

-----------------------------------------------------------------------------
(***************************************************************************)
(* Type correctness                                                        *)
(***************************************************************************)

\* A call that goes to an outcome keeps the type of the outcomes.
LEMMA GoesTyped ==
    ASSUME TypeOK, NEW c \in Calls, NEW r \in Errors \cup {"none", "waiting", "ok"}, Goes(c, r)
    PROVE  outcome' \in [Calls -> Errors \cup {"none", "waiting", "ok"}]
BY DEF TypeOK, Goes

LEMMA PutsTyped ==
    ASSUME TypeOK, NEW c \in Calls, NEW m \in Wires, Puts(c, m)
    PROVE  wire' \in [Calls -> Wires]
BY DEF TypeOK, Puts

\* Every step keeps the types.
LEMMA TypeStep == TypeOK /\ [Next]_vars => TypeOK'
<1> SUFFICES ASSUME TypeOK, [Next]_vars PROVE TypeOK'
  OBVIOUS
<1>1. CASE UNCHANGED vars
  BY <1>1 DEF vars, TypeOK, Calls
<1>2. CASE Kill
  <2>1. \A c \in Calls : wire[c] \in Wires
    BY DEF TypeOK
  <2>2. wire' \in [Calls -> Wires]
    BY <1>2, <2>1 DEF Kill, Wires
  <2>3. kills' \in Nat
    BY <1>2 DEF Kill, TypeOK
  <2> QED  BY <1>2, <2>2, <2>3 DEF Kill, TypeOK
<1>3. CASE Boot
  BY <1>3 DEF Boot, TypeOK
<1>4. ASSUME NEW c \in Calls, Refuse(c) \/ NotConfigured(c) \/ Unreachable(c)
      PROVE  TypeOK'
  <2>1. PICK r \in Errors : Goes(c, r)
    BY <1>4 DEF Refuse, NotConfigured, Unreachable, Errors
  <2>2. outcome' \in [Calls -> Errors \cup {"none", "waiting", "ok"}]
    BY <2>1, GoesTyped
  <2> QED  BY <1>4, <2>2 DEF Refuse, NotConfigured, Unreachable, TypeOK
<1>5. ASSUME NEW c \in Calls, Send(c) PROVE TypeOK'
  <2>1. outcome' \in [Calls -> Errors \cup {"none", "waiting", "ok"}]
    BY <1>5, GoesTyped DEF Send
  <2>2. wire' \in [Calls -> Wires]
    BY <1>5, PutsTyped DEF Send, Wires
  <2> QED  BY <1>5, <2>1, <2>2 DEF Send, TypeOK
<1>6. ASSUME NEW c \in Calls, Carry(c) \/ Reject(c) \/ Redirect(c) \/ Crash(c)
      PROVE  TypeOK'
  <2>1. PICK m \in Wires : Answer(c, m)
    BY <1>6 DEF Carry, Reject, Redirect, Crash, Wires
  <2>2. wire' \in [Calls -> Wires]
    BY <2>1, PutsTyped DEF Answer
  <2>3. carried' \subseteq Calls
    BY <1>6 DEF Carry, Reject, Redirect, Crash, TypeOK
  <2> QED  BY <2>1, <2>2, <2>3 DEF Answer, TypeOK
<1>7. ASSUME NEW c \in Calls, Receive(c) PROVE TypeOK'
  <2>1. Result(wire[c]) \in Errors \cup {"none", "waiting", "ok"}
    BY DEF Result, Errors
  <2>2. outcome' \in [Calls -> Errors \cup {"none", "waiting", "ok"}]
    BY <1>7, <2>1, GoesTyped DEF Receive
  <2> QED  BY <1>7, <2>2 DEF Receive, TypeOK
<1> QED  BY <1>1, <1>2, <1>3, <1>4, <1>5, <1>6, <1>7 DEF Next

-----------------------------------------------------------------------------
(***************************************************************************)
(* The wire and the outcomes                                               *)
(***************************************************************************)

\* The caller's request does not change.
LEMMA SameRequest ==
    ASSUME intent' = intent, NEW c
    PROVE  /\ Rejects(Wants(c))' <=> Rejects(Wants(c))
           /\ Accepts(Wants(c))' <=> Accepts(Wants(c))
BY DEF Wants, Rejects, Accepts, Sent

\* A call whose part of the state does not change.
LEMMA FitsKept ==
    ASSUME NEW c, Fits(c), intent' = intent, wire'[c] = wire[c], outcome'[c] = outcome[c],
           c \in carried' <=> c \in carried
    PROVE  Fits(c)'
BY SameRequest DEF Fits

\* Every step keeps the wire and the outcomes together.
LEMMA WireStep == TypeOK /\ WireFits /\ [Next]_vars => WireFits'
<1> SUFFICES ASSUME TypeOK, WireFits, [Next]_vars, NEW d \in Calls
             PROVE  Fits(d)'
  BY DEF WireFits, Calls
<1>0. Fits(d)
  BY DEF WireFits
<1>t. /\ wire \in [Calls -> Wires]
      /\ outcome \in [Calls -> Errors \cup {"none", "waiting", "ok"}]
  BY DEF TypeOK
<1>i. intent' = intent
  BY DEF Next, vars, Kill, Boot, Refuse, NotConfigured, Send, Carry, Reject, Redirect,
         Crash, Answer, Receive, Unreachable
<1>w. /\ Rejects(Wants(d))' <=> Rejects(Wants(d))
      /\ Accepts(Wants(d))' <=> Accepts(Wants(d))
  BY <1>i, SameRequest
<1>1. CASE UNCHANGED vars \/ Boot
  BY <1>1, <1>0, FitsKept DEF vars, Boot
<1>2. CASE Kill
  <2>1. wire'[d] = IF wire[d] = "sent" THEN "lost" ELSE wire[d]
    BY <1>2, <1>t DEF Kill
  <2> QED  BY <1>2, <2>1, <1>0, <1>w DEF Kill, Fits
<1>3. ASSUME NEW c \in Calls,
             Refuse(c) \/ NotConfigured(c) \/ Send(c) \/ Carry(c) \/ Reject(c)
               \/ Redirect(c) \/ Crash(c) \/ Receive(c) \/ Unreachable(c),
             c # d
      PROVE  Fits(d)'
  <2>1. wire'[d] = wire[d] /\ outcome'[d] = outcome[d] /\ (d \in carried' <=> d \in carried)
    BY <1>3, <1>t DEF Refuse, NotConfigured, Send, Carry, Reject, Redirect, Crash, Answer,
                      Receive, Unreachable, Goes, Puts
  <2> QED  BY <2>1, <1>0, <1>i, FitsKept
<1>4. CASE Refuse(d) \/ NotConfigured(d)
  <2>1. /\ outcome[d] = "none" /\ outcome'[d] \in {"refused", "unconfigured"}
        /\ wire' = wire /\ carried' = carried
    BY <1>4, <1>t DEF Refuse, NotConfigured, MayCall, Goes
  <2> QED  BY <2>1, <1>0, <1>w DEF Fits
<1>5. CASE Send(d)
  <2>1. /\ outcome[d] = "none" /\ outcome'[d] = "waiting" /\ wire'[d] = "sent"
        /\ carried' = carried /\ Accepts(Wants(d))
    BY <1>5, <1>t DEF Send, MayCall, Goes, Puts
  <2> QED  BY <2>1, <1>0, <1>w DEF Fits
<1>6. ASSUME Carry(d) \/ Reject(d) \/ Redirect(d) \/ Crash(d)
      PROVE  Fits(d)'
  <2>1. wire[d] = "sent" /\ outcome' = outcome
    BY <1>6 DEF Carry, Reject, Redirect, Crash, Answer
  <2>2. outcome[d] \in {"waiting", "unreachable"}
    BY <2>1, <1>0, <1>t DEF Fits, Errors
  <2>3. CASE Carry(d)
    <3>1. wire'[d] = "done" /\ d \in carried'
      BY <2>3, <1>t DEF Carry, Answer, Puts
    <3> QED  BY <3>1, <2>1, <2>2, <1>0, <1>w DEF Fits
  <2>4. CASE Reject(d)
    <3>1. wire'[d] = "rejected" /\ carried' = carried /\ Rejects(Wants(d))
      BY <2>4, <1>t DEF Reject, Answer, Puts
    <3> QED  BY <3>1, <2>1, <2>2, <1>0, <1>w DEF Fits
  <2>5. CASE Redirect(d) \/ Crash(d)
    <3>1. wire'[d] \in {"redirected", "crashed"} /\ carried' = carried
      BY <2>5, <1>t DEF Redirect, Crash, Answer, Puts
    <3> QED  BY <3>1, <2>1, <2>2, <1>0, <1>w DEF Fits
  <2> QED  BY <1>6, <2>3, <2>4, <2>5
<1>7. CASE Receive(d)
  <2>1. /\ outcome[d] = "waiting" /\ outcome'[d] = Result(wire[d])
        /\ wire[d] \in {"done", "rejected", "crashed", "redirected"}
        /\ wire' = wire /\ carried' = carried
    BY <1>7, <1>t DEF Receive, Goes
  <2>2. /\ wire[d] = "done" => outcome'[d] = "ok"
        /\ wire[d] = "rejected" => outcome'[d] = "api_error"
        /\ wire[d] \in {"crashed", "redirected"} => outcome'[d] = "undecodable"
    BY <2>1 DEF Result
  <2> QED  BY <2>1, <2>2, <1>0, <1>w DEF Fits
<1>8. CASE Unreachable(d)
  <2>1. outcome[d] = "waiting" /\ outcome'[d] = "unreachable" /\ wire' = wire /\ carried' = carried
    BY <1>8, <1>t DEF Unreachable, Goes
  <2> QED  BY <2>1, <1>0, <1>w DEF Fits
<1> QED  BY <1>1, <1>2, <1>3, <1>4, <1>5, <1>6, <1>7, <1>8 DEF Next

-----------------------------------------------------------------------------
(***************************************************************************)
(* The order of a caller's calls                                           *)
(***************************************************************************)

\* No call that has ended with an error, or has not ended, goes back to "none",
\* and a call begins only after an error of the one before it.
LEMMA OrderStep == TypeOK /\ CallsInOrder /\ [Next]_vars => CallsInOrder'
<1> SUFFICES ASSUME TypeOK, CallsInOrder, [Next]_vars,
                    NEW c \in Calls, NEW d \in Calls,
                    c[1] = d[1], c[2] < d[2], outcome'[d] # "none"
             PROVE  outcome'[c] \in Errors
  BY DEF CallsInOrder, Calls
<1>t. outcome \in [Calls -> Errors \cup {"none", "waiting", "ok"}]
  BY DEF TypeOK
<1>o. outcome[d] # "none" => outcome[c] \in Errors
  BY DEF CallsInOrder
<1>n. "none" \notin Errors /\ "waiting" \notin Errors
  BY DEF Errors
<1>1. CASE outcome' = outcome
  BY <1>1, <1>o
<1>2. ASSUME NEW e \in Calls, MayCall(e), NEW r, Goes(e, r)
      PROVE  outcome'[c] \in Errors
  <2>1. outcome[e] = "none" /\ \A x \in Calls : x # e => outcome'[x] = outcome[x]
    BY <1>2, <1>t DEF MayCall, Goes
  <2>2. CASE e # d
    BY <2>1, <2>2, <1>o, <1>n
  <2>3. CASE e = d
    <3> DEFINE b == <<d[1], d[2] - 1>>
    <3>1. /\ c = <<c[1], c[2]>> /\ d = <<d[1], d[2]>>
          /\ c[2] \in Nat /\ d[2] \in Nat /\ c[2] >= 1 /\ d[2] > 1 /\ c[2] <= d[2] - 1
          /\ b \in Calls
      BY GatewayAssumption DEF Calls
    <3>2. outcome[b] \in Errors
      BY <1>2, <2>3, <3>1 DEF MayCall
    <3>3. c # b => c[2] < b[2]
      BY <3>1
    <3>4. outcome[c] \in Errors
      <4>1. CASE c = b
        BY <4>1, <3>2
      <4>2. CASE c # b
        BY <4>2, <3>1, <3>2, <3>3, <1>n DEF CallsInOrder
      <4> QED  BY <4>1, <4>2
    <3> QED  BY <3>4, <2>1, <2>3, <1>n
  <2> QED  BY <2>2, <2>3
<1>3. ASSUME NEW e \in Calls, outcome[e] = "waiting", NEW r, Goes(e, r), r # "none"
      PROVE  outcome'[c] \in Errors
  <2>1. \A x \in Calls : x # e => outcome'[x] = outcome[x]
    BY <1>3, <1>t DEF Goes
  <2>2. outcome[d] # "none"
    BY <1>3, <2>1
  <2> QED  BY <1>3, <2>1, <2>2, <1>o, <1>n
<1>4. CASE UNCHANGED vars \/ Kill \/ Boot
  BY <1>4, <1>1 DEF vars, Kill, Boot
<1>5. ASSUME NEW e \in Calls, Carry(e) \/ Reject(e) \/ Redirect(e) \/ Crash(e)
      PROVE  outcome'[c] \in Errors
  BY <1>5, <1>1 DEF Carry, Reject, Redirect, Crash, Answer
<1>6. ASSUME NEW e \in Calls, Refuse(e) \/ NotConfigured(e) \/ Send(e)
      PROVE  outcome'[c] \in Errors
  BY <1>6, <1>2 DEF Refuse, NotConfigured, Send
<1>7. ASSUME NEW e \in Calls, Receive(e) \/ Unreachable(e)
      PROVE  outcome'[c] \in Errors
  <2>1. Result(wire[e]) # "none"
    BY DEF Result
  <2> QED  BY <1>7, <2>1, <1>3 DEF Receive, Unreachable
<1> QED  BY <1>4, <1>5, <1>6, <1>7 DEF Next

-----------------------------------------------------------------------------
\* The invariant holds at the start and is kept.
LEMMA Invariant == Spec => []IInv
<1>1. Init => IInv
  <2> SUFFICES ASSUME Init PROVE IInv
    OBVIOUS
  <2>1. TypeOK
    BY DEF Init, TypeOK, Wires
  <2>2. WireFits
    BY DEF Init, WireFits, Fits
  <2>3. CallsInOrder
    BY DEF Init, CallsInOrder
  <2> QED  BY <2>1, <2>2, <2>3 DEF IInv
<1>2. IInv /\ [Next]_vars => IInv'
  BY TypeStep, WireStep, OrderStep DEF IInv
<1> QED  BY <1>1, <1>2, PTL DEF Spec

\* The types of the variables, for any callers and requests.
THEOREM TypeCorrect == Spec => []TypeOK
<1>1. IInv => TypeOK
  BY DEF IInv
<1> QED  BY <1>1, Invariant, PTL

\* A retry duplicates only what was reported as unreachable.
THEOREM OnlyLostAnswersDuplicate == Spec => []DuplicateHasLostAnswer
<1>1. IInv => DuplicateHasLostAnswer
  <2> SUFFICES ASSUME IInv, NEW c \in carried, NEW d \in carried, c[1] = d[1], c[2] < d[2]
               PROVE  outcome[c] = "unreachable"
    BY DEF DuplicateHasLostAnswer
  <2>1. c \in Calls /\ d \in Calls
    BY DEF IInv, TypeOK
  <2>2. Fits(c) /\ Fits(d)
    BY <2>1 DEF IInv, WireFits
  <2>3. outcome[d] # "none"
    BY <2>2 DEF Fits
  <2>4. outcome[c] \in Errors
    BY <2>1, <2>3 DEF IInv, CallsInOrder
  <2> QED  BY <2>2, <2>4 DEF Fits, Errors
<1> QED  BY <1>1, Invariant, PTL

\* No error of the API is about an argument that was left out or null.
THEOREM RejectionsAreAboutValues == Spec => []RejectedForAValue
<1>1. IInv => RejectedForAValue
  <2> SUFFICES ASSUME IInv, NEW c \in Calls, outcome[c] = "api_error"
               PROVE  \E a \in DOMAIN Wants(c).args : Wants(c).args[a] \in {"bad", "empty"}
    BY DEF RejectedForAValue
  <2>1. Rejects(Wants(c)) /\ Accepts(Wants(c))
    BY DEF IInv, WireFits, Fits
  <2>2. IsRequest(Wants(c))
    BY GatewayAssumption DEF IInv, TypeOK, Wants, Calls
  <2>3. PICK a \in DOMAIN Sent(Wants(c)) : Sent(Wants(c))[a] # "good"
    BY <2>1 DEF Rejects
  <2>4. a \in DOMAIN Wants(c).args /\ Wants(c).args[a] # "null" /\ Wants(c).args[a] # "good"
    BY <2>3 DEF Sent
  <2>5. Wants(c).args[a] # "mistyped"
    BY <2>1, <2>4 DEF Accepts
  <2> QED  BY <2>2, <2>4, <2>5 DEF IsRequest, Values
<1> QED  BY <1>1, Invariant, PTL

-----------------------------------------------------------------------------
(***************************************************************************)
(* The contract                                                            *)
(***************************************************************************)
St == [c \in Calls |-> Status(c)]

\* What a step does to an outcome, in terms of the status.
LEMMA StatusStep ==
    ASSUME TypeOK, NEW c \in Calls, NEW r, Goes(c, r), NEW to,
           to = IF r = "none" THEN "new" ELSE IF r = "waiting" THEN "open"
                ELSE IF r = "ok" THEN "ok"
                ELSE IF r = "unreachable" THEN "unknown" ELSE "failed"
    PROVE  St' = [St EXCEPT ![c] = to]
<1>1. /\ outcome'[c] = r
      /\ \A d \in Calls : d # c => outcome'[d] = outcome[d]
  BY DEF TypeOK, Goes
<1>2. Status(c)' = to
  BY <1>1 DEF Status
<1>3. \A d \in Calls : d # c => Status(d)' = Status(d)
  BY <1>1 DEF Status
<1>4. St' = [d \in Calls |-> Status(d)']
  BY DEF St, Calls
<1> QED  BY <1>2, <1>3, <1>4 DEF St

\* Every step of the gateway is a step of the contract, or none.
LEMMA ContractStep == IInv /\ [Next]_vars => [Contract!Next]_(Contract!vars)
<1> SUFFICES ASSUME IInv, [Next]_vars
             PROVE  Contract!Next \/ (St' = St /\ carried' = carried)
  BY DEF Contract!vars, St
<1>t. TypeOK /\ (\A c \in Calls : Fits(c))
  BY DEF IInv, WireFits
<1>u. outcome' = outcome => St' = St
  BY DEF St, Status, Calls
<1>1. CASE UNCHANGED vars \/ Kill \/ Boot
  BY <1>1, <1>u DEF vars, Kill, Boot
<1>2. ASSUME NEW c \in Calls, Reject(c) \/ Redirect(c) \/ Crash(c)
      PROVE  St' = St /\ carried' = carried
  BY <1>2, <1>u DEF Reject, Redirect, Crash, Answer
<1>3. ASSUME NEW c \in Calls, Refuse(c) \/ NotConfigured(c)
      PROVE  Contract!Refuse(c)
  <2>1. PICK r \in {"refused", "unconfigured"} : Goes(c, r)
    BY <1>3 DEF Refuse, NotConfigured
  <2>2. St' = [St EXCEPT ![c] = "failed"]
    BY <2>1, <1>t, StatusStep
  <2>3. St[c] = "new" /\ carried' = carried
    BY <1>3 DEF Refuse, NotConfigured, MayCall, St, Status
  <2> QED  BY <2>2, <2>3 DEF Contract!Refuse, Contract!Step, St
<1>4. ASSUME NEW c \in Calls, Send(c)
      PROVE  Contract!Begin(c)
  <2>1. St' = [St EXCEPT ![c] = "open"]
    BY <1>4, <1>t, StatusStep DEF Send
  <2>2. St[c] = "new" /\ carried' = carried
    BY <1>4 DEF Send, MayCall, St, Status
  <2> QED  BY <2>1, <2>2 DEF Contract!Begin, Contract!Step, St
<1>5. ASSUME NEW c \in Calls, Carry(c)
      PROVE  Contract!DoWork(c)
  <2>1. wire[c] = "sent" /\ outcome' = outcome /\ carried' = carried \cup {c}
    BY <1>5 DEF Carry, Answer
  <2>2. outcome[c] \in {"waiting", "unreachable"} /\ c \notin carried
    BY <2>1, <1>t DEF Fits, TypeOK, Errors
  <2>3. St[c] \in {"open", "unknown"}
    BY <2>2 DEF St, Status
  <2> QED  BY <2>1, <2>2, <2>3, <1>u DEF Contract!DoWork, St
<1>6. ASSUME NEW c \in Calls, Receive(c)
      PROVE  Contract!Succeed(c) \/ Contract!Fail(c)
  <2>1. /\ outcome[c] = "waiting" /\ Goes(c, Result(wire[c])) /\ carried' = carried
        /\ wire[c] \in {"done", "rejected", "crashed", "redirected"}
    BY <1>6 DEF Receive
  <2>2. St[c] = "open"
    BY <2>1 DEF St, Status
  <2>3. CASE wire[c] = "done"
    <3>1. Goes(c, "ok")
      BY <2>1, <2>3 DEF Result
    <3>2. St' = [St EXCEPT ![c] = "ok"]
      BY <3>1, <1>t, StatusStep
    <3>3. c \in carried
      BY <2>3, <1>t DEF Fits
    <3> QED  BY <2>1, <2>2, <3>2, <3>3 DEF Contract!Succeed, Contract!Step, St
  <2>4. CASE wire[c] # "done"
    <3>1. PICK r \in {"api_error", "undecodable"} : Goes(c, r)
      BY <2>1, <2>4 DEF Result
    <3>2. St' = [St EXCEPT ![c] = "failed"]
      BY <3>1, <1>t, StatusStep
    <3>3. c \notin carried
      BY <2>4, <1>t DEF Fits
    <3> QED  BY <2>1, <2>2, <3>2, <3>3 DEF Contract!Fail, Contract!Step, St
  <2> QED  BY <2>3, <2>4
<1>7. ASSUME NEW c \in Calls, Unreachable(c)
      PROVE  Contract!GiveUp(c)
  <2>1. St' = [St EXCEPT ![c] = "unknown"]
    BY <1>7, <1>t, StatusStep DEF Unreachable
  <2>2. St[c] = "open" /\ carried' = carried
    BY <1>7 DEF Unreachable, St, Status
  <2> QED  BY <2>1, <2>2 DEF Contract!GiveUp, Contract!Step, St
<1> QED  BY <1>1, <1>2, <1>3, <1>4, <1>5, <1>6, <1>7 DEF Next, Contract!Next

\* Tool calls keep the contract of ToolContract, whatever the API and the
\* network do, for any callers, requests and retries.
THEOREM GatewayKeepsContract == Spec => ContractKept
<1>1. Init => Contract!Init
  BY DEF Init, Contract!Init, Status
<1>2. IInv /\ [Next]_vars => [Contract!Next]_(Contract!vars)
  BY ContractStep
<1> QED  BY <1>1, <1>2, Invariant, PTL DEF Spec, ContractKept, Contract!Spec

-----------------------------------------------------------------------------
(***************************************************************************)
(* E2eSession: the processes                                               *)
(***************************************************************************)
Contexts == {"idle", "polling", "yielded", "finally", "waiting", "left"}
Processes == {"none", "booting", "up", "stopping", "dead"}

\* Before a server is started, and after its context manager, nothing runs.
Reaped ==
    /\ ctx \in [Servers -> Contexts] /\ proc \in [Servers -> Processes]
    /\ \A p \in Servers :
         /\ ctx[p] = "idle" => proc[p] = "none"
         /\ ctx[p] = "left" => proc[p] \in {"none", "dead"}

\* Whatever the driver does about a server, it leaves none running behind it.
LEMMA DriveReaped ==
    ASSUME Reaped, NEW p \in Servers, DriveServer(p)
    PROVE  Reaped'
<1> USE DEF Reaped, Contexts, Processes, Servers, Set, Moves, Becomes
<1>1. CASE PollExited(p)
  BY <1>1 DEF PollExited
<1>2. CASE PollAnswered(p)
  BY <1>2 DEF PollAnswered
<1>3. CASE PollMissed(p)
  BY <1>3 DEF PollMissed
<1>4. CASE PollTimesOut(p)
  BY <1>4 DEF PollTimesOut
<1>5. CASE FinallyDead(p)
  BY <1>5 DEF FinallyDead
<1>6. CASE Terminate(p)
  BY <1>6 DEF Terminate
<1>7. CASE WaitEnds(p)
  BY <1>7 DEF WaitEnds
<1>8. CASE WaitExpires(p)
  BY <1>8 DEF WaitExpires
<1> QED  BY <1>1, <1>2, <1>3, <1>4, <1>5, <1>6, <1>7, <1>8 DEF DriveServer

LEMMA ReapedStep == Reaped /\ [SessionNext]_sessionVars => Reaped'
<1> SUFFICES ASSUME Reaped, [SessionNext]_sessionVars PROVE Reaped'
  OBVIOUS
<1>1. CASE UNCHANGED <<ctx, proc>>
  BY <1>1 DEF Reaped
<1>2. ASSUME NEW succeeds \in BOOLEAN, Seed(succeeds) PROVE Reaped'
  BY <1>2 DEF Seed, Popen, Reaped, Contexts, Processes, Servers, Set, Moves
<1>3. CASE StartMcp
  BY <1>3 DEF StartMcp, Popen, Reaped, Contexts, Processes, Servers, Set, Moves
<1>4. CASE Unwind
  BY <1>4 DEF Unwind, Reaped, Contexts, Processes, Servers, Set, Moves
<1>5. CASE Happens
  <2>1. PICK p \in Servers : Boots(p) \/ Exits(p) \/ Stops(p) \/ TakePort(p)
    BY <1>5 DEF Happens
  <2> QED
    BY <2>1 DEF Boots, Exits, Stops, TakePort, Reaped, Contexts, Processes, Servers, Set, Becomes
<1>6. \A p \in Servers : RequestTo(p) => UNCHANGED <<ctx, proc>>
  BY DEF RequestTo
<1>7. CASE RunFixture
  BY <1>1, <1>6, <1>7 DEF RunFixture, serverVars, Servers
<1>8. ASSUME NEW p \in Servers, RunTest(p) PROVE Reaped'
  BY <1>1, <1>6, <1>8 DEF RunTest
<1>9. CASE PatchingTest
  BY <1>1, <1>6, <1>9 DEF PatchingTest, Servers
<1>10. CASE UNCHANGED sessionVars
  BY <1>1, <1>10 DEF sessionVars, serverVars
<1> QED
  BY <1>2, <1>3, <1>4, <1>5, <1>7, <1>8, <1>9, <1>10, DriveReaped
  DEF SessionNext, Driver, Drive, EndSession

\* When the session is over no server of it runs, whatever failed: the seed, a
\* start, a test or a server that does not stop (servers.py:91-127, 163-198).
THEOREM SessionLeavesNothing == SessionSpec => []NothingLeftRunning
<1>1. SessionInit => Reaped
  BY DEF SessionInit, ServersInit, Reaped, Contexts, Processes, Servers
<1>2. Reaped => NothingLeftRunning
  BY DEF Reaped, NothingLeftRunning, Over, Running, Servers, Processes
<1> QED  BY <1>1, <1>2, ReapedStep, PTL DEF SessionSpec

-----------------------------------------------------------------------------
(***************************************************************************)
(* E2eSession: the fixture of a breached incident                          *)
(***************************************************************************)
Listed(number) == Contains(breached, number)

Places == {"idle", "scan", "look", "reopen", "create", "poll", "returned", "unavailable", "failed"}

Seeded == 1..Incidents

Locals == [pc : Places, page : Nat \ {0}, items : Seq(Seeded), scanned : Nat,
           candidate : SUBSET Seeded, created : Nat, result : SUBSET Seeded, polls : Nat]

\* What the fixture holds is listed; it looks at every page before it gives up
\* on finding something; and nobody touches what it returns before the caller
\* goes on.
Scanning ==
    /\ fx \in Locals /\ breached \in Seq(Seeded) /\ last \in Nat
    /\ \A i \in DOMAIN fx.items : Listed(fx.items[i])
    /\ \A number \in fx.candidate \cup fx.result : Listed(number)
    /\ At("look") => fx.items # <<>>
    /\ fx.pc \in {"scan", "look"} /\ fx.candidate = {} => fx.page = 1
    /\ fx.pc \in {"create", "poll", "unavailable"} \/ last > Incidents => breached = <<>>
    /\ fx.result = {} <=> ~At("returned")
    /\ fx.result \subseteq open

LEMMA FreshLocals ==
    ASSUME NEW pc \in Places
    PROVE  /\ Fresh(pc) \in Locals /\ Fresh(pc).pc = pc /\ Fresh(pc).items = <<>>
           /\ Fresh(pc).candidate = {} /\ Fresh(pc).result = {} /\ Fresh(pc).page = 1
BY DEF Fresh, Locals

LEMMA ScanningInit == FixtureInit => Scanning
<1> SUFFICES ASSUME FixtureInit PROVE Scanning
  OBVIOUS
<1>1. fx = Fresh("idle") /\ last = Incidents /\ breached \in Seq(Seeded) /\ Incidents \in Nat
  BY BreachedAssumption DEF FixtureInit, Seeded
<1> QED  BY <1>1, FreshLocals DEF Scanning, Places, At

\* Between the calls, and where one begins or ends, the fixture holds nothing.
LEMMA BetweenCalls ==
    ASSUME Scanning, UNCHANGED <<breached, last>>,
           \/ fx' \in {Fresh("idle"), Fresh("scan")}
           \/ UNCHANGED <<fx, open>>
           \/ UNCHANGED fx /\ At("idle")
    PROVE  Scanning'
<1>1. CASE fx' \in {Fresh("idle"), Fresh("scan")}
  BY <1>1, FreshLocals DEF Scanning, Places, At
<1>2. CASE UNCHANGED <<fx, open>>
  BY <1>2 DEF Scanning, Listed, At
<1>3. CASE UNCHANGED fx /\ At("idle")
  BY <1>3 DEF Scanning, Listed, At
<1> QED  BY <1>1, <1>2, <1>3

\* A page without records is the first one only where nothing is listed.
LEMMA GetPageScanning == Scanning /\ GetPage => Scanning'
<1> SUFFICES ASSUME Scanning, GetPage PROVE Scanning'
  OBVIOUS
<1> DEFINE first == (fx.page - 1) * PageSize
           end == IF first + PageSize < Len(breached) THEN first + PageSize ELSE Len(breached)
           items == SubSeq(breached, first + 1, end)
<1>1. /\ fx' = IF items = <<>> THEN Scanned(fx) ELSE [fx EXCEPT !.pc = "look", !.items = items]
      /\ UNCHANGED <<breached, open, last>>
  BY DEF GetPage
<1>2. fx \in Locals /\ breached \in Seq(Seeded) /\ At("scan") /\ fx.result = {}
  BY DEF Scanning, GetPage, At
<1>3. PageSize \in Nat \ {0}
  BY BreachedAssumption
<1>4. first \in Nat /\ end \in Nat /\ end <= Len(breached) /\ end <= first + PageSize
  <2>1. fx.page \in Nat /\ fx.page >= 1
    BY <1>2 DEF Locals
  <2>2. first \in Nat
    BY <2>1, <1>3
  <2> HIDE DEF first
  <2> QED  BY <2>2, <1>2, <1>3
<1> HIDE DEF first, end
<1>5. items \in Seq(Seeded) /\ \A i \in DOMAIN items : Listed(items[i])
  <2>1. CASE first + 1 <= end
    BY <2>1, <1>2, <1>4 DEF Listed, Contains
  <2>2. CASE end < first + 1
    BY <2>2, <1>2, <1>4
  <2> QED  BY <2>1, <2>2, <1>4
<1>6. items = <<>> /\ fx.page = 1 => breached = <<>>
  <2> SUFFICES ASSUME items = <<>>, fx.page = 1, Len(breached) > 0 PROVE FALSE
    BY <1>2
  <2>1. first = 0
    BY <1>3 DEF first
  <2>2. end >= 1
    BY <1>3, <1>2, <2>1 DEF end
  <2> QED  BY <2>1, <2>2, <1>4, <1>2
<1> HIDE DEF items
<1>7. CASE items = <<>>
  <2>1. fx' = [fx EXCEPT !.pc = IF fx.candidate = {} THEN "create" ELSE "reopen"]
    BY <1>1, <1>7 DEF Scanned
  <2>2. fx.candidate = {} => breached = <<>>
    BY <1>2, <1>6, <1>7 DEF Scanning, At
  <2> QED  BY <2>1, <2>2, <1>1, <1>2 DEF Scanning, Locals, Places, Listed, At
<1>8. CASE items # <<>>
  <2>1. fx' = [fx EXCEPT !.pc = "look", !.items = items]
    BY <1>1, <1>8
  <2> QED  BY <2>1, <1>8, <1>1, <1>2, <1>5 DEF Scanning, Locals, Places, Listed, At
<1> QED  BY <1>7, <1>8

\* The locals of a fixture that returns an incident.
LEMMA ReturnsLocals ==
    ASSUME NEW f \in Locals, NEW number \in Seeded
    PROVE  LET r == Returns(f, number)
           IN  /\ r \in Locals /\ r.pc = "returned" /\ r.result = {number}
               /\ r.items = f.items /\ r.candidate = f.candidate
<1> DEFINE r == Returns(f, number)
<1>1. r = [g \in DOMAIN f |-> IF g = "result" THEN {number} ELSE IF g = "pc" THEN "returned" ELSE f[g]]
  BY DEF Locals, Returns
<1> HIDE DEF r
<1>2. /\ r \in Locals /\ r.pc = "returned" /\ r.result = {number}
      /\ r.items = f.items /\ r.candidate = f.candidate
  BY <1>1 DEF Locals, Places
<1> QED  BY <1>2 DEF r

\* An incident that is looked at is open, or the candidate if there was none.
LEMMA LookAtScanning == Scanning /\ LookAt => Scanning'
<1> SUFFICES ASSUME Scanning, LookAt PROVE Scanning'
  OBVIOUS
<1> DEFINE number == Head(fx.items)
           looked == [fx EXCEPT !.items = Tail(@), !.scanned = @ + 1]
           kept == IF fx.candidate = {} THEN [looked EXCEPT !.candidate = {number}] ELSE looked
<1>1. /\ fx' = IF number \in open THEN Returns(looked, number)
               ELSE IF kept.items = <<>> THEN AfterPage(kept) ELSE kept
      /\ UNCHANGED <<breached, open, last>>
  BY DEF LookAt
<1>2. fx \in Locals /\ At("look") /\ fx.result = {} /\ fx.items # <<>>
  BY DEF Scanning, LookAt, At
<1>3. number \in Seeded /\ Listed(number) /\ Tail(fx.items) \in Seq(Seeded)
  BY <1>2 DEF Scanning, Locals
<1>4. \A i \in DOMAIN Tail(fx.items) : Listed(Tail(fx.items)[i])
  BY <1>2 DEF Scanning, Locals
<1>5. /\ looked \in Locals /\ looked.pc = "look" /\ looked.result = {}
      /\ looked.items = Tail(fx.items) /\ looked.candidate = fx.candidate
  <2>1. looked = [f \in DOMAIN fx |-> IF f = "items" THEN Tail(fx.items)
                                    ELSE IF f = "scanned" THEN fx.scanned + 1 ELSE fx[f]]
    BY <1>2 DEF Locals
  <2> HIDE DEF looked
  <2>2. DOMAIN fx = {"pc", "page", "items", "scanned", "candidate", "created", "result", "polls"}
    BY <1>2 DEF Locals
  <2>3. /\ looked.pc = fx.pc /\ looked.page = fx.page /\ looked.items = Tail(fx.items)
        /\ looked.scanned = fx.scanned + 1 /\ looked.candidate = fx.candidate
        /\ looked.created = fx.created /\ looked.result = fx.result /\ looked.polls = fx.polls
    BY <2>1, <2>2
  <2>4. /\ fx.pc \in Places /\ fx.page \in Nat \ {0} /\ Tail(fx.items) \in Seq(Seeded)
        /\ fx.scanned + 1 \in Nat /\ fx.candidate \in SUBSET Seeded
        /\ fx.created \in Nat /\ fx.result \in SUBSET Seeded /\ fx.polls \in Nat
    BY <1>2, <1>3 DEF Locals
  <2>5. looked = [f \in DOMAIN looked |-> looked[f]]
        /\ DOMAIN looked = {"pc", "page", "items", "scanned", "candidate", "created", "result", "polls"}
    BY <2>1, <2>2
  <2>6. looked \in Locals
    BY <2>3, <2>4, <2>5 DEF Locals
  <2> QED  BY <2>3, <2>6, <1>2 DEF At
<1> HIDE DEF looked
<1>6. /\ kept \in Locals /\ kept.pc = "look" /\ kept.result = {}
      /\ kept.items = Tail(fx.items) /\ kept.candidate # {}
      /\ \A n \in kept.candidate : Listed(n)
  BY <1>2, <1>3, <1>5 DEF Scanning, Locals
<1> HIDE DEF kept, number
<1>7. CASE number \in open
  <2>1. fx' = Returns(looked, number)
    BY <1>1, <1>7
  <2>2. /\ fx' \in Locals /\ fx'.pc = "returned" /\ fx'.result = {number}
        /\ fx'.items = Tail(fx.items) /\ fx'.candidate = fx.candidate
    BY <2>1, ReturnsLocals, <1>3, <1>5
  <2> QED  BY <2>2, <1>7, <1>1, <1>2, <1>3, <1>4 DEF Scanning, Listed, At
<1>8. CASE number \notin open /\ kept.items # <<>>
  <2>1. fx' = kept
    BY <1>1, <1>8
  <2> QED  BY <2>1, <1>8, <1>1, <1>2, <1>4, <1>6 DEF Scanning, Locals, Places, Listed, At
<1>9. CASE number \notin open /\ kept.items = <<>>
  <2>1. fx' = [kept EXCEPT !.pc = "reopen"] \/ fx' = [kept EXCEPT !.pc = "scan", !.page = @ + 1]
    BY <1>1, <1>6, <1>9 DEF AfterPage, Scanned
  <2>2. /\ fx' \in Locals /\ fx'.pc \in {"reopen", "scan"} /\ fx'.result = {}
        /\ fx'.items = kept.items /\ fx'.candidate = kept.candidate
    <3>1. CASE fx' = [kept EXCEPT !.pc = "reopen"]
      BY <3>1, <1>6 DEF Locals, Places
    <3>2. CASE fx' = [kept EXCEPT !.pc = "scan", !.page = @ + 1]
      <4>1. fx' = [f \in DOMAIN kept |-> IF f = "page" THEN kept.page + 1
                                        ELSE IF f = "pc" THEN "scan" ELSE kept[f]]
        BY <3>2, <1>6 DEF Locals
      <4> QED  BY <4>1, <1>6 DEF Locals, Places
    <3> QED  BY <3>1, <3>2, <2>1
  <2> QED  BY <2>2, <1>9, <1>1, <1>2, <1>4, <1>6 DEF Scanning, Listed, At
<1> QED  BY <1>7, <1>8, <1>9

LEMMA ReopenScanning == Scanning /\ Reopen => Scanning'
<1> SUFFICES ASSUME Scanning, Reopen PROVE Scanning'
  OBVIOUS
<1>1. PICK number \in fx.candidate :
        /\ open' = open \cup {number}
        /\ fx' = [fx EXCEPT !.pc = "returned", !.result = {number}]
  BY DEF Reopen, Returns
<1>2. At("reopen") /\ UNCHANGED <<breached, last>>
  BY DEF Reopen
<1> QED  BY <1>1, <1>2 DEF Scanning, Locals, Places, Listed, At

LEMMA CreateScanning == Scanning /\ CreateIncident => Scanning'
<1> SUFFICES ASSUME Scanning, CreateIncident PROVE Scanning'
  OBVIOUS
<1>1. breached = <<>> /\ fx.result = {} /\ fx \in Locals /\ last' \in Nat
  BY DEF Scanning, CreateIncident, At
<1>2. fx' = [fx EXCEPT !.pc = "poll", !.created = last'] /\ UNCHANGED breached
  BY DEF CreateIncident
<1>3. /\ fx' \in Locals /\ fx'.pc = "poll" /\ fx'.result = {}
      /\ fx'.items = fx.items /\ fx'.candidate = fx.candidate
  BY <1>1, <1>2 DEF Locals, Places
<1> QED  BY <1>1, <1>2, <1>3 DEF Scanning, Listed, At

LEMMA PollScanning == Scanning /\ PollSla => Scanning'
<1> SUFFICES ASSUME Scanning, PollSla PROVE Scanning'
  OBVIOUS
<1>1. breached = <<>> /\ ~Contains(breached, fx.created)
  BY DEF Scanning, PollSla, At, Contains
<1>2. /\ UNCHANGED <<breached, open, last>>
      /\ \/ fx' = [fx EXCEPT !.polls = fx.polls + 1]
         \/ fx' = [fx EXCEPT !.pc = "unavailable"]
  BY <1>1 DEF PollSla
<1>3. fx \in Locals /\ fx.pc = "poll" /\ fx.result = {}
  BY DEF Scanning, PollSla, At
<1>4. /\ fx' \in Locals /\ fx'.pc \in {"poll", "unavailable"} /\ fx'.result = {}
      /\ fx'.items = fx.items /\ fx'.candidate = fx.candidate
  <2>1. CASE fx' = [fx EXCEPT !.polls = fx.polls + 1]
    BY <1>3, <2>1 DEF Locals
  <2>2. CASE fx' = [fx EXCEPT !.pc = "unavailable"]
    BY <1>3, <2>2 DEF Locals, Places
  <2> QED  BY <1>2, <2>1, <2>2
<1> QED  BY <1>1, <1>2, <1>3, <1>4 DEF Scanning, Listed, At

LEMMA FailsScanning == Scanning /\ FixtureFails => Scanning'
<1> SUFFICES ASSUME Scanning, FixtureFails PROVE Scanning'
  OBVIOUS
<1>1. fx \in Locals /\ fx.result = {}
  BY DEF Scanning, FixtureFails, At
<1>2. fx' = [fx EXCEPT !.pc = "failed"] /\ UNCHANGED <<breached, open, last>>
  BY DEF FixtureFails
<1>3. /\ fx' \in Locals /\ fx'.pc = "failed" /\ fx'.result = {}
      /\ fx'.items = fx.items /\ fx'.candidate = fx.candidate
  BY <1>1, <1>2 DEF Locals, Places
<1> QED  BY <1>2, <1>3 DEF Scanning, Listed, At

LEMMA ScanningStep == Scanning /\ [SessionNext]_sessionVars => Scanning'
<1> SUFFICES ASSUME Scanning, [SessionNext]_sessionVars PROVE Scanning'
  OBVIOUS
<1>1. CASE UNCHANGED fixtureVars
  BY <1>1, BetweenCalls DEF fixtureVars
<1>2. CASE FixtureRequest
  BY <1>2, GetPageScanning, LookAtScanning, ReopenScanning, CreateScanning, PollScanning
  DEF FixtureRequest
<1>3. CASE FixtureFails
  BY <1>3, FailsScanning
<1>4. CASE CallFixture \/ FixtureEnds
  BY <1>4, BetweenCalls DEF CallFixture, FixtureEnds
<1>5. CASE PatchingTest
  <2>1. PICK number \in 1..last, opens \in BOOLEAN : TestPatches(number, opens)
    BY <1>5 DEF PatchingTest
  <2> QED  BY <2>1, BetweenCalls DEF TestPatches
<1> QED
  BY <1>1, <1>2, <1>3, <1>4, <1>5 DEF SessionNext, Driver, RunFixture, RunTest, EndSession, sessionVars

\* Whatever earlier tests and calls have left behind, the fixture returns an
\* incident that is listed as breached and is open; it creates one, or finds
\* none, only where nothing is listed (breached_sla_fixture.py:53-101).
THEOREM FixtureKeepsPromise == SessionSpec => []FixtureDelivers
<1>1. SessionInit => Scanning
  BY ScanningInit DEF SessionInit
<1>2. Scanning => FixtureDelivers
  BY DEF Scanning, FixtureDelivers, Listed, At
<1> QED  BY <1>1, <1>2, ScanningStep, PTL DEF SessionSpec
=============================================================================

---------------------------- MODULE Remediation ----------------------------
(***************************************************************************)
(* How the agent chains to the remediation agent, and the page that shows   *)
(* the result.  The last node of the graph (agent/nodes/chain_remediate.py) *)
(* calls the remediation agent (remediation_agent/main.py) through Envoy    *)
(* and OPA, and writes what it receives under one Redis key for all         *)
(* threads, remediation:latest.  RemediationPage.tsx polls that key through *)
(* the endpoints of worker_agent/main.py; the page, and every new           *)
(* invocation of the agent, delete it.                                      *)
(*                                                                         *)
(* A chain is one execution of the node: of any thread, or a second one of  *)
(* the same thread.  Each await of the node is a step of its own.  A poll   *)
(* is sent and read in one step: how long it is on its way before it is     *)
(* read cannot be told from a later poll.                                   *)
(*                                                                         *)
(* `reached` is a history variable; no action reads it.                     *)
(***************************************************************************)
EXTENDS Naturals, Sequences

CONSTANTS
  Chains,     \* executions of chain_remediate
  Findings,   \* Findings[c]: the findings c sends; the plan cache has their hash
  Faults,     \* what may go wrong, a subset of Fault
  MaxText,    \* bound: chunks of a plan
  MaxPolls    \* bound: polls under way

\* redis        a call of Redis fails; a SET or DEL may have been served nevertheless
\* services     AuthService, Envoy, OPA, the remediation agent or its model fails
\* crash        the process of the agent dies
\* network      a request of the page fails
\* overtaking   the answers to polls arrive in another order
Fault == {"redis", "services", "crash", "network", "overtaking"}

ASSUME RemediationAssumption ==
  /\ Faults \subseteq Fault
  /\ DOMAIN Findings = Chains
  /\ MaxText \in Nat
  /\ MaxPolls \in Nat \ {0}

Decision == {"NO_TOKEN", "UNKNOWN", "ALLOW", "DENY", "ERROR"}

\* A plan is empty or not; a summary without steps, which is what the agent makes of
\* an answer that is no JSON, is a plan.
Plan == {"none", "some"}

\* What the key holds: findings and intent are those of the chain, raw_text is
\* counted in chunks.
Payload == [chain : Chains, opa : Decision, plan : Plan,
            status : {"streaming", "done"}, text : 0 .. MaxText]
NoData  == [status |-> "no_data"]
Answer  == Payload \cup {NoData}

VARIABLES
  task,       \* task[c]: where chain_remediate is, and its local variables
  planCache,  \* the findings for which plan:<hash> holds a plan
  latest,     \* remediation:latest
  open,       \* RemediationPage is mounted
  result,     \* what it shows
  clearing,   \* handleClear() awaits the answer to its DELETE
  polls,      \* the answers under way to the page, oldest first
  reached     \* history: the chains whose findings got to the remediation agent

chainVars == <<task, planCache, reached>>
pageVars  == <<open, result, clearing, polls>>
vars      == <<chainVars, latest, pageVars>>

\* exchange, mark, call, final: the step it makes next; read, drain: it reads
\* the stream, and the agent has more to say or not; ended, failed: it has
\* returned, with or without its last write; lost: the process died.
Pc == {"new", "exchange", "mark", "call", "read", "drain", "final", "ended",
       "failed", "lost"}
Task == [pc : Pc, opa : Decision, plan : Plan, text : 0 .. MaxText]
NewTask == [pc |-> "new", opa |-> "UNKNOWN", plan |-> "none", text |-> 0]

\* The task leaves the loop over the stream with a decision; `accumulated` is not
\* read any more.
Leave(c, pc, opa) ==
  task' = [task EXCEPT ![c] = [@ EXCEPT !.pc = pc, !.opa = opa, !.text = 0]]

Init ==
  /\ task = [c \in Chains |-> NewTask]
  /\ planCache = {}
  /\ latest = NoData
  /\ open = FALSE
  /\ result = NoData
  /\ clearing = FALSE
  /\ polls = <<>>
  /\ reached = {}

-----------------------------------------------------------------------------
(* The node chain_remediate.                                               *)

\* _base_payload().
PayloadOf(c, status, text) ==
  [chain |-> c, opa |-> task[c].opa, plan |-> task[c].plan,
   status |-> status, text |-> text]

\* Faulty variant: a cached plan is served, as the code means to.
ServeCachedPlan(c) ==
  /\ task[c].pc = "new"
  /\ IF Findings[c] \in planCache
       THEN /\ task' = [task EXCEPT ![c] = [@ EXCEPT !.pc = "ended", !.opa = "ALLOW",
                                                     !.plan = "some"]]
            /\ latest' = [chain |-> c, opa |-> "ALLOW", plan |-> "some",
                          status |-> "done", text |-> 0]
       ELSE task' = [task EXCEPT ![c].pc = "exchange"] /\ UNCHANGED latest
  /\ UNCHANGED <<planCache, pageVars, reached>>

\* The node is entered, after a report whose remediation was approved.  Step 0:
\* whether the cache has a plan or not makes no difference: the branch
\* that would serve it reads intent_str, which is assigned further down only, and
\* the exception is swallowed, as is one of Redis.
CheckPlanCache(c) ==
  /\ task[c].pc = "new"
  /\ task' = [task EXCEPT ![c].pc = "exchange"]
  /\ UNCHANGED <<planCache, latest, pageVars, reached>>

\* Step 1: AuthService issues the OBO token, or there is none, for want of a user
\* token or because the exchange failed.
ExchangeToken(c) ==
  /\ task[c].pc = "exchange"
  /\ \/ task' = [task EXCEPT ![c].pc = "mark"]
     \/ task' = [task EXCEPT ![c] = [@ EXCEPT !.pc = "final", !.opa = "NO_TOKEN"]]
  /\ UNCHANGED <<planCache, latest, pageVars, reached>>

\* Step 2 begins: "streaming" is written, before the call.  If that fails, before or
\* after it was served, the node is over.
MarkStreaming(c) ==
  /\ task[c].pc = "mark"
  /\ \/ /\ latest' = PayloadOf(c, "streaming", 0)
        /\ task' = [task EXCEPT ![c].pc = "call"]
     \/ /\ "redis" \in Faults
        /\ task' = [task EXCEPT ![c].pc = "failed"]
        /\ latest' \in {latest, PayloadOf(c, "streaming", 0)}
  /\ UNCHANGED <<planCache, pageVars, reached>>

\* Faulty variant: another status is reported as such.
CallAgentByStatus(c) ==
  /\ task[c].pc = "call"
  /\ \/ /\ task' = [task EXCEPT ![c] = [@ EXCEPT !.pc = "read", !.opa = "ALLOW"]]
        /\ reached' = reached \cup {c}
     \/ /\ task' = [task EXCEPT ![c] = [@ EXCEPT !.pc = "final", !.opa = "503"]]
        /\ UNCHANGED reached
  /\ UNCHANGED <<planCache, latest, pageVars>>

\* The call: 403 from OPA, another status (read as ALLOW, whatever it is; without
\* an event in it unless it is 200), or no connection.
CallAgent(c) ==
  /\ task[c].pc = "call"
  /\ \/ /\ task' = [task EXCEPT ![c] = [@ EXCEPT !.pc = "final", !.opa = "DENY"]]
        /\ UNCHANGED reached
     \/ /\ task' = [task EXCEPT ![c] = [@ EXCEPT !.pc = "read", !.opa = "ALLOW"]]
        /\ reached' = reached \cup {c}
     \/ /\ "services" \in Faults
        /\ \/ task' = [task EXCEPT ![c] = [@ EXCEPT !.pc = "drain", !.opa = "ALLOW"]]
           \/ task' = [task EXCEPT ![c] = [@ EXCEPT !.pc = "final", !.opa = "ERROR"]]
        /\ UNCHANGED reached
  /\ UNCHANGED <<planCache, latest, pageVars>>

\* A chunk: what there is of the plan is written; a failure of the write, served or
\* not, ends the reading.
Chunk(c) ==
  /\ task[c].pc = "read"
  /\ task[c].text < MaxText
  /\ \/ /\ task' = [task EXCEPT ![c].text = @ + 1]
        /\ latest' = PayloadOf(c, "streaming", task[c].text + 1)
     \/ /\ "redis" \in Faults
        /\ Leave(c, "final", "ERROR")
        /\ latest' \in {latest, PayloadOf(c, "streaming", task[c].text + 1)}
  /\ UNCHANGED <<planCache, pageVars, reached>>

\* Faulty variant: the result is written where the plan arrives.
WriteDoneEvent(c) ==
  /\ task[c].pc = "read"
  /\ \E plan \in Plan :
       /\ task' = [task EXCEPT ![c] = [@ EXCEPT !.pc = "drain", !.plan = plan,
                                                !.text = 0]]
       /\ latest' = [PayloadOf(c, "done", 0) EXCEPT !.plan = plan]
  /\ UNCHANGED <<planCache, pageVars, reached>>

\* The event "done" with the plan, of which a summary that is a plan itself is
\* unwrapped; one that is not empty is cached, unless Redis fails.
DoneEvent(c) ==
  /\ task[c].pc = "read"
  /\ \E plan \in Plan :
       /\ task' = [task EXCEPT ![c] = [@ EXCEPT !.pc = "drain", !.plan = plan,
                                                !.text = 0]]
       /\ \/ planCache' = planCache \cup {Findings[c] : p \in {plan} \ {"none"}}
          \/ "redis" \in Faults /\ UNCHANGED planCache
  /\ UNCHANGED <<latest, pageVars, reached>>

\* The event "error": the model failed, or its answer is JSON but no object.
ErrorEvent(c) ==
  /\ "services" \in Faults
  /\ task[c].pc = "read"
  /\ Leave(c, "drain", "ERROR")
  /\ UNCHANGED <<planCache, latest, pageVars, reached>>

\* The stream ends.
StreamEnds(c) ==
  /\ task[c].pc = "drain"
  /\ task' = [task EXCEPT ![c].pc = "final"]
  /\ UNCHANGED <<planCache, latest, pageVars, reached>>

\* The stream breaks off, even after "done".
StreamBreaks(c) ==
  /\ "services" \in Faults
  /\ task[c].pc \in {"read", "drain"}
  /\ Leave(c, "final", "ERROR")
  /\ UNCHANGED <<planCache, latest, pageVars, reached>>

\* Faulty variant: the node ends where the decision is known.
WriteFinalUnlessDenied(c) ==
  /\ task[c].pc = "final"
  /\ IF task[c].opa = "ERROR" THEN UNCHANGED latest
                              ELSE latest' = PayloadOf(c, "done", 0)
  /\ task' = [task EXCEPT ![c].pc = "ended"]
  /\ UNCHANGED <<planCache, pageVars, reached>>

\* The last write, which may fail before or after it was served; in any case the node
\* returns the same decision and plan to the graph, from where the chat gets them.
WriteFinal(c) ==
  /\ task[c].pc = "final"
  /\ \/ /\ latest' = PayloadOf(c, "done", 0)
        /\ task' = [task EXCEPT ![c].pc = "ended"]
     \/ /\ "redis" \in Faults
        /\ task' = [task EXCEPT ![c].pc = "failed"]
        /\ latest' \in {latest, PayloadOf(c, "done", 0)}
  /\ UNCHANGED <<planCache, pageVars, reached>>

Step(c) ==
  \/ ExchangeToken(c) \/ MarkStreaming(c) \/ CallAgent(c)
  \/ Chunk(c) \/ DoneEvent(c) \/ ErrorEvent(c) \/ StreamEnds(c) \/ StreamBreaks(c)
  \/ WriteFinal(c)

-----------------------------------------------------------------------------
(* What else writes or deletes the key.                                    *)

\* The process of the agent dies, and with it every node under way.
Crash ==
  /\ "crash" \in Faults
  /\ \E c \in Chains : task[c].pc \notin {"new", "ended", "failed", "lost"}
  /\ task' = [c \in Chains |->
                IF task[c].pc \in {"new", "ended", "failed"} THEN task[c]
                ELSE [NewTask EXCEPT !.pc = "lost"]]
  /\ UNCHANGED <<planCache, latest, pageVars, reached>>

\* The key goes: /graph/invoke/stream of any thread deletes it, so does the page when
\* it is mounted, without waiting for it, and it expires after an hour without a
\* write.  (A DELETE that fails does nothing.)
Delete ==
  /\ latest # NoData
  /\ latest' = NoData
  /\ UNCHANGED <<chainVars, pageVars>>

-----------------------------------------------------------------------------
(* RemediationPage.                                                        *)

\* It is mounted: what it shows is its own.
OpenPage ==
  /\ ~open
  /\ open' = TRUE
  /\ UNCHANGED <<chainVars, latest, result, clearing, polls>>

\* It is closed: answers to come are for nobody.
ClosePage ==
  /\ open
  /\ open' = FALSE
  /\ result' = NoData
  /\ clearing' = FALSE
  /\ polls' = <<>>
  /\ UNCHANGED <<chainVars, latest>>

\* The timer fires, or the page becomes visible.  A poll that fails or finds "no_data"
\* leaves what is shown, and is as good as none.
Poll ==
  /\ open
  /\ latest # NoData
  /\ Len(polls) < MaxPolls
  /\ polls' = Append(polls, latest)
  /\ UNCHANGED <<chainVars, latest, open, result, clearing>>

Drop(i) == SubSeq(polls, 1, i - 1) \o SubSeq(polls, i + 1, Len(polls))

\* Faulty variant: the answers may come in any order.
ReceiveAnyOrder(i) ==
  /\ result' = polls[i]
  /\ polls' = Drop(i)
  /\ UNCHANGED <<chainVars, latest, open, clearing>>

\* Faulty variant: a result that is not complete is kept.
ReceiveStale(i) ==
  /\ i = 1 \/ "overtaking" \in Faults
  /\ result' = IF result # NoData /\ result.status = "streaming" THEN result
               ELSE polls[i]
  /\ polls' = Drop(i)
  /\ UNCHANGED <<chainVars, latest, open, clearing>>

\* An answer.
Receive(i) ==
  /\ i = 1 \/ "overtaking" \in Faults
  /\ result' = polls[i]
  /\ polls' = Drop(i)
  /\ UNCHANGED <<chainVars, latest, open, clearing>>

\* The user clicks "Clear", which is there with a result, and the DELETE is served;
\* an error of Redis is a response, too.
Clear ==
  /\ open
  /\ result # NoData
  /\ ~clearing
  /\ clearing' = TRUE
  /\ \/ latest' = NoData
     \/ "redis" \in Faults /\ UNCHANGED latest
  /\ UNCHANGED <<chainVars, open, result, polls>>

\* The response arrives: nothing is shown any more.
ClearReturns ==
  /\ clearing
  /\ clearing' = FALSE
  /\ result' = NoData
  /\ UNCHANGED <<chainVars, latest, open, polls>>

\* The request fails, before or after it was served: what is shown stays.
ClearFails ==
  /\ "network" \in Faults
  /\ clearing
  /\ clearing' = FALSE
  /\ UNCHANGED <<chainVars, latest, open, result, polls>>

ReceiveAny == \E i \in DOMAIN polls : Receive(i)

Next ==
  \/ \E c \in Chains : CheckPlanCache(c) \/ Step(c)
  \/ Crash \/ Delete
  \/ OpenPage \/ ClosePage
  \/ Poll \/ ReceiveAny
  \/ Clear \/ ClearReturns \/ ClearFails

Spec == Init /\ [][Next]_vars

\* The node goes on: its calls have timeouts, except for the reading of the stream,
\* which ends as the model ends its answer, whose length is limited, or breaks off.
\* The timer of the page fires, its polls do not all fail, and they are answered.
FairSpec ==
  /\ Spec
  /\ \A c \in Chains : WF_vars(Step(c))
  /\ WF_vars(Poll)
  /\ WF_vars(ReceiveAny)

-----------------------------------------------------------------------------
(* Properties.                                                             *)

\* Every variable has its type.
TypeOK ==
  /\ task \in [Chains -> Task]
  /\ planCache \subseteq {Findings[c] : c \in Chains}
  /\ latest \in Answer
  /\ open \in BOOLEAN
  /\ result \in Answer
  /\ clearing \in BOOLEAN
  /\ polls \in Seq(Payload)
  /\ reached \subseteq Chains

\* A plan that is under the key, on its way to the page or shown by it came out of a
\* call that OPA let through: none appears by the plan cache, after a 403, or of a
\* chain whose call failed before it reached the remediation agent.
Known == {latest, result} \cup {polls[i] : i \in DOMAIN polls}
PlansAreAdmitted ==
  /\ \A p \in Known \ {NoData} : p.plan # "none" => p.chain \in reached
  /\ \A c \in Chains : task[c].plan # "none" => c \in reached

\* A result that is "done" is the one the node returned: what the page says of a
\* chain, now or by an answer under way, is what the chat says of it, though the write
\* that brought it there may have failed for the node.
PageAgreesWithChat ==
  \A p \in Known \ {NoData} :
    p.status = "done" =>
      /\ task[p.chain].pc \in {"ended", "failed"}
      /\ p.opa = task[p.chain].opa
      /\ p.plan = task[p.chain].plan

\* Of two results of one chain the page never replaces the later by the earlier,
\* though polls and writes overlap, as long as answers come in order.
Rank(p) == IF p.status = "done" THEN MaxText + 1 ELSE p.text
NoRegress ==
  [][result # NoData /\ result' # NoData /\ result'.chain = result.chain
       => Rank(result) <= Rank(result')]_vars

\* "streaming" is temporary: a payload that says so is replaced, unless the process of
\* its chain dies or a write fails that is the last one of it.
Streaming == /\ latest # NoData
             /\ latest.status = "streaming"
             /\ task[latest.chain].pc \notin {"failed", "lost"}
StreamingEnds == Streaming ~> ~Streaming

\* A page that stays open comes to show the result that stays, though answers of
\* earlier polls are still to come.
PageCatchesUp ==
  <>[][FALSE]_latest /\ <>[]open => []<>(latest = NoData \/ result = latest)

\* What the chat says of ALLOW: "Remediation plan dispatched".
DispatchedIsReached ==
  \A c \in Chains : task[c].pc \in {"ended", "failed"} /\ task[c].opa = "ALLOW"
                      => c \in reached
=============================================================================

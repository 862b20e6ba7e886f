# A TLA+ model of the SRE agent

This directory holds TLA+ specifications of the SRE chat agent (`agent/`,
`worker_agent/`, `frontend/`), TLC configurations that check them on small
instances, and TLAPS proofs of what should hold for every instance. Every
definition is translated from the Python or TypeScript source; `PROJECT.json`
gives the source lines of each one.

Run from this directory:

    tlc -config StepDispatchFaulty.cfg MCStepDispatch.tla      # a model-checking run
    tlapm StepDispatch_proofs.tla                              # the proofs

## 1. Inventory

| component | state | operations | interacts with |
|---|---|---|---|
| step dispatch (`worker_agent/dispatch/postgres.py`) | tables `steps` (status, lock_token, lock_expires_at, attempts) and `step_results` | enqueue, next_pending_step_id, claim, extend, complete, release | workers, control plane, clock |
| worker process (`worker_agent/worker/main.py`) | two `Worker` objects, the running task, its heartbeat task | polling loop, execute_and_complete, heartbeat_task, graceful_shutdown | dispatch, tools, SIGTERM |
| queue adapters (`dispatch/sqs.py`, `pubsub.py`) | receipts in memory | the same interface | SQS, Pub/Sub |
| agent graph (`agent/graph`, `agent/nodes`) | the channels of a thread, its checkpoint, its metrics collector | twelve nodes, five routing functions, invoke, resume | LLM, registry, tools, user |
| event stream (`worker_agent/main.py`) | the list `events:<thread>` in Redis | publish_stream, get_events, history, compact | graph, front end |
| chat front end (`frontend/src/hooks/useChatThread.ts`) | messages, isRunning, awaitingReply, lastSeen, two timers | send, reset, poll, handle | event stream |
| remediation chaining (`nodes/chain_remediate.py`, `remediation_agent`, `RemediationPage.tsx`) | one Redis key `remediation:latest`, a plan cache, the result a page shows | chain_remediate, GET/DELETE, the page's polling and its Clear button | Envoy, OPA, AuthService, every invoke of the agent |
| registry client (`worker_agent/registry/scalable.py`) | token, caches in memory and in Redis | get_schema, list_tools, get_playbook, get_intents, retrieve_rag_context, search_domains, search_tools | registry service, AuthService, Redis |
| tool dispatcher (`worker_agent/tools/`) | response cache in Redis | dispatch_with_url, aresolve | registry client, tools, secret stores |
| plan history, evolution (`persistence/plan_history_repo.py`, `evolution/`) | tables `plan_history`, `playbook_suggestions` | save, get_best_cached, trigger_evolution_check, run, the extraction of patterns | graph, reviewers of suggestions |
| session lock (`persistence/session_lock.py`) | an advisory lock | acquire, release | nothing calls it |

### What is hard about them, and what makes each correct

* **Step dispatch and workers.** Several processes poll one table; the SELECT and
  the UPDATE that claims are two statements; leases lapse by the clock while
  their holders live on; enqueue resets the status of a row under execution;
  every database call may fail before or after its commit; processes die.
  Correct: one result per claim and of the worker that made it, nobody executes
  what another one executes, a finished step stays finished, what is pending is
  completed.
* **Agent graph.** A call ends in the middle of a node (`interrupt()`), the node
  is executed again from its first line when the answer comes, maybe by
  another process, with another auto-approve mode, from an older checkpoint; the
  routes read channels written by earlier nodes and earlier calls. Correct: no
  tool and no remediation runs without an answer to exactly it, none twice on
  one answer, what was done is remembered, a call ends.
* **Event stream and front end.** The list is read by index by a timer that does
  not wait for its own requests; a second timer gives a run up; a reply is sent
  to a run whose polling may have stopped. Correct: as long as answers come in time,
  every event is shown once and in order and a reply goes to a run that waits for
  it; in any case the input bar comes back and the polling of a run that is over stops.
* **Remediation chaining.** All threads write one key that others delete and the
  page polls; the node writes it before, while and after it is answered, and
  each of these writes may fail. Correct: a plan is one that OPA let through, the
  page says of a remediation what the chat says, it does not go back, and
  neither the key nor the page stays behind.
* **Queue adapters.** Redelivery after a visibility timeout, receipts lost with
  the process, `complete()` that cannot notice a stolen lease although the
  interface says it raises.
* **Registry client, tool dispatcher.** Stale caches of two layers that several
  coroutines fill with answers of different age, a token that they refresh and
  clear for each other, cached answers of tools with side effects. Correct:
  staleness is bounded by what the times to live add up to, a refused token
  fails no lookup that is not disturbed itself.
* **Plan history, evolution.** A job inside the transaction of each session that
  saves a plan, run at a count that others change, checking its candidates one
  by one while they are reviewed. Correct: a suggested rule holds of a batch of
  committed plans, it contradicts no other of its job, and what was decided is
  not suggested again.

## 2. Modules

| module | what it is |
|---|---|
| `StepLedger` | what the dispatch layer promises (contract of `dispatch/base.py`): grants, epochs, committed results |
| `StepDispatch` | the PostgreSQL adapter and the worker processes; implements `StepLedger` |
| `MCStepDispatch` | small instances of it |
| `StepDispatch_proofs` | theorems about it |
| `QueueDispatch` | the SQS and the Pub/Sub adapter under the same worker processes |
| `MCQueueDispatch` | small instances of it |
| `QueueDispatch_proofs` | theorems about it |
| `AgentGraph` | one conversation thread: nodes, routes, interrupts, calls, checkpoints, crashes |
| `MCAgentGraph` | small instances of it |
| `AgentGraph_proofs` | theorems about it |
| `ChatStream` | the event lists of the threads, the browser that polls them, the input bar and its user |
| `MCChatStream` | small instances of it |
| `ChatStream_proofs` | theorems about it |
| `Remediation` | chain_remediate, the remediation agent, the key they share and the page that polls it |
| `MCRemediation` | a small instance of it |
| `Remediation_proofs` | theorems about it |
| `RegistryClient` | the registry client: its token, its two caches, its services |
| `ToolDispatch` | the tool dispatcher and its cache on top of `RegistryClient` |
| `MCToolDispatch` | a small instance of both |
| `ToolDispatch_proofs` | theorems about both |
| `PlanPatterns` | the extraction of patterns as functions, and what their docstrings say they count |
| `EvolutionJob` | plan history, the evolution job and the reviewers, by `PlanPatterns` |
| `MCEvolutionJob` | a small instance of both |
| `PlanPatterns_proofs` | theorem about `PlanPatterns`, and lemmas on sums, closures and generations |
| `EvolutionJob_proofs` | theorems about `EvolutionJob` |

### StepDispatch

*State.* The columns of `steps` that steer execution, the rows of
`step_results`, and for each worker process where its loop is (`pc`), the step
it looks at, the attempt in its message, its heartbeat task and its two
`accepting` flags: `main()` hands one `Worker` object to the SIGTERM handler,
`run_worker()` creates another one. Time is a countdown: `leaseLeft[s]` is
`lock_expires_at - now()`, `hbIn[w]` what is left of the heartbeat's sleep.

*Actions.* One per SQL statement or transaction as the worker's code calls it:
`Enqueue`, `Pick` (the SELECT), `ClaimWins`/`ClaimLoses` (the UPDATE of
`claim()`), `ToolEnds`, `Complete`/`CompleteLeaseLost`, `Release`, `Heartbeat`;
`Sigterm`, `Tick`; and the faults `HeartbeatFails`, `CompleteFails` (before or
after the commit), `ReleaseFails`, `Crash`, with `Restart`.
`CompleteLeaseLost` distinguishes the two places that call `complete()`: in the
try block LeaseExpiredError is caught, in the handler of UnknownToolError it
ends the process.

*Abstractions.* `Outcomes` says how the execution of a message can end. A
`StepMessage` carries no tool name today, so that it always ends "completed";
`ToolMessages` adds the paths execute_and_complete() has for messages that do. MAX_CONCURRENT_STEPS is without effect, since the loop awaits
each task. Several processes with one WORKER_ID are not modelled (the default
is random). The column `max_attempts` is never read.

### QueueDispatch

*State.* The queue, which is external: the messages sent (`stepOf`), deleted
(`gone`), hidden (`hiddenFor`, a countdown) and who received each last
(`receiver`). Of each process: where its loop is, its heartbeat, and the
dictionary of receipts by step id that both adapters keep in memory. Nothing
else: these adapters read and write no table, and `_write_result_to_postgres`
of the SQS one is an empty placeholder.

*What is assumed of the queue.* What was delivered is hidden for the lease; the
receipt of the last delivery works while its message is hidden; any other one
may work or be ignored, which the adapters are not told either way. Which
visible message is delivered is open.

*Actions.* `Enqueue`, `Claim` (`receive_message`, `pull`: whatever step the loop
asked for), `ToolEnds`, `Complete`, `Release`, `Heartbeat`, `Tick`; the faults
`ClaimFails`, `CompleteFails`, `ReleaseFails`, `HeartbeatFails`, `Crash`, a tool
that raises, and a second that passes while a call is pending. The two
adapters differ where calls fail: `claim()` of Pub/Sub makes two, so that it
can raise with a message received; `complete()` of SQS would raise, and that of
Pub/Sub return, for a step without a receipt, which `OneReceiptAtHand` says does
not occur under this loop.

### AgentGraph

*State.* `ch` are the channels the routes and nodes branch on, with the node to
be executed next and whether it is interrupted; `ckpt` the same as the
checkpointer has them. A running call has its `auto` mode, the `reply` it was
resumed with until `interrupt()` returns it, and its count of supersteps.
Texts of the LLM are numbers, a new one for each text. Replies are five classes:
`yes`, `go` (which only some of the lists of approvals contain), `no`,
`modify` alone, and `text` (feedback).

*Actions.* One per node, applying its updates together with its outgoing edge;
`AutoApprove` and `Review` are the two halves of `hitl_step_review`, the one
taken before and the one after `interrupt()`. `Invoke` and `Resume` are the two
endpoints, `NodeRaises` (in any node, also by a failing `publish` in front of it, and then maybe
after its tool was called, as `CutShort` says of it and of a crash) and `RecursionError`
how a call fails, `Persist` the
checkpointer that writes behind, `Crash` the death of the process, possibly just
after a tool was called.

*External.* LangGraph is modelled from its use (`Commit`, `Interrupt`, `Ready`,
`Persist`): a superstep is atomic, an interrupted node starts again from its
first line, a second reply before the first is used cannot occur since calls of
one thread are sequential. The plugins of `agentcore` that wrap nodes
(context manager, policy gate) appear as what they let through.

*History variables* (`verdict`, `acts`, `chains`, `crashed`, `failures`) are
read by no action.

### ChatStream

*State.* `log[t]` is the Redis list `events:<t>`, `agent[t]` what the run of t is
doing. Of the browser: the refs and states of `useChatThread` that steer it
(`thread`, `isRunning`, `asking` for "hitlKind is not null", `lastSeen`, `polling`
for the AbortController), what `send()` awaits, and the requests under way.
*History:* `seen` and `foreign`, the events handled, and `late`: a request was sent while
another one was under way, or an answer came for a thread no longer shown, and gave up
the one that is.

*Actions.* The server's `Progress`, `Ask` and `Finish` each append an event, or lose
it; `Tick` sends a request, `Answer` is everything the browser does with one
answer (JavaScript is not interrupted there), `AnswerLost` the swallowed
exception; `SendReply`, `SendNew`, `InvokeReturns` and `SendEnds` are `send()` before
and after its await; `Reset` is the button "New chat". A request is answered
with the list as it was at any moment between its sending and its answer, the timer
does not wait for it, answers overtake each other, and agents and users are silent for
as long as they like: none of this is a fault. `Faults` are lost events, polls and sends.

*Abstractions.* Events are five kinds, as far as they differ in their effect on
isRunning and hitlKind. Time is the number of empty answers in a row.
The agent is AgentGraph seen from outside: it works, asks or is over. That a
reply to a working agent starts a second task is modelled only as its staying at
work. Whether an invoke that fails did reach the server is left open.

### Remediation

*State.* Of each execution of `chain_remediate` where it is and its local variables
(`opa_decision`, `plan`, and `accumulated` counted in chunks); the plan cache by the
findings it is keyed with; the value of `remediation:latest`; of the page whether
it is mounted, what it shows, whether it awaits its DELETE, and the answers under
way to it.

*Actions.* One per await of the node: `CheckPlanCache`, `ExchangeToken`,
`MarkStreaming`, `CallAgent`, the lines of the stream (`Chunk`, `DoneEvent`,
`ErrorEvent`, `StreamEnds`, `StreamBreaks`) and `WriteFinal`, each with its failures; a
write to Redis that fails may have been served.
`Delete` is the key going, by an invoke of any thread, by the mount of the page or by
its expiry; `OpenPage`, `ClosePage`, `Poll`, `Receive`, `Clear`, `ClearReturns` and
`ClearFails` are the page.

*Abstractions.* A plan is there or not. OPA, Envoy, AuthService and the model are what
a call comes back with. A poll is read when it is sent. `CheckPlanCache` never
serves a plan: the branch that would reads `intent_str` before its assignment, and
the NameError is swallowed (section 6).

*History variable.* `reached`, the chains that got to the remediation agent.

### RegistryClient and ToolDispatch

*State.* The client's `token`, its caches `l1` (the dictionary) and `l2` (Redis), one
entry for each method as if it had one argument, and for each coroutine the lookup it is in (`lookup`). Of the services: the
`version` of what the registry has, and the signing key by which tokens are valid. `ToolDispatch` adds
the call a coroutine makes (`call`) and the entry of the response cache for it
(`responses`).

*Actions.* One per await, and two where an answer may be read in one tick and arrive in
the next: `LookUp`, `RedisRead` and `RedisGet`, `Authenticate`, `Answered`,
`Unauthorized`, `Fails`, `Receive`, `RedisSet` and `Resume` are a lookup, whichever
of the seven methods it is; `Authenticated`, `Layered` and `KeepsEmpty` say in what
these differ. `Dispatch`, `ResolveContract`, `CacheRead`, `CacheGet`, `ResolveSecret`, `RunTool`,
`CacheSet` and `EndCall` are `dispatch_with_url()` as the node `act` calls it.
`Publish`, `Rotate`, `TokenAges` and `Tick` are the environment.

*Abstractions.* What an answer says is the version of the registry it was read from;
constants say in which versions the tool is missing, builtin, canned or secured.
A tick is longer than a call takes, so that each sees one tick at most: the
timeouts are 10 s for the registry, 30 s for REST and MCP, 60 s for scripts. Builtin
tools have none and are assumed to end within a tick. As the agent wires it, L1 lives 60 s,
responses 3600 s and L2 86400 s; the model keeps that order, not the ratios.
`get_playbook()` caches None and reads it as a miss. `rag`, `search_tools` and
`search_domains` send no token and return [] where the others raise. The client has
credentials: without them it sends no token at all, and a 401 raises.

*History.* `age`, since when a version is superseded; the fields `trouble` of a
lookup and `old` of a response.

### PlanPatterns and EvolutionJob

*PlanPatterns.* A plan is the tools of its steps and their dependencies. `Rounds` and
`OrderedSteps` follow `topological_generations()` and `transitive_closure()` of networkx
by their definitions (`Generation`, and `Reached`, one edge further at a time);
`Candidates` is what the two functions of `patterns.py` return.
`Seen` says the same in other words, those of the docstrings: `Precedes` by closed
sets, `EarliestRound` by scheduling each step as early as it can be. `IsPlan` leaves out
plans with a cycle: networkx yields the generations before it and raises, which is swallowed.

*EvolutionJob.* *State:* the committed rows of `plan_history`, as a bag, those of
`playbook_suggestions`, pending and decided, and the transaction of each session.
*Actions:* `Save`, `Count`, `Fetch`, one `Check` for each candidate, `Flush`, `Commit`, each
a statement of the session; `Fails` rolls it all back; `Review` is external. Reads are
those of READ COMMITTED. All rows have one `created_at` (section 6), so that the "last"
plans are any. Nothing in the repository calls `trigger_evolution_check()`; it is
modelled where its docstring puts it, after the write of a completed plan.

## 3. Runs

All properties of a run are those of its `.cfg`.

| run | shows | instance |
|---|---|---|
| `dispatch_faulty` | `TypeOK`, `OneResultPerClaim`, `ResultOfOwnClaim`, `FinishedStaysFinished`, `ImplementsLedger` under every fault | 2 workers, 1 step, lease 2 s, 3 claims, 2 enqueues |
| `dispatch_reliable` | `Exclusive`, `NoOrphans`, `PendingStepsComplete` while no process, call or clock fails; tools may | 2 workers, 1 step, lease 3 s, 4 claims, 2 enqueues |
| `queue_faulty` | `OneReceiptAtHand`, `NothingLost`, `MessagesDone`, `TypeOK` under every fault, `Exclusive` before the first one | 2 workers, 2 steps, lease 2 s, 2 messages, 2 faults |
| `graph` | `ToolCallsPermitted`, `ChainPermitted`, `ToolCallsRemembered`, `CallsEnd`, `TypeOK` | all replies, auto-approve changing, plan cache on, 8 supersteps a call, 3 calls |
| `chat` | `HandledInOrder` and `RepliesAnswerQuestions` until an answer is late, `InputComesBack`, `PollingStops`, `TypeOK`, under every fault | 2 threads, 1 event and a final one each, 2 requests under way, timeout after 1 empty answer |
| `remediation` | `PlansAreAdmitted`, `PageAgreesWithChat`, `NoRegress`, `StreamingEnds`, `PageCatchesUp`, `TypeOK`, under every fault but answers that overtake each other | 2 chains with the same findings, 1 chunk, 2 polls under way |
| `tools` | `HealthyLookupsSucceed`, `BoundedStaleness`, `ContractsAreCurrent`, `AnswersAreCurrent`, `TypeOK`, with failing services | 2 coroutines, 2 versions, 2 keys, times to live of 1, 1 and 2 ticks (3.6 million states) |
| `evolution` | `RulesWereSeen`, `NoContradiction`, `DecisionsStand`, `TypeOK`; `PatternsAreExact` on all plans of 4 steps | 2 sessions, 3 kinds of plans, batches of 3, 6 plans |
| `graph_bare_modify`, `graph_shown_plan`, `chat_overlap`, `remediation_dispatched` | each a sentence of the code's own docs, comments or messages that its behaviour contradicts (section 6) | |

*Bounds.* A lease of 2 or 3 seconds is the smallest for which half of it, rounded
down, is neither 0 nor the whole. Three claims allow a worker to come back
after two others took the step; two enqueues allow one during an execution and
one after it. Eight supersteps reach from the start of a call through one tool
call and its second thought to the limit, three calls a question, an answer, and an
invocation or answer after a crash or failure. Two threads are a session and the one that replaces it while requests for the
first are under way; two requests are two polls that overlap, or one that is left over
and the first of the next session. One event and the final one are a question and what
follows the answer; a second question adds nothing, since each answer begins at the
index after the last one (the proofs are for any number). Two messages are two steps or one step
twice, so that a process may find the receipt of another message of its step;
two faults are a lapsed lease and one failure after it, or two lapses. Two chains
are the writer and whoever writes in between; two polls under way let one be
overtaken by a write. Two coroutines are the one that is refused or late
and the one that fills the caches meanwhile; with times to live of one tick
an entry lives through the tick in which the registry changes, and `MaxAge` is
larger than every bound the properties state, which are met with equality.
Batches of three and six plans are two batches; the thresholds of 60 % are
two of three plans, as 90 % and 80 % are nine and eight of ten. `MaxClaims`, `MaxEnqueues`, `MaxCalls`, `MaxThreads`,
`MaxEvents`, `MaxPending`, `MaxMessages`, `MaxFaults`, `MaxText`, `MaxPolls`, `MaxVersion`, `MaxKeys`,
`MaxAge` and `MaxPlans` are the only bounds that are not the program's;
`StaleAfter` stands for sixty seconds.

*Late answers in ChatStream.* What the browser handles once answers are late is promised by
no text and is often wrong: of two polls that overlap both bring the same events and
`lastSeen` passes over others; the answer for a run that was given up, arriving after the
user started another, stops the chat of that one. So `HandledInOrder` and
`RepliesAnswerQuestions` hold until the first such answer, which `late` records, and are
checked and proved that far, under all losses and silences. The other two have no such
condition. `InputComesBack` makes two exceptions: an invoke that failed (`InvokeFailed`)
leaves isRunning set with no polling that could time out; and a late answer may show a
question whose polling has stopped, the reply to which closes the bar without a polling
to open it (`Unpolled`).

*Faults of Remediation.* `NoRegress` does not hold if answers to polls overtake each other, and
is checked, and proved, without; HTTP keeps no order, but the page's requests are two
seconds apart.

*Assumptions on plans.* `PlansAssumption`: the plans of a history are as `report.py` writes
them, without dependencies, or run no tool twice; without the latter `NoContradiction` does
not hold (section 6), and a rule may be counted more often than it is seen.
`ThresholdsAssumption`: more than half of the plans, and more than all of them by both
thresholds together, as with the 90 % and 80 % of the code; with less, half of the plans
could speak for one order of two tools and half for the other. The samples of
`PatternsAreExact` may repeat tools at will.

*Symmetry* (workers, coroutines, sessions) is used in safety runs only.

*Deadlock* is checked for StepDispatch and ToolDispatch. A queue may be empty for good and all
workers down (nothing in the repository restarts them), a thread of AgentGraph that has finished
and gets no further call stops, a user may stop typing, chains and the plans of the
evolution job come to an end, so the runs of QueueDispatch, AgentGraph, ChatStream,
Remediation and EvolutionJob do not check deadlock.

*Fairness.* `dispatch_reliable` assumes weak fairness of each worker's loop and
heartbeat: a process that is up has a running event loop and tools return;
`Reliable` excludes crashes there, because the code makes no promise for a step
whose worker died (no statement reclaims a RUNNING row). `queue_faulty` assumes
the same, and that time passes: there the timeout of the message does reclaim
it, so that `MessagesDone` holds with crashes as long as one process is up. `graph` assumes
weak fairness of the executing call only; users need not answer, the
checkpointer need not write, and that a call ends rests on the recursion limit.
`chat` assumes that a run ends or asks (what `CallsEnd` says of AgentGraph,
or loses the event that says so), that the interval timer fires, that the calls of
`send()` return, and that polls do not fail for ever (strong fairness of an answer: a poll
that fails is followed by the next one); the user owes nothing. `remediation` assumes that a node goes
on, which the timeouts of its calls and the end of what the model writes see to
(the reading of the stream has no timeout), and that the page's timer fires and
its polls are answered; nobody owes a chain, a Clear or a mount.

## 4. Proofs

`StepDispatch_proofs` proves, for any sets of workers and steps, any lease and
any bounds:

* `TypeCorrect`: `Spec => []TypeOK`.
* `LedgerCorrect`: `Spec => []LedgerInv`. `OneResultPerClaim` and
  `ResultOfOwnClaim` are not inductive: `complete()` takes the attempt from the
  table when it writes. What makes them so is that every claim is recorded and
  the token is that of the latest one (`ClaimsRecorded`), that a worker that
  still holds the token executes the latest claim (`HolderIsCurrent`), and that
  the rows of a locked step stem from earlier claims (`RowsPrecedeLock`). The
  proof classifies the steps (`StepKinds`) as a claim, a committed result, a
  withdrawal, or one that touches neither lock nor rows. `OneResult` and
  `ResultAttribution` are its corollaries.
* `FinishedIsFinal`: `Spec => FinishedStaysFinished`, by the invariant that a
  finished step is not locked.
* `Refinement`: `Spec => ImplementsLedger`; the same classification gives
  Grant, Commit, Withdraw or a stutter.
* `ExclusiveExecution`: assuming `Reliable`, `Spec => []Exclusive`, by the
  invariant `LeaseOutlivesSleep`: the lease of an executing worker outlasts its
  heartbeat's sleep by the half of the lease it does not sleep.
* `NoStepOrphaned`: assuming `Reliable`, `Spec => []NoOrphans`; with the type
  invariant it is inductive: a worker leaves a step only after it unlocked it, and one
  that claims has left all others.

`QueueDispatch_proofs` proves, for any sets of workers and steps, any lease of at
least a second and any bounds:

* `DeliveredAlways`: `TypeOK`, `OneReceiptAtHand` and `NothingLost` together, with
  `EndedIsExecuted`; none is inductive by itself, for a step acts on the message
  of the receipt it looks up, which must be there. `TypeCorrect`,
  `ReceiptsAtHand` and `NoMessageLost` are its corollaries.
* `ExclusiveWork`: `Spec => []Exclusive`, by the invariant `HeldWhileWorking`: until
  the first fault the message at hand was received last by its worker, which
  makes two workers with one message the same worker, and stays hidden for
  half a lease longer than the heartbeat sleeps.

`AgentGraph_proofs` proves, for any replies, modes, recursion limit and number of
calls:

* `TypeCorrect`: `Spec => []TypeOK`.
* `PermissionCorrect`: `Spec => []PermissionInv`, the strengthening by which a
  reply a call carries is the verdict on what the thread shows, a review shows
  the thought at hand, and a call about to act or to chain has an unspent
  permission.
* `ToolCallsNeedPermission`, `ChainNeedsPermission`: the two action properties.
* `CallsRemembered`: `Spec => []ToolCallsRemembered`, inductive with the type invariant:
  act alone makes calls, and goes on to the node that records them.

`ChatStream_proofs` proves, for any number of threads, events and faults:

* `TypeCorrect`: `Spec => []TypeOK`.
* `StreamCorrect`: `Spec => []StreamInv`, where `StreamInv` is `InStep` until an answer is
  late; nothing is assumed, and overlapping polls, silence and every loss are in `Spec`.
  Neither of the two properties below is inductive. What makes them so: at most one
  request is under way, and it either asks for exactly what the polling has not seen
  or is left over from a thread that has ended and was shown to its end
  (`RequestIsNext`); a question not seen yet is the last event, for its run waits
  (`QuestionIsLast`); an idle bar means an ended run, an asking one a run that
  waits and a polling that has seen all (`IdleIsOver`, `AskingIsWaiting`).
* `EventsInOrder`, `RepliesGoToQuestions`: its corollaries `Spec => []HandledInOrder` and
  `Spec => RepliesAnswerQuestions`.

`Remediation_proofs` proves, for any chains, findings, faults and bounds:

* `TypeCorrect`: `Spec => []TypeOK`.
* `SoundAlways`: `Spec => [](TypeOK /\ KnownSound /\ TaskSound)`. That a plan was let through,
  and that the page agrees with the chat, is not inductive: what the page shows was
  under way before, and under the key before that. `KnownSound` says of a payload in any of
  these places that it tells no more than its chain has come to, be the write that brought
  it there one that failed for the node, `TaskSound` that a
  node with a plan got through. `PlansAdmitted` (`Spec => []PlansAreAdmitted`) and
  `PageAgrees` (`Spec => []PageAgreesWithChat`) are its corollaries.
* `PageNeverRegresses`: assuming `InOrderOnly` (no answer overtakes another),
  `Spec => NoRegress`, by `Ordered`: what is shown, under way and under the key are, in this
  order, ever later results of a chain. What a node writes is later than all that is
  known of its chain (`WriteFollows`).

`ToolDispatch_proofs` proves, for any coroutines, methods, registry, times to live of at
least a tick and bounds:

* `BudgetsHold`: `Spec => []Inv`. A bound on the age of an answer says nothing of where the
  answer came from, so that none of the three below is inductive. `Inv` gives each thing kept
  or under way a budget: for an entry of a cache, its age and the ticks it has left
  add up to no more than what it was filled from allows (`GoodEntry`, `GoodResponse`); for an
  answer or a contract under way, its age exceeds that by a tick once it is
  late (`GoodLookup`, `GoodCall`). For the token: a lookup that was refused once and not
  troubled carries the latest one.
* `TypeCorrect`, `HealthySucceed`, `StalenessBounded`, `ContractsCurrent`, `AnswersCurrent`: its
  corollaries `Spec => []TypeOK`, `Spec => []HealthyLookupsSucceed`,
  `Spec => BoundedStaleness`, `Spec => ContractsAreCurrent`, `Spec => AnswersAreCurrent`.

`PlanPatterns_proofs` proves, for any samples without cycles (`SamplesAssumption`):

* `CountsAreExact`: `CountsWhatIsSeen`. A plan adds to the count of a rule if and only if the
  rule is seen in it, and at most once if it runs no tool twice. `ReachedFollows`: what the
  closure has after as many rounds as there are steps is all there is a way to, as it grows
  by a step each round or not at all (`Saturates`). `GenerationIsRound`: the generations are
  the earliest schedule, which exists (no step comes before itself, so that a first one is
  left to be done as long as any is) and is the only one (`OneRound`). `RoundsFollow`: what
  a step depends on is in an earlier round.

The functions are defined by recursion, on numbers or, for the sums, on sets, and no prover
here has induction with an operator as its parameter. The module goes around it: a set of
counterexamples is a set, of which `WFMin` gives a least element (`LeastNumber`,
`MinimalSet`; `AllNumbers` and `AllSubsets` are induction stated for sets), and the recursive
functions are unfolded after showing that one exists that satisfies the recursion
(`Iterates`, `SumExists`).

`EvolutionJob_proofs` proves, for any sessions, plans, batch size and thresholds within the
assumptions of section 3:

* `TypeCorrect`: `Spec => []TypeOK`. That no count passes `MaxPlans` rests on `Room` (every
  transaction has the room of the one row it writes, `RowsAreOne`) and `FewRows` (no rule has
  more suggestions than there are plans, since each transaction adds a plan, and the rule
  once at most).
* `PatternsExact`: `Spec => []PatternsAreExact`, by `CountsAreExact`.
* `RulesSeen`: `Spec => []RulesWereSeen`. What makes it inductive is `CandidatesSeen`: what a
  transaction may still suggest is seen in enough of the rows that it sees. Others only
  add rows meanwhile (`SeenStays`), and its commit makes the suggestion and the rows
  public together; for a window, what is counted is what is seen (`WindowSeen`).
* `NoJobContradictsItself`: `Spec => []NoContradiction`. A plan counts for one of two rules
  about the same tools at most (`SameToolsExclude`), so that both together are in no more
  than the plans of the window (`WindowExcludes`), and `ThresholdsAssumption` lets one pass.
* `DecidedStaysDecided`: `Spec => []DecisionsStand`. A candidate that was decided is found among
  the rows when it is checked (`DecidedIsFound`), if what was decided as the job read the
  plans still is (`SettledIsDecided`: neither a reviewer nor a commit takes a decision back)
  and nothing was added before (`AddsLast`).

The assumptions are the named ASSUMEs of the modules: types of the constants, that a
lease of the queues, a time to live and the number of keys are not zero, and those on
plans and thresholds (section 3).

Model-checked only: the liveness properties (`PendingStepsComplete`, `MessagesDone`,
`CallsEnd`, `InputComesBack`, `PollingStops`, `StreamingEnds`, `PageCatchesUp`), which rest on fairness and
are out of the prover's reach.

## 5. Not modelled

* Everything of section 1 that section 2 does not list: see the plan.
* The contents of prompts, messages and tool results; the metrics that are
  recorded; the order in which the registry ranks tools.
* Of the front end: the texts and cards of the chat, the remediation label, the
  day after which Redis drops a list, `/history` and `/compact`.
* The policy gate and the context manager are external; the gate appears as a
  tool that is not called.
* `/graph/chain/stream`, a demo that runs the graph with auto-approve on and
  handles no interrupt; `build_graph_with_postgres`, which always raises.
* What never runs: `MCPLiveClient`, which nothing constructs, with the tools named
  `mcp::`; `flush_cache()`; the session lock.
* What only reads: `get_recent()`, `get_all_recent()`, `/history`; what has no state of its own: the
  reporter agent, and `/graph/invoke` of the remediation agent, which the demo at
  `worker_agent/main.py:526` calls.
* `persistence/repo.py`: its `write_result()` writes the tables of StepDispatch, but nothing
  calls it.
* Two calls of one thread at a time: the server starts a task for whatever it is sent
  (`main.py:352`, `:393`), and what LangGraph does with two on one checkpoint is not in this
  repository. `Invoke` and `Resume` wait for the call before; the chat keeps them apart
  as far as `RepliesAnswerQuestions` holds.
* `session_factory` is never put into the configuration by `_make_config`, so
  that `check_plan_cache` always misses today; `CacheWired = TRUE` covers its
  code as written, `FALSE` the program as deployed.

## 6. Where code and text disagree

| run | text | code |
|---|---|---|
| `graph_bare_modify` | `hitl_step_review.py:49` "Approve / Modify \<feedback\> / Reject" | "modify" alone is neither feedback nor rejection: the tool runs |
| `graph_shown_plan` | `propose_fix.py:49` "Proposed fix above. Approve ..." | on the answer the LLM writes another plan, which is the one kept |
| `chat_overlap` | `DESIGN.md:252` "active when the agent is waiting for a reply, disabled when it isn't" | of two polls that overlap both bring a question; if it is answered in between, it is asked again while the agent works |
| `remediation_dispatched` | `useChatThread.ts:223` "Remediation plan dispatched" | any status but 403 is an ALLOW: Envoy answers 503, and nothing was dispatched |

Others, met while modelling and part of the models, have no run of their own:

* `worker/main.py:154` "stop accepting, drain current task": SIGTERM changes a `Worker`
  object that the loop does not read.
* `dispatch/base.py:58` "worker must abort": the heartbeat's exception is never
  awaited, the worker goes on to `complete()`, which then refuses.
* `dispatch/base.py:68` "Raises if the lease was stolen before this call" and
  `sqs.py:97` "Write result to Postgres (always authoritative)": the queue adapters
  never raise it and write nothing; both workers of a message that lapsed complete
  it, and the results are lost.
* `ChatHeader.tsx:54` auto-approve "takes effect on next session": the next reply
  carries the new mode, and a "no" is not read any more.
* `propose_fix.py:83` "ship metrics and end": after feedback a rejection is shipped
  as escalated and the agent goes on thinking.
* `DESIGN.md:250` after an error the input bar is "Active": not when an invoke
  rejects.
* `DESIGN.md:376` all replies go through `resumeStream()`: a minute after the question
  the polling is given up, and the reply starts a new session.
* `useChatThread.ts:223` "view results": the page the link opens deletes the results as it is
  mounted.
* `RemediationPage.tsx` shows what is not ALLOW as blocked by OPA, also NO_TOKEN, ERROR
  and, while the call is made, UNKNOWN.
* `chain_remediate.py:53` "plan cache check": it serves nothing, because of the NameError at line 65; a version that did
  would hand out plans without asking OPA, which the mutant of `PlansAreAdmitted` shows.
* `patterns.py:35` and `:90` "seen in >= min_frequency of plans": edges and rounds are
  counted, not plans, so that a tool that occurs twice counts twice, and plans such
  as 2, 1, 2 yield both orderings of a pair.
* `job.py:53` "skip any already ACCEPTED or REJECTED": the columns compared are NULL for
  every soft_parallel, so that one decided one suppresses all others; of two that
  were decided `scalar_one_or_none()` makes an exception, which ends the job with part
  of its suggestions added. A suggestion that is pending is added again by every job.
* `job.py:100` "Called after every COMPLETED plan_history write": nothing calls it. If it
  were, sessions that count at the same time may step over a multiple of ten, and the
  job would not run for that batch.
* `job.py:24` "last BATCH_SIZE COMPLETED plans": `server_default="now()"` is a literal, which
  PostgreSQL evaluates when a table is created by this model, so that all rows have
  one `created_at`, and the time to live of cached plans counts from there.
* `patterns.py:92` "the same parallel round": `report.py` writes every plan without
  dependencies, so that all tools of a session are of one round.

## 7. Plan

1. StepLedger, StepDispatch and their proofs. *Done.*
2. AgentGraph and its proofs. *Done.*
3. `ChatStream`. *Done, with its proofs.*
4. `Remediation`. *Done.*
5. `QueueDispatch`. *Done, with its proofs.*
6. `RegistryClient`, `ToolDispatch`. *Done.*
7. `PlanPatterns`, `EvolutionJob`. *Done.*

Theorems: all safety properties the passing runs check are proved. Liveness stays with TLC
(section 4).

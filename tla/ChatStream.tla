----------------------------- MODULE ChatStream -----------------------------
(***************************************************************************)
(* The events of a run and the chat that shows them.  The server appends    *)
(* the events of a thread to a list in Redis (publish_stream() and          *)
(* _append_event() in worker_agent/main.py); the browser polls that list by *)
(* index, and its state decides whether a message the user types answers    *)
(* the agent's question or starts a new session                             *)
(* (frontend/src/hooks/useChatThread.ts, ChatInputBar.tsx).                 *)
(*                                                                         *)
(* JavaScript runs to the next await undisturbed: a tick sends a request,   *)
(* and what it does with the answer is one step, however many others were   *)
(* sent or answered meanwhile.  A request is answered with the list as it   *)
(* was at some moment between the two.  Aborting the polling stops further  *)
(* ticks, not the requests under way.                                       *)
(*                                                                         *)
(* Time is counted in ticks: quiet[t] is how many answers in a row were     *)
(* empty, and StaleAfter how many of them make up STALE_TIMEOUT_MS.         *)
(*                                                                         *)
(* History variables: seen, foreign and late.  No action reads them.        *)
(***************************************************************************)
EXTENDS Naturals, Sequences, FiniteSets

CONSTANTS
  Faults,       \* what may go wrong, a subset of Fault
  StaleAfter,   \* STALE_TIMEOUT_MS in ticks
  MaxThreads,   \* bound: threads, that is messages that start a session
  MaxEvents,    \* bound: events a thread has before its run must end
  MaxPending    \* bound: requests under way

\* lost_events     an event is not appended: Redis or the process failed
\* lost_requests   a request of the polling fails
\* lost_sends      the call that starts or resumes a run fails
Fault == {"lost_events", "lost_requests", "lost_sends"}

ASSUME StreamAssumption ==
  /\ Faults \subseteq Fault
  /\ StaleAfter \in Nat \ {0}
  /\ MaxThreads \in Nat
  /\ MaxEvents \in Nat
  /\ MaxPending \in Nat \ {0}

Thread == 1 .. MaxThreads

\* Kinds of events, as eventMapper.ts and handle() tell them apart; "node" is any
\* event that changes neither isRunning nor hitlKind.
Kind == {"node", "report", "interrupt", "done", "error"}

VARIABLES
  \* the server
  log,        \* log[t]: the list events:<t>
  agent,      \* agent[t]: none, lost (its start), running, waiting (for a reply), ended
  \* the browser
  thread,     \* threadIdRef; 0: null
  sending,    \* what send() awaits: no, invoke, resume
  target,     \* the thread of that invoke
  isRunning,
  asking,     \* hitlKind is not null
  polling,    \* the AbortController of `thread` is not aborted
  lastSeen,   \* lastSeenRef
  quiet,      \* quiet[t]: empty answers since the last progress
  requests,   \* the requests under way, oldest first
  \* history
  seen,       \* indexes of the events of `thread` handled, in that order
  foreign,    \* events of other threads handled while `thread` was shown
  late        \* an answer has been too late, as Send() and GiveUp() say

server  == <<log, agent>>
browser == <<thread, sending, target, isRunning, asking, polling, lastSeen, quiet,
             requests>>
history == <<seen, foreign, late>>
vars    == <<server, browser, history>>

\* A request for the events of a thread after a given one, sent when the list had
\* `known` events.
Request == [thread : Thread, from : Nat, known : Nat]

Init ==
  /\ log = [t \in Thread |-> <<>>]
  /\ agent = [t \in Thread |-> "none"]
  /\ thread = 0
  /\ sending = "no"
  /\ target = 0
  /\ isRunning = FALSE
  /\ asking = FALSE
  /\ polling = FALSE
  /\ lastSeen = 0
  /\ quiet = [t \in Thread |-> 0]
  /\ requests = <<>>
  /\ seen = <<>>
  /\ foreign = 0
  /\ late = FALSE

-----------------------------------------------------------------------------
(* The server.                                                             *)

\* _append_event(): a failure is logged and the event is lost.
Publish(t, kind) ==
  \/ log' = [log EXCEPT ![t] = Append(log[t], kind)]
  \/ "lost_events" \in Faults /\ UNCHANGED log

\* The run of t publishes an event of a node.
Progress(t) ==
  /\ agent[t] = "running"
  /\ Len(log[t]) < MaxEvents
  /\ \E kind \in {"node", "report"} : Publish(t, kind)
  /\ UNCHANGED <<agent, browser, history>>

\* The run of t stops at an interrupt, and publish_stream() says so.
Ask(t) ==
  /\ agent[t] = "running"
  /\ Len(log[t]) < MaxEvents
  /\ Publish(t, "interrupt")
  /\ agent' = [agent EXCEPT ![t] = "waiting"]
  /\ UNCHANGED <<browser, history>>

\* It finishes, or fails.
Finish(t) ==
  /\ agent[t] = "running"
  /\ \E kind \in {"done", "error"} : Publish(t, kind)
  /\ agent' = [agent EXCEPT ![t] = "ended"]
  /\ UNCHANGED <<browser, history>>

Run(t) == Progress(t) \/ Ask(t) \/ Finish(t)

-----------------------------------------------------------------------------
(* The polling.                                                            *)

\* Faulty variant: each request asks for the whole list.
NewRequestOfAll(t, from) == [thread |-> t, from |-> 0, known |-> Len(log[t])]

\* getEvents(): the events of t after the first `from`.
NewRequest(t, from) == [thread |-> t, from |-> from, known |-> Len(log[t])]

\* A request is sent, though another one may be under way: the timer does not wait
\* for it.
Send(r) ==
  /\ Len(requests) < MaxPending
  /\ requests' = Append(requests, r)
  /\ late' = (late \/ requests # <<>>)

\* The interval timer fires.
Tick ==
  /\ polling
  /\ Send(NewRequest(thread, lastSeen))
  /\ UNCHANGED <<server, thread, sending, target, isRunning, asking, polling,
                 lastSeen, quiet, seen, foreign>>

Drop(i) == SubSeq(requests, 1, i - 1) \o SubSeq(requests, i + 1, Len(requests))

\* The events handle() gets of those after the first `from`: none after a `done`.
Handled(t, from, upto) ==
  {k \in from + 1 .. upto : \A j \in from + 1 .. k - 1 : log[t][j] # "done"}

\* isRunning and hitlKind afterwards: each follows the last event that sets it.
RunningAfter(t, batch) ==
  isRunning /\ \A k \in batch : log[t][k] \notin {"done", "error"}
AskingAfter(t, batch) ==
  LET setters == {k \in batch : log[t][k] \in {"interrupt", "report", "error"}}
  IN IF setters = {} THEN asking
     ELSE \E k \in setters : /\ log[t][k] = "interrupt"
                             /\ \A j \in setters : j <= k

\* History: how many events of t, which come after the first `from`, are handled.
\* Nothing is said of what follows a late answer.
Record(t, from, number) ==
  /\ seen' = IF late \/ t # thread THEN seen
             ELSE seen \o [i \in 1 .. number |-> from + i]
  /\ foreign' = IF late \/ t = thread THEN foreign ELSE foreign + number
  /\ UNCHANGED late

\* What the events do to the chat, and to the polling of their own thread.
Show(t, from, upto) ==
  LET batch == Handled(t, from, upto)
      done  == \E k \in batch : log[t][k] = "done"
  IN
  /\ isRunning' = RunningAfter(t, batch)
  /\ asking' = AskingAfter(t, batch)
  /\ polling' = (polling /\ ~(done /\ t = thread))
  /\ lastSeen' = IF done THEN lastSeen ELSE lastSeen + (upto - from)
  /\ quiet' = IF done THEN quiet ELSE [quiet EXCEPT ![t] = 0]
  /\ Record(t, from, Cardinality(batch))

\* Faulty variant: only the polling stops.
GiveUpStopping(t) ==
  /\ polling' = (polling /\ t # thread)
  /\ late' = (late \/ t # thread)
  /\ UNCHANGED isRunning
  /\ asking' = FALSE
  /\ UNCHANGED <<lastSeen, quiet, seen, foreign>>

\* Nothing new for a minute: the polling stops, with an error in the chat.  That of
\* a thread which is not shown any more stops the chat all the same.
GiveUp(t) ==
  /\ polling' = (polling /\ t # thread)
  /\ late' = (late \/ t # thread)
  /\ isRunning' = FALSE
  /\ asking' = FALSE
  /\ UNCHANGED <<lastSeen, quiet, seen, foreign>>

\* Faulty variant: an answer without events counts as progress.
StillQuietResetting(t) ==
  /\ quiet' = [quiet EXCEPT ![t] = 0]
  /\ UNCHANGED <<isRunning, asking, polling, lastSeen, seen, foreign, late>>

StillQuiet(t) ==
  /\ quiet' = [quiet EXCEPT ![t] = quiet[t] + 1]
  /\ UNCHANGED <<isRunning, asking, polling, lastSeen, seen, foreign, late>>

\* A request is answered.
Answer(i) ==
  LET r == requests[i] IN
  /\ requests' = Drop(i)
  /\ \E upto \in r.known .. Len(log[r.thread]) :
       \/ upto > r.from /\ Show(r.thread, r.from, upto)
       \/ upto <= r.from /\ quiet[r.thread] < StaleAfter  /\ StillQuiet(r.thread)
       \/ upto <= r.from /\ quiet[r.thread] >= StaleAfter /\ GiveUp(r.thread)
  /\ UNCHANGED <<server, thread, sending, target>>

\* A request fails: the exception is swallowed.
AnswerLost(i) ==
  /\ "lost_requests" \in Faults
  /\ requests' = Drop(i)
  /\ UNCHANGED <<server, thread, sending, target, isRunning, asking, polling,
                 lastSeen, quiet, history>>

-----------------------------------------------------------------------------
(* The user.                                                               *)

\* The input bar is active; it takes one message at a time.
Active  == ~isRunning \/ asking
CanSend == Active /\ sending = "no"

\* Faulty variant: the question stays open until the server has accepted the reply.
SendReplyAskingOn ==
  /\ CanSend
  /\ thread # 0
  /\ asking
  /\ isRunning' = TRUE
  /\ sending' = "resume"
  /\ \/ agent' = [agent EXCEPT ![thread] = "running"]
     \/ "lost_sends" \in Faults /\ UNCHANGED agent
  /\ UNCHANGED <<log, thread, target, asking, polling, lastSeen, quiet, requests,
                 seen, foreign, late>>

\* send() while the chat shows a question: the message is taken for the answer.
\* The run goes on, unless the request does not arrive.
SendReply ==
  /\ CanSend
  /\ thread # 0
  /\ asking
  /\ asking' = FALSE
  /\ isRunning' = TRUE
  /\ sending' = "resume"
  /\ \/ agent' = [agent EXCEPT ![thread] = "running"]
     \/ "lost_sends" \in Faults /\ UNCHANGED agent
  /\ UNCHANGED <<log, thread, target, polling, lastSeen, quiet, requests, seen,
                 foreign, late>>

\* send() otherwise: the session there was is torn down, and the run of a new
\* thread starts, unless the request does not arrive.
SendNew(t) ==
  /\ CanSend
  /\ ~(thread # 0 /\ asking)
  /\ agent[t] = "none"
  /\ \A u \in 1 .. t - 1 : agent[u] # "none"
  /\ thread' = 0
  /\ polling' = FALSE
  /\ lastSeen' = IF thread # 0 THEN 0 ELSE lastSeen
  /\ asking' = FALSE
  /\ isRunning' = TRUE
  /\ sending' = "invoke"
  /\ target' = t
  /\ \/ agent' = [agent EXCEPT ![t] = "running"]
     \/ "lost_sends" \in Faults /\ agent' = [agent EXCEPT ![t] = "lost"]
  /\ seen' = <<>>
  /\ foreign' = 0
  /\ UNCHANGED <<log, quiet, requests, late>>

\* The invoke returns, and startPolling() sends its first request.
InvokeReturns ==
  /\ sending = "invoke" /\ agent[target] # "lost"
  /\ sending' = "no"
  /\ thread' = target
  /\ polling' = TRUE
  /\ lastSeen' = 0
  /\ quiet' = [quiet EXCEPT ![target] = 0]
  /\ Send(NewRequest(target, 0))
  /\ UNCHANGED <<server, target, isRunning, asking, seen, foreign>>

\* The resume returns or fails, or the invoke fails: send() is over.
SendEnds ==
  /\ \/ sending = "resume"
     \/ sending = "invoke" /\ "lost_sends" \in Faults
  /\ sending' = "no"
  /\ UNCHANGED <<server, thread, target, isRunning, asking, polling, lastSeen,
                 quiet, requests, history>>

\* Faulty variant: the polling is not aborted.
ResetKeepingPoll ==
  /\ ~isRunning
  /\ thread' = 0
  /\ lastSeen' = 0
  /\ asking' = FALSE
  /\ seen' = <<>>
  /\ foreign' = 0
  /\ UNCHANGED <<server, sending, target, isRunning, polling, quiet, requests, late>>

\* reset(), by the button "New chat" that is there while nothing runs.
Reset ==
  /\ ~isRunning
  /\ thread' = 0
  /\ polling' = FALSE
  /\ lastSeen' = 0
  /\ asking' = FALSE
  /\ seen' = <<>>
  /\ foreign' = 0
  /\ UNCHANGED <<server, sending, target, isRunning, quiet, requests, late>>

-----------------------------------------------------------------------------
AnswerAny == \E i \in DOMAIN requests : Answer(i)

Next ==
  \/ \E t \in Thread : Run(t) \/ SendNew(t)
  \/ Tick
  \/ AnswerAny
  \/ \E i \in DOMAIN requests : AnswerLost(i)
  \/ SendReply
  \/ InvokeReturns
  \/ SendEnds
  \/ Reset

Spec == Init /\ [][Next]_vars

\* A run ends or asks (AgentGraph), the timer fires, requests do not fail for ever
\* and calls return.  The user owes nothing.
FairSpec ==
  /\ Spec
  /\ \A t \in Thread : WF_vars(Run(t))
  /\ WF_vars(Tick)
  /\ SF_vars(AnswerAny)
  /\ WF_vars(InvokeReturns \/ SendEnds)

-----------------------------------------------------------------------------
(* Properties.                                                             *)

\* Every variable has its type; the chat polls nothing but the thread it shows.
TypeOK ==
  /\ log \in [Thread -> Seq(Kind)]
  /\ agent \in [Thread -> {"none", "lost", "running", "waiting", "ended"}]
  /\ thread \in 0 .. MaxThreads
  /\ sending \in {"no", "invoke", "resume"}
  /\ target \in 0 .. MaxThreads
  /\ isRunning \in BOOLEAN
  /\ asking \in BOOLEAN
  /\ polling \in BOOLEAN
  /\ lastSeen \in Nat
  /\ quiet \in [Thread -> 0 .. StaleAfter]
  /\ requests \in Seq(Request)
  /\ seen \in Seq(Nat)
  /\ foreign \in Nat
  /\ late \in BOOLEAN
  /\ polling => thread # 0
  /\ sending = "invoke" => target # 0

\* The chat handles the events of the thread it shows once each and in order, and
\* those of no other, across replies, new sessions, failing requests and runs that
\* were given up, until an answer is late: two that overlap bring the same events.
HandledInOrder ==
  ~late => /\ foreign = 0
           /\ \A i \in DOMAIN seen : seen[i] = i

\* Until then a reply goes to a run that waits for one: never a second one to the
\* same question, never one to a run that is working, over or given up.
RepliesAnswerQuestions ==
  [][~late /\ sending # "resume" /\ sending' = "resume" => agent[thread] = "waiting"]_vars

\* The rule of DESIGN.md for the input bar: "active when the agent is waiting for a
\* reply, disabled when it isn't".  While the chat follows a thread, its bar is
\* not active while the agent works.
DisabledWhileRunning == polling /\ Active => agent[thread] # "running"

\* What makes them inductive.  The log of a thread: nothing follows its end, and a
\* question that was not seen yet (of those after the first `from`) is its last
\* event, for its run waits for the answer.
EndIsLast ==
  \A t \in Thread :
    /\ agent[t] = "none" => log[t] = <<>>
    /\ \A k \in DOMAIN log[t] : log[t][k] \in {"done", "error"} =>
         agent[t] = "ended" /\ k = Len(log[t])
QuestionIsLast(t, from) ==
  \A k \in DOMAIN log[t] : k > from /\ log[t][k] = "interrupt" =>
    agent[t] = "waiting" /\ k = Len(log[t])

\* At most one request is under way.  It asks for what the polling of `thread` has
\* not seen yet, or it is left over from a thread that has nothing more to say.
OneRequest == Len(requests) <= 1
RequestIsNext ==
  \A i \in DOMAIN requests :
    LET r == requests[i] IN
    IF r.thread = thread THEN polling /\ r.from = lastSeen
    ELSE agent[r.thread] = "ended" /\ r.from >= Len(log[r.thread])

\* The polling is at lastSeen, and has shown all that comes before.
PollingIsCurrent ==
  polling =>
    /\ lastSeen <= Len(log[thread])
    /\ Len(seen) = lastSeen
    /\ QuestionIsLast(thread, lastSeen)

\* What the input bar says of the thread it is the bar of.
IdleIsOver ==
  ~isRunning /\ polling => agent[thread] = "ended" /\ lastSeen = Len(log[thread])
AskingIsWaiting ==
  asking => /\ polling
            /\ agent[thread] = "waiting"
            /\ lastSeen = Len(log[thread])
InvokeIsFirst ==
  sending = "invoke" =>
    thread = 0 /\ isRunning /\ seen = <<>> /\ QuestionIsLast(target, 0)
InStep ==
  /\ EndIsLast /\ OneRequest /\ RequestIsNext /\ PollingIsCurrent
  /\ IdleIsOver /\ AskingIsWaiting /\ InvokeIsFirst /\ HandledInOrder
StreamInv == ~late => InStep

\* An invoke has failed: nothing polls, and nothing clears isRunning.
InvokeFailed == thread = 0 /\ isRunning /\ sending = "no"

\* A late answer has shown a question after its polling had stopped, and the reply
\* has closed the bar again.
Unpolled == late /\ isRunning /\ ~polling /\ sending = "no"

\* What DESIGN.md says of "complete or error": the input bar is active again.
\* However a run ends, falls silent or loses its events, though a reply fails to
\* arrive, polls fail or overlap, the user can type again; the two exceptions are an
\* invoke that fails, and a reply to a question that is not polled any more.
InputComesBack == ~Active ~> Active \/ InvokeFailed \/ Unpolled

\* The polling of a run that is over stops, unless a reply sets it to work again.  It
\* does not matter which of its events were lost, handled twice or, for that, skipped,
\* whether the last one stops the polling ("done") or not ("error"), and which polls fail.
Idling == polling /\ agent[thread] = "ended"
PollingStops == Idling ~> ~Idling
=============================================================================

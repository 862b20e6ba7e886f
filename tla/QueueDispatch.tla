---------------------------- MODULE QueueDispatch ----------------------------
(***************************************************************************)
(* Step dispatch over a message queue: the SQS and the Pub/Sub adapter of   *)
(* worker_agent/dispatch (sqs.py, pubsub.py) under the worker processes of  *)
(* worker_agent/worker/main.py.                                             *)
(*                                                                         *)
(* A message that is received is hidden for LeaseSecs; whoever received it  *)
(* deletes it, hides it longer or shows it again by the receipt of that     *)
(* delivery, which the adapter keeps in a dictionary of its process, by     *)
(* step.  The queue is external: all that is assumed of it is that it hides *)
(* what it delivered, and that the receipt of the last delivery works while *)
(* its message is hidden.  Any other receipt may work or be ignored.  A     *)
(* process has one task at a time, hence never two receipts for a message:  *)
(* a receipt is its message, and the last one is that of the last receiver. *)
(*                                                                         *)
(* The two adapters differ only where a call fails: claim() of Pub/Sub is   *)
(* two calls, of which the second may fail with the first one done (the     *)
(* time for which pull() alone hides a message is taken to be LeaseSecs).   *)
(* SIGTERM changes nothing here (StepDispatch has it).                      *)
(*                                                                         *)
(* History variables: executed and faults, which also bounds the faults.    *)
(***************************************************************************)
EXTENDS Naturals

CONSTANTS
  Worker,       \* WORKER_ID values, one live process each
  Step,         \* step ids
  None,         \* no receipt, no step
  LeaseSecs,    \* LEASE_SECS
  MaxMessages,  \* bound: messages sent
  MaxFaults     \* bound: faults

ASSUME QueueAssumption ==
  /\ None \notin Step \union Worker \union Nat
  /\ LeaseSecs \in Nat \ {0}
  /\ MaxMessages \in Nat
  /\ MaxFaults \in Nat

Message == 1 .. MaxMessages

VARIABLES
  \* the queue
  stepOf,     \* stepOf[m]: the step message m is about; None: not sent yet
  gone,       \* the messages deleted
  hiddenFor,  \* hiddenFor[m]: seconds until m is visible again
  receiver,   \* receiver[m]: who received m last; None: nobody
  \* the worker processes
  pc,         \* where the loop is, as in StepDispatch
  cur,        \* current_step_id while a task runs
  receipts,   \* receipts[w][s]: _receipts, _ack_ids; None: no entry
  hb,         \* its heartbeat task: off, on, dead (extend() raised in it)
  hbIn,       \* seconds left of the heartbeat's sleep
  \* history
  executed,   \* messages whose execution came to an end, with a result or
              \* with the verdict that there is no such tool
  faults      \* faults so far

queue    == <<stepOf, gone, hiddenFor, receiver>>
procVars == <<pc, cur, receipts, hb, hbIn>>
vars     == <<queue, procVars, executed, faults>>

PC == {"poll", "run", "complete", "complete_failed", "release", "down"}
HeartbeatPeriod == LeaseSecs \div 2
NoReceipts == [s \in Step |-> None]

Working(w) == pc[w] \in {"run", "complete", "complete_failed", "release"}

Init ==
  /\ stepOf = [m \in Message |-> None]
  /\ gone = {}
  /\ hiddenFor = [m \in Message |-> 0]
  /\ receiver = [m \in Message |-> None]
  /\ pc = [w \in Worker |-> "poll"]
  /\ cur = [w \in Worker |-> None]
  /\ receipts = [w \in Worker |-> NoReceipts]
  /\ hb = [w \in Worker |-> "off"]
  /\ hbIn = [w \in Worker |-> 0]
  /\ executed = {}
  /\ faults = 0

-----------------------------------------------------------------------------
(* The queue.                                                              *)

Valid(w, m) == m \notin gone /\ receiver[m] = w /\ hiddenFor[m] > 0

\* delete_message(), acknowledge().
Delete(w, m) ==
  /\ \/ gone' = gone \union {m}
     \/ ~Valid(w, m) /\ UNCHANGED gone
  /\ UNCHANGED <<stepOf, hiddenFor, receiver>>

\* change_message_visibility(), modify_ack_deadline().
HideFor(w, m, secs) ==
  /\ \/ hiddenFor' = [hiddenFor EXCEPT ![m] = secs]
     \/ ~Valid(w, m) /\ UNCHANGED hiddenFor
  /\ UNCHANGED <<stepOf, gone, receiver>>

\* receive_message(), pull(): any visible message.
Receive(w, m) ==
  /\ stepOf[m] # None
  /\ m \notin gone
  /\ hiddenFor[m] = 0
  /\ hiddenFor' = [hiddenFor EXCEPT ![m] = LeaseSecs]
  /\ receiver' = [receiver EXCEPT ![m] = w]
  /\ UNCHANGED <<stepOf, gone>>

\* enqueue(): one more message, whether or not there is one for the step.
Enqueue(s) ==
  /\ \E m \in Message :
       /\ stepOf[m] = None
       /\ \A n \in 1 .. m - 1 : stepOf[n] # None
       /\ stepOf' = [stepOf EXCEPT ![m] = s]
  /\ UNCHANGED <<gone, hiddenFor, receiver, procVars, executed, faults>>

-----------------------------------------------------------------------------
(* A worker's loop.                                                        *)

\* The task is over: the worker is back at the loop, or its process has ended and
\* with it the dictionary.
EndTask(w, at) ==
  /\ pc' = [pc EXCEPT ![w] = at]
  /\ cur' = [cur EXCEPT ![w] = None]
  /\ hb' = [hb EXCEPT ![w] = "off"]
  /\ hbIn' = [hbIn EXCEPT ![w] = 0]

\* _receipts.pop(step_id), _ack_ids.pop(step_id, None).
Pop(w) == [receipts EXCEPT ![w][cur[w]] = None]

\* The message the worker is at work on: that of the receipt under its step.
AtHand(w) == receipts[w][cur[w]]

Fault == faults < MaxFaults /\ faults' = faults + 1

\* Faulty variant: the message is deleted as soon as it was received.
ClaimAcking(w) ==
  /\ pc[w] = "poll"
  /\ \E m \in Message :
       /\ stepOf[m] # None /\ m \notin gone /\ hiddenFor[m] = 0
       /\ gone' = gone \union {m}
       /\ receiver' = [receiver EXCEPT ![m] = w]
       /\ cur' = [cur EXCEPT ![w] = stepOf[m]]
       /\ receipts' = [receipts EXCEPT ![w][stepOf[m]] = m]
  /\ pc' = [pc EXCEPT ![w] = "run"]
  /\ hb' = [hb EXCEPT ![w] = "on"]
  /\ hbIn' = [hbIn EXCEPT ![w] = HeartbeatPeriod]
  /\ UNCHANGED <<stepOf, hiddenFor, executed, faults>>

\* claim(): the step id it is given is ignored.  The receipt is entered under the
\* step of the message, and the worker starts executing with a heartbeat.
Claim(w) ==
  /\ pc[w] = "poll"
  /\ \E m \in Message :
       /\ Receive(w, m)
       /\ cur' = [cur EXCEPT ![w] = stepOf[m]]
       /\ receipts' = [receipts EXCEPT ![w][stepOf[m]] = m]
  /\ pc' = [pc EXCEPT ![w] = "run"]
  /\ hb' = [hb EXCEPT ![w] = "on"]
  /\ hbIn' = [hbIn EXCEPT ![w] = HeartbeatPeriod]
  /\ UNCHANGED <<executed, faults>>

\* claim() raises, with a message received or without: nothing in the loop
\* catches it, and the process ends.
ClaimFails(w) ==
  /\ pc[w] = "poll"
  /\ Fault
  /\ \/ \E m \in Message : Receive(w, m)
     \/ UNCHANGED queue
  /\ EndTask(w, "down")
  /\ receipts' = [receipts EXCEPT ![w] = NoReceipts]
  /\ UNCHANGED executed

\* The tool returns or does not exist; or, a fault, it raises.
ToolEnds(w) ==
  /\ pc[w] = "run"
  /\ \/ /\ \E at \in {"complete", "complete_failed"} : pc' = [pc EXCEPT ![w] = at]
        /\ executed' = executed \union {AtHand(w)}
        /\ UNCHANGED faults
     \/ /\ Fault
        /\ pc' = [pc EXCEPT ![w] = "release"]
        /\ UNCHANGED executed
  /\ hb' = [hb EXCEPT ![w] = "off"]
  /\ hbIn' = [hbIn EXCEPT ![w] = 0]
  /\ UNCHANGED <<queue, cur, receipts>>

\* Faulty variant: the receipt stays in the dictionary.
CompleteKeepingReceipt(w) ==
  /\ pc[w] \in {"complete", "complete_failed"}
  /\ Delete(w, AtHand(w))
  /\ EndTask(w, "poll")
  /\ UNCHANGED <<receipts, executed, faults>>

\* Faulty variant: the receipt is popped and the message not deleted.
CompleteNotDeleting(w) ==
  /\ pc[w] \in {"complete", "complete_failed"}
  /\ receipts' = Pop(w)
  /\ EndTask(w, "poll")
  /\ UNCHANGED <<queue, executed, faults>>

\* complete(): nothing is written (_write_result_to_postgres is a placeholder);
\* the message is deleted, and nobody learns whether the receipt still counted.
Complete(w) ==
  /\ pc[w] \in {"complete", "complete_failed"}
  /\ Delete(w, AtHand(w))
  /\ receipts' = Pop(w)
  /\ EndTask(w, "poll")
  /\ UNCHANGED <<executed, faults>>

\* The delete raises, done or not, when the receipt is already popped.  In the try
\* block release() then finds no receipt and does nothing; in the handler of
\* UnknownToolError nothing catches it, and the process ends.
CompleteFails(w) ==
  /\ pc[w] \in {"complete", "complete_failed"}
  /\ Fault
  /\ Delete(w, AtHand(w)) \/ UNCHANGED queue
  /\ receipts' = Pop(w)
  /\ EndTask(w, IF pc[w] = "complete" THEN "poll" ELSE "down")
  /\ UNCHANGED executed

\* Faulty variant: the message is deleted instead of shown again.
ReleaseDeleting(w) ==
  /\ pc[w] = "release"
  /\ Delete(w, AtHand(w))
  /\ receipts' = Pop(w)
  /\ EndTask(w, "poll")
  /\ UNCHANGED <<executed, faults>>

\* release() after an exception: the message is shown again.
Release(w) ==
  /\ pc[w] = "release"
  /\ HideFor(w, AtHand(w), 0)
  /\ receipts' = Pop(w)
  /\ EndTask(w, "poll")
  /\ UNCHANGED <<executed, faults>>

\* It raises, which is swallowed.
ReleaseFails(w) ==
  /\ pc[w] = "release"
  /\ Fault
  /\ receipts' = Pop(w)
  /\ EndTask(w, "poll")
  /\ UNCHANGED <<queue, executed>>

-----------------------------------------------------------------------------
(* The heartbeat, time, crashes.                                           *)

Due(w) == hb[w] = "on" /\ hbIn[w] = 0

\* Faulty variant: the sleep starts over, but the message is not hidden longer.
HeartbeatNotExtending(w) ==
  /\ Due(w)
  /\ hbIn' = [hbIn EXCEPT ![w] = HeartbeatPeriod]
  /\ UNCHANGED <<queue, pc, cur, receipts, hb, executed, faults>>

\* Faulty variant: the message is hidden for another lease on top of what is left.
HeartbeatAddsUp(w) ==
  /\ Due(w)
  /\ HideFor(w, AtHand(w), LeaseSecs + hiddenFor[AtHand(w)])
  /\ hbIn' = [hbIn EXCEPT ![w] = HeartbeatPeriod]
  /\ UNCHANGED <<pc, cur, receipts, hb, executed, faults>>

\* extend(): there is a receipt as long as the task runs, so that it never tells
\* the heartbeat that the lease was stolen.
Heartbeat(w) ==
  /\ Due(w)
  /\ HideFor(w, AtHand(w), LeaseSecs)
  /\ hbIn' = [hbIn EXCEPT ![w] = HeartbeatPeriod]
  /\ UNCHANGED <<pc, cur, receipts, hb, executed, faults>>

\* extend() raises: the exception ends the heartbeat task, unseen.
HeartbeatFails(w) ==
  /\ Due(w)
  /\ Fault
  /\ hb' = [hb EXCEPT ![w] = "dead"]
  /\ UNCHANGED <<queue, pc, cur, receipts, hbIn, executed>>

\* The worker waits for an answer of the queue or for its heartbeat to be sent.
CallPending(w) == Due(w) \/ pc[w] \in {"complete", "complete_failed", "release"}

\* One second passes.  That it passes while a call is pending is a fault.
Tick ==
  /\ \/ \E m \in Message : hiddenFor[m] > 0
     \/ \E w \in Worker : hbIn[w] > 0
  /\ IF \E w \in Worker : CallPending(w) THEN Fault ELSE UNCHANGED faults
  /\ hiddenFor' = [m \in Message |-> IF hiddenFor[m] = 0 THEN 0
                                                         ELSE hiddenFor[m] - 1]
  /\ hbIn' = [w \in Worker |-> IF hbIn[w] = 0 THEN 0 ELSE hbIn[w] - 1]
  /\ UNCHANGED <<stepOf, gone, receiver, pc, cur, receipts, hb, executed>>

\* A process dies; its dictionary dies with it.
Crash(w) ==
  /\ pc[w] # "down"
  /\ Fault
  /\ EndTask(w, "down")
  /\ receipts' = [receipts EXCEPT ![w] = NoReceipts]
  /\ UNCHANGED <<queue, executed>>

Restart(w) ==
  /\ pc[w] = "down"
  /\ pc' = [pc EXCEPT ![w] = "poll"]
  /\ UNCHANGED <<queue, cur, receipts, hb, hbIn, executed, faults>>

-----------------------------------------------------------------------------
Loop(w) == Claim(w) \/ ToolEnds(w) \/ Complete(w) \/ Release(w)
Failing(w) ==
  ClaimFails(w) \/ CompleteFails(w) \/ ReleaseFails(w) \/ HeartbeatFails(w)
    \/ Crash(w)

Next ==
  \/ \E s \in Step : Enqueue(s)
  \/ \E w \in Worker : Loop(w) \/ Heartbeat(w) \/ Failing(w) \/ Restart(w)
  \/ Tick

Spec == Init /\ [][Next]_vars

\* Processes that are up go on, tools end, time passes.  Nobody need enqueue or
\* restart a process, and nothing need fail.
FairSpec ==
  /\ Spec
  /\ \A w \in Worker : WF_vars(Loop(w)) /\ WF_vars(Heartbeat(w))
  /\ WF_vars(Tick)

-----------------------------------------------------------------------------
(* Properties.                                                             *)

\* Every variable has its type; a message is hidden for at most a lease.
TypeOK ==
  /\ stepOf \in [Message -> Step \union {None}]
  /\ gone \subseteq Message
  /\ hiddenFor \in [Message -> 0 .. LeaseSecs]
  /\ receiver \in [Message -> Worker \union {None}]
  /\ pc \in [Worker -> PC]
  /\ cur \in [Worker -> Step \union {None}]
  /\ \A w \in Worker : cur[w] # None <=> Working(w)
  /\ receipts \in [Worker -> [Step -> Message \union {None}]]
  /\ hb \in [Worker -> {"off", "on", "dead"}]
  /\ hbIn \in [Worker -> 0 .. HeartbeatPeriod]
  /\ executed \subseteq Message
  /\ faults \in 0 .. MaxFaults

\* The dictionary of a process holds one receipt while a task runs, for a message
\* about its step, and none otherwise: complete() finds what it pops, release()
\* and extend() act on the message at hand, and nothing is left behind, through
\* redeliveries, failing calls and second messages for a step.
OneReceiptAtHand ==
  \A w \in Worker, s \in Step :
    IF Working(w) /\ cur[w] = s
      THEN receipts[w][s] # None /\ stepOf[receipts[w][s]] = s
      ELSE receipts[w][s] = None

\* Delivery is at least once: a message leaves the queue only when one of its
\* deliveries was executed to its end.
NothingLost == gone \subseteq executed

\* As long as nothing has failed, no two workers are at work on one message, and no
\* message is worked on again once it is gone: the heartbeat of period
\* LEASE_SECS // 2 keeps it hidden, and nothing is left to lapse after it ended.
Exclusive ==
  faults = 0 =>
    \A v, w \in Worker :
      Working(v) /\ Working(w) /\ AtHand(v) = AtHand(w)
        => v = w /\ AtHand(v) \notin gone

\* What makes NothingLost inductive: complete() is called after an execution ended.
EndedIsExecuted ==
  \A w \in Worker : pc[w] \in {"complete", "complete_failed"}
                      => AtHand(w) \in executed

\* What makes Exclusive inductive: the message at hand was received last by its
\* worker and is hidden still, for at least half a lease longer than its heartbeat
\* sleeps.
HeldWhileWorking ==
  faults = 0 =>
    \A w \in Worker : Working(w) =>
      LET m == AtHand(w) IN
      /\ m \notin gone /\ receiver[m] = w /\ hiddenFor[m] > 0
      /\ pc[w] = "run" =>
           hb[w] = "on" /\ hiddenFor[m] >= hbIn[w] + (LeaseSecs - HeartbeatPeriod)

\* A message that was sent is executed and deleted in the end, whatever failed on
\* the way, unless no process is left to do it.
MessagesDone ==
  \A m \in Message :
    stepOf[m] # None ~> m \in gone \/ \A w \in Worker : pc[w] = "down"
=============================================================================

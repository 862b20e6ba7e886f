---------------------------- MODULE StepDispatch ----------------------------
(***************************************************************************)
(* Step dispatch over PostgreSQL: the `steps` and `step_results` tables as  *)
(* worker_agent/dispatch/postgres.py changes them, and the worker processes *)
(* of worker_agent/worker/main.py that claim, execute, heartbeat, complete  *)
(* and release steps.                                                       *)
(*                                                                         *)
(* Every SQL statement (or transaction) is one atomic action; everything    *)
(* between two awaits of a worker is one step of that worker, so that the   *)
(* SELECT that finds a pending step and the UPDATE that claims it are two   *)
(* steps, as they are in the code.  Time is a countdown: leaseLeft[s] is    *)
(* lock_expires_at - now() and hbIn[w] what is left of the heartbeat's      *)
(* sleep; Tick lets one second pass for all of them.                        *)
(*                                                                         *)
(* History variables: claimant, enqueues and the field `exec` of a result   *)
(* row; no action reads them.                                               *)
(***************************************************************************)
EXTENDS Integers, Sequences

CONSTANTS
  Worker,       \* WORKER_ID values, one live process each
  Step,         \* ids in the steps table
  NoOne,        \* SQL NULL in lock_token, Python None
  LeaseSecs,    \* LEASE_SECS
  Outcomes,     \* how executing a message can end, a subset of Outcome
  Reliable,     \* TRUE: processes do not crash, database calls succeed and
                \* heartbeats wake up on time; FALSE: none of that is assumed
  MaxClaims,    \* bound: claims of one step
  MaxEnqueues   \* bound: calls of enqueue for one step

Outcome == {"completed", "unknown_tool", "raised"}

ASSUME DispatchAssumption ==
  /\ NoOne \notin Worker
  /\ NoOne \notin Step
  /\ LeaseSecs \in Nat
  /\ Outcomes \subseteq Outcome
  /\ Reliable \in BOOLEAN
  /\ MaxClaims \in Nat
  /\ MaxEnqueues \in Nat

VARIABLES
  \* the database
  status,         \* steps.status
  lockToken,      \* steps.lock_token
  leaseLeft,      \* steps.lock_expires_at - now(); below 0: expired or NULL
  attempts,       \* steps.attempts
  results,        \* step_results rows of the step, in commit order
  \* the worker processes
  pc,             \* where the worker's loop is
  cur,            \* the step id it looks at or executes
  msgAttempt,     \* StepMessage.attempt of the step it executes
  hb,             \* its heartbeat task: off (cancelled or none), on, lost (it
                  \* saw the lease stolen), dead (extend() raised in it)
  hbIn,           \* seconds left of the heartbeat task's sleep
  mainAccepting,  \* Worker.accepting of the object main() gives to SIGTERM
  loopAccepting,  \* Worker.accepting of the object run_worker() loops on
  \* history
  claimant,       \* claimant[s][a]: who made claim number a of s
  enqueues        \* calls of enqueue so far

dbVars   == <<status, lockToken, leaseLeft, attempts, results>>
procVars == <<pc, cur, msgAttempt, hb, hbIn, mainAccepting, loopAccepting>>
vars     == <<dbVars, procVars, claimant, enqueues>>

Final  == {"completed", "failed"}
Status == {"PENDING", "RUNNING"} \union Final
Row    == [attempt : Nat, worker : Worker, status : Final, exec : Nat]

\* The places where a worker process can be waiting:
\*   poll      at the top of the loop     complete        about to complete()
\*   claim     about to call claim()      complete_failed the same, as failed
\*   run       the tool is executing      release         about to release()
\*   down      there is no process
PC == {"poll", "claim", "run", "complete", "complete_failed", "release", "down"}

HeartbeatPeriod == LeaseSecs \div 2

Expired(s)   == leaseLeft[s] < 0
Holds(w, s)  == lockToken[s] = w
Working(w)   == pc[w] \in {"run", "complete", "complete_failed", "release"}

Init ==
  /\ status        = [s \in Step |-> "PENDING"]
  /\ lockToken     = [s \in Step |-> NoOne]
  /\ leaseLeft     = [s \in Step |-> -1]
  /\ attempts      = [s \in Step |-> 0]
  /\ results       = [s \in Step |-> <<>>]
  /\ pc            = [w \in Worker |-> "poll"]
  /\ cur           = [w \in Worker |-> NoOne]
  /\ msgAttempt    = [w \in Worker |-> 0]
  /\ hb            = [w \in Worker |-> "off"]
  /\ hbIn          = [w \in Worker |-> 0]
  /\ mainAccepting = [w \in Worker |-> TRUE]
  /\ loopAccepting = [w \in Worker |-> TRUE]
  /\ claimant      = [s \in Step |-> <<>>]
  /\ enqueues      = [s \in Step |-> 0]

-----------------------------------------------------------------------------
(* The control plane.                                                      *)

\* enqueue(): an unconditional UPDATE of the status.  It looks neither at the
\* status nor at the lease, which it leaves as they are.
Enqueue(s) ==
  /\ enqueues[s] < MaxEnqueues
  /\ status'   = [status EXCEPT ![s] = "PENDING"]
  /\ enqueues' = [enqueues EXCEPT ![s] = enqueues[s] + 1]
  /\ UNCHANGED <<lockToken, leaseLeft, attempts, results, procVars, claimant>>

-----------------------------------------------------------------------------
(* One turn of a worker's loop.                                            *)

\* The worker goes back to the top of the loop; the heartbeat is cancelled.
BackToLoop(w, at) ==
  /\ pc'         = [pc EXCEPT ![w] = at]
  /\ cur'        = [cur EXCEPT ![w] = NoOne]
  /\ msgAttempt' = [msgAttempt EXCEPT ![w] = 0]
  /\ hb'         = [hb EXCEPT ![w] = "off"]
  /\ hbIn'       = [hbIn EXCEPT ![w] = 0]

\* next_pending_step_id(): some row with status PENDING, whoever locks it.
Pick(w) ==
  /\ pc[w] = "poll"
  /\ loopAccepting[w]
  /\ \E s \in Step :
       /\ status[s] = "PENDING"
       /\ cur' = [cur EXCEPT ![w] = s]
  /\ pc' = [pc EXCEPT ![w] = "claim"]
  /\ UNCHANGED <<dbVars, msgAttempt, hb, hbIn, mainAccepting, loopAccepting,
                 claimant, enqueues>>

\* Faulty variant: a claim that does not look at the lock.
ClaimableWhenLocked(s) == status[s] = "PENDING"

\* Faulty variant: without IS NULL, which an expiry of NULL does not satisfy.
ClaimableExpiredOnly(s) ==
  /\ status[s] = "PENDING"
  /\ lockToken[s] # NoOne /\ Expired(s)

\* The WHERE clause of claim().
Claimable(s) ==
  /\ status[s] = "PENDING"
  /\ lockToken[s] = NoOne \/ Expired(s)

\* claim() updates the row, and the worker starts executing with a heartbeat.
ClaimWins(w) ==
  LET s == cur[w] IN
  /\ pc[w] = "claim"
  /\ Claimable(s)
  /\ attempts[s] < MaxClaims
  /\ status'     = [status EXCEPT ![s] = "RUNNING"]
  /\ lockToken'  = [lockToken EXCEPT ![s] = w]
  /\ leaseLeft'  = [leaseLeft EXCEPT ![s] = LeaseSecs]
  /\ attempts'   = [attempts EXCEPT ![s] = attempts[s] + 1]
  /\ claimant'   = [claimant EXCEPT ![s] = Append(claimant[s], w)]
  /\ pc'         = [pc EXCEPT ![w] = "run"]
  /\ msgAttempt' = [msgAttempt EXCEPT ![w] = attempts[s] + 1]
  /\ hb'         = [hb EXCEPT ![w] = "on"]
  /\ hbIn'       = [hbIn EXCEPT ![w] = HeartbeatPeriod]
  /\ UNCHANGED <<results, cur, mainAccepting, loopAccepting, enqueues>>

\* claim() matches no row: somebody was faster; the worker polls again.
ClaimLoses(w) ==
  /\ pc[w] = "claim"
  /\ ~Claimable(cur[w])
  /\ BackToLoop(w, "poll")
  /\ UNCHANGED <<dbVars, mainAccepting, loopAccepting, claimant, enqueues>>

\* The tool returns, does not exist, or raises.  On every path the heartbeat is
\* cancelled before the adapter is called.
ToolEnds(w) ==
  /\ pc[w] = "run"
  /\ \E o \in Outcomes :
       pc' = [pc EXCEPT ![w] = CASE o = "completed"    -> "complete"
                                 [] o = "unknown_tool" -> "complete_failed"
                                 [] o = "raised"       -> "release"]
  /\ hb'   = [hb EXCEPT ![w] = "off"]
  /\ hbIn' = [hbIn EXCEPT ![w] = 0]
  /\ UNCHANGED <<dbVars, cur, msgAttempt, mainAccepting, loopAccepting,
                 claimant, enqueues>>

\* Faulty variants of the transaction of complete(): the result is written
\* without looking at the lock token; the token is not cleared; the status of
\* the step is not updated.
CommitUnguarded(w, s, st) ==
  /\ results'   = [results EXCEPT ![s] =
                     Append(results[s], [attempt |-> attempts[s], worker |-> w,
                                         status |-> st, exec |-> msgAttempt[w]])]
  /\ status'    = [status EXCEPT ![s] = st]
  /\ lockToken' = [lockToken EXCEPT ![s] = NoOne]
  /\ leaseLeft' = [leaseLeft EXCEPT ![s] = -1]
  /\ UNCHANGED attempts

CommitKeepingLock(w, s, st) ==
  /\ Holds(w, s)
  /\ results'   = [results EXCEPT ![s] =
                     Append(results[s], [attempt |-> attempts[s], worker |-> w,
                                         status |-> st, exec |-> msgAttempt[w]])]
  /\ status'    = [status EXCEPT ![s] = st]
  /\ UNCHANGED <<attempts, lockToken, leaseLeft>>

\* The transaction of complete(): the row inserted into step_results carries the
\* attempts of the table, not of the message, and is rolled back unless the
\* UPDATE of the step matches the lock token.
CommitResult(w, s, st) ==
  /\ Holds(w, s)
  /\ results'   = [results EXCEPT ![s] =
                     Append(results[s], [attempt |-> attempts[s], worker |-> w,
                                         status |-> st, exec |-> msgAttempt[w]])]
  /\ status'    = [status EXCEPT ![s] = st]
  /\ lockToken' = [lockToken EXCEPT ![s] = NoOne]
  /\ leaseLeft' = [leaseLeft EXCEPT ![s] = -1]
  /\ UNCHANGED attempts

\* complete() succeeds, for a result of either kind.
Complete(w) ==
  /\ \/ pc[w] = "complete"        /\ CommitResult(w, cur[w], "completed")
     \/ pc[w] = "complete_failed" /\ CommitResult(w, cur[w], "failed")
  /\ BackToLoop(w, "poll")
  /\ UNCHANGED <<mainAccepting, loopAccepting, claimant, enqueues>>

\* complete() raises LeaseExpiredError.  In the try block it is caught and the
\* result discarded; in the handler of UnknownToolError no clause catches it, so
\* that it ends run_worker() and the process with it.
CompleteLeaseLost(w) ==
  /\ pc[w] \in {"complete", "complete_failed"}
  /\ ~Holds(w, cur[w])
  /\ BackToLoop(w, IF pc[w] = "complete" THEN "poll" ELSE "down")
  /\ UNCHANGED <<dbVars, mainAccepting, loopAccepting, claimant, enqueues>>

\* Faulty variants of release(): by step id only, whoever holds the token; and
\* one that leaves the token in the row.
ReleaseUnguarded(w) ==
  LET s == cur[w] IN
  /\ pc[w] = "release"
  /\ status'    = [status EXCEPT ![s] = "PENDING"]
  /\ lockToken' = [lockToken EXCEPT ![s] = NoOne]
  /\ leaseLeft' = [leaseLeft EXCEPT ![s] = -1]
  /\ BackToLoop(w, "poll")
  /\ UNCHANGED <<attempts, results, mainAccepting, loopAccepting, claimant,
                 enqueues>>

ReleaseKeepingLock(w) ==
  LET s == cur[w] IN
  /\ pc[w] = "release"
  /\ IF Holds(w, s)
       THEN /\ status' = [status EXCEPT ![s] = "PENDING"]
            /\ UNCHANGED <<lockToken, leaseLeft, attempts, results>>
       ELSE UNCHANGED dbVars
  /\ BackToLoop(w, "poll")
  /\ UNCHANGED <<mainAccepting, loopAccepting, claimant, enqueues>>

\* release() after an exception.
Release(w) ==
  LET s == cur[w] IN
  /\ pc[w] = "release"
  /\ IF Holds(w, s)
       THEN /\ status'    = [status EXCEPT ![s] = "PENDING"]
            /\ lockToken' = [lockToken EXCEPT ![s] = NoOne]
            /\ leaseLeft' = [leaseLeft EXCEPT ![s] = -1]
            /\ UNCHANGED <<attempts, results>>
       ELSE UNCHANGED dbVars
  /\ BackToLoop(w, "poll")
  /\ UNCHANGED <<mainAccepting, loopAccepting, claimant, enqueues>>

-----------------------------------------------------------------------------
(* The heartbeat task, SIGTERM and time.                                   *)

\* Faulty variant: extend() adds to the old expiry instead of to now().
HeartbeatAddsUp(w) ==
  LET s == cur[w] IN
  /\ pc[w] = "run"
  /\ hb[w] = "on"
  /\ hbIn[w] = 0
  /\ Holds(w, s)
  /\ leaseLeft' = [leaseLeft EXCEPT ![s] = leaseLeft[s] + LeaseSecs]
  /\ hbIn' = [hbIn EXCEPT ![w] = HeartbeatPeriod]
  /\ UNCHANGED <<status, lockToken, attempts, results, pc, cur, msgAttempt, hb,
                 mainAccepting, loopAccepting, claimant, enqueues>>

\* heartbeat_task() wakes up and calls extend(), whose WHERE clause looks only at
\* the lock token.  When it matches no row the task raises LeaseExpiredError into
\* itself: nothing awaits it, and the execution goes on.
Heartbeat(w) ==
  LET s == cur[w] IN
  /\ pc[w] = "run"
  /\ hb[w] = "on"
  /\ hbIn[w] = 0
  /\ \/ /\ Holds(w, s)
        /\ leaseLeft' = [leaseLeft EXCEPT ![s] = LeaseSecs]
        /\ hbIn' = [hbIn EXCEPT ![w] = HeartbeatPeriod]
        /\ UNCHANGED hb
     \/ /\ ~Holds(w, s)
        /\ hb' = [hb EXCEPT ![w] = "lost"]
        /\ UNCHANGED <<leaseLeft, hbIn>>
  /\ UNCHANGED <<status, lockToken, attempts, results, pc, cur, msgAttempt,
                 mainAccepting, loopAccepting, claimant, enqueues>>

\* The SIGTERM handler runs graceful_shutdown() on the Worker object of main(),
\* whose current_task is always None: it clears that object's `accepting` and
\* returns.  The loop reads the `accepting` of the object run_worker() created.
Sigterm(w) ==
  /\ pc[w] # "down"
  /\ mainAccepting[w]
  /\ mainAccepting' = [mainAccepting EXCEPT ![w] = FALSE]
  /\ UNCHANGED <<dbVars, pc, cur, msgAttempt, hb, hbIn, loopAccepting,
                 claimant, enqueues>>

\* One second passes.  A reliable worker's heartbeat is never late.
Tick ==
  /\ Reliable => \A w \in Worker : hb[w] = "on" => hbIn[w] > 0
  /\ leaseLeft' = [s \in Step |-> IF Expired(s) THEN leaseLeft[s]
                                                ELSE leaseLeft[s] - 1]
  /\ hbIn' = [w \in Worker |-> IF hbIn[w] = 0 THEN 0 ELSE hbIn[w] - 1]
  /\ UNCHANGED <<status, lockToken, attempts, results, pc, cur, msgAttempt, hb,
                 mainAccepting, loopAccepting, claimant, enqueues>>

-----------------------------------------------------------------------------
(* Faults, when the environment is not Reliable.                           *)

\* extend() raises: the exception ends the heartbeat task, unseen.
HeartbeatFails(w) ==
  /\ ~Reliable
  /\ hb[w] = "on"
  /\ hb' = [hb EXCEPT ![w] = "dead"]
  /\ UNCHANGED <<dbVars, pc, cur, msgAttempt, hbIn, mainAccepting,
                 loopAccepting, claimant, enqueues>>

\* complete() raises another exception than LeaseExpiredError, before or after
\* the transaction was committed.  The handler of the try block releases the
\* step; raised in the handler of UnknownToolError it ends the process.
CompleteFails(w) ==
  /\ ~Reliable
  /\ \/ /\ pc[w] = "complete"
        /\ CommitResult(w, cur[w], "completed") \/ UNCHANGED dbVars
        /\ pc' = [pc EXCEPT ![w] = "release"]
        /\ UNCHANGED <<cur, msgAttempt, hb, hbIn>>
     \/ /\ pc[w] = "complete_failed"
        /\ CommitResult(w, cur[w], "failed") \/ UNCHANGED dbVars
        /\ BackToLoop(w, "down")
  /\ UNCHANGED <<mainAccepting, loopAccepting, claimant, enqueues>>

\* release() raises: the exception is swallowed.
ReleaseFails(w) ==
  /\ ~Reliable
  /\ pc[w] = "release"
  /\ BackToLoop(w, "poll")
  /\ UNCHANGED <<dbVars, mainAccepting, loopAccepting, claimant, enqueues>>

\* The process dies: killed, out of memory, or by an exception of the polling
\* SELECT or of claim(), which nothing in the loop catches.
Crash(w) ==
  /\ ~Reliable
  /\ pc[w] # "down"
  /\ BackToLoop(w, "down")
  /\ UNCHANGED <<dbVars, mainAccepting, loopAccepting, claimant, enqueues>>

\* A new process starts under the same WORKER_ID.
Restart(w) ==
  /\ pc[w] = "down"
  /\ pc' = [pc EXCEPT ![w] = "poll"]
  /\ mainAccepting' = [mainAccepting EXCEPT ![w] = TRUE]
  /\ loopAccepting' = [loopAccepting EXCEPT ![w] = TRUE]
  /\ UNCHANGED <<dbVars, cur, msgAttempt, hb, hbIn, claimant, enqueues>>

-----------------------------------------------------------------------------
WorkerLoop(w) ==
  \/ Pick(w)
  \/ ClaimWins(w)
  \/ ClaimLoses(w)
  \/ ToolEnds(w)
  \/ Complete(w)
  \/ CompleteLeaseLost(w)
  \/ Release(w)

Fault(w) ==
  \/ HeartbeatFails(w)
  \/ CompleteFails(w)
  \/ ReleaseFails(w)
  \/ Crash(w)

Next ==
  \/ \E s \in Step : Enqueue(s)
  \/ \E w \in Worker :
       WorkerLoop(w) \/ Heartbeat(w) \/ Sigterm(w) \/ Fault(w) \/ Restart(w)
  \/ Tick

Spec == Init /\ [][Next]_vars

\* A process that is up keeps running its event loop, and a tool returns.
Fairness == \A w \in Worker : WF_vars(WorkerLoop(w)) /\ WF_vars(Heartbeat(w))

FairSpec == Spec /\ Fairness
-----------------------------------------------------------------------------
(* Properties.                                                             *)

\* Every variable has its type: in particular, the lease of a step never runs
\* past LEASE_SECS and the heartbeat never sleeps longer than half of it.
TypeOK ==
  /\ status \in [Step -> Status]
  /\ lockToken \in [Step -> Worker \union {NoOne}]
  /\ leaseLeft \in [Step -> -1 .. LeaseSecs]
  /\ attempts \in [Step -> Nat]
  /\ results \in [Step -> Seq(Row)]
  /\ pc \in [Worker -> PC]
  /\ cur \in [Worker -> Step \union {NoOne}]
  /\ \A w \in Worker : cur[w] = NoOne <=> pc[w] \in {"poll", "down"}
  /\ msgAttempt \in [Worker -> Nat]
  /\ hb \in [Worker -> {"off", "on", "lost", "dead"}]
  /\ hbIn \in [Worker -> 0 .. HeartbeatPeriod]
  /\ mainAccepting \in [Worker -> BOOLEAN]
  /\ loopAccepting \in [Worker -> BOOLEAN]
  /\ claimant \in [Step -> Seq(Worker)]
  /\ enqueues \in [Step -> Nat]

\* One claim of a step yields at most one row of step_results, whatever leases
\* lapse, workers crash or requests to enqueue arrive meanwhile: the primary key
\* of the table is a serial number and would not refuse a second row.
OneResultPerClaim ==
  \A s \in Step : \A i, j \in DOMAIN results[s] :
    results[s][i].attempt = results[s][j].attempt => i = j

\* A row is attributed to the claim it came from: complete() reads the attempt
\* number from the table at the time of the write, and yet the row names the
\* attempt its worker executed and the worker that made that claim.
ResultOfOwnClaim ==
  \A s \in Step : \A i \in DOMAIN results[s] :
    LET row == results[s][i] IN
    /\ row.exec = row.attempt
    /\ row.attempt \in DOMAIN claimant[s]
    /\ row.worker = claimant[s][row.attempt]

\* What makes the two invariants above inductive: every claim is recorded and the
\* token is that of the latest one; the rows of a locked step stem from earlier
\* claims; and a worker that still holds the token executes the latest claim.
ClaimsRecorded ==
  /\ \A s \in Step : Len(claimant[s]) = attempts[s]
  /\ \A s \in Step : lockToken[s] # NoOne =>
       attempts[s] > 0 /\ claimant[s][attempts[s]] = lockToken[s]
HolderIsCurrent ==
  \A w \in Worker : Working(w) /\ Holds(w, cur[w])
                     => msgAttempt[w] = attempts[cur[w]]
RowsPrecedeLock ==
  \A s \in Step : \A i \in DOMAIN results[s] :
    LET row == results[s][i] IN
    /\ row.attempt \in 1 .. attempts[s]
    /\ lockToken[s] # NoOne => row.attempt < attempts[s]
LedgerInv == ClaimsRecorded /\ HolderIsCurrent /\ RowsPrecedeLock
               /\ OneResultPerClaim /\ ResultOfOwnClaim

\* A step that is completed or failed is not reopened by a worker that comes
\* late (its release, its claim of a step id picked long ago): only enqueue()
\* makes it pending again.
FinishedStaysFinished ==
  [][\A s \in Step : status[s] \in Final /\ status'[s] # status[s]
                       => enqueues'[s] > enqueues[s]]_vars

\* What makes FinishedStaysFinished hold: a finished step is not locked.
FinishedUnlocked == \A s \in Step : status[s] \in Final => lockToken[s] = NoOne

\* While processes, database and clocks behave, a step is executed by one worker
\* at a time, even if it is enqueued again during its execution: the heartbeat of
\* period LEASE_SECS // 2 keeps the lease from lapsing and claim() respects it.
Exclusive ==
  \A v, w \in Worker :
    pc[v] = "run" /\ pc[w] = "run" /\ cur[v] = cur[w] => v = w

\* What makes Exclusive inductive: an executing worker holds the token, and its
\* lease outlasts its heartbeat's sleep by the other half of the lease.
LeaseOutlivesSleep ==
  \A w \in Worker : pc[w] = "run" =>
    /\ Holds(w, cur[w])
    /\ hb[w] = "on"
    /\ leaseLeft[cur[w]] >= hbIn[w] + (LeaseSecs - HeartbeatPeriod)

\* While processes, database and clocks behave, a locked step is in the hands of
\* the worker its lock_token names: no step is left behind in status RUNNING.
NoOrphans ==
  \A s \in Step :
    /\ status[s] = "RUNNING" => lockToken[s] # NoOne
    /\ lockToken[s] # NoOne => Working(lockToken[s]) /\ cur[lockToken[s]] = s

\* The dispatch layer implements its contract: the token holder is the holder of
\* the grant, the attempts are its epochs, the rows its committed results.
Entries(rows) == [i \in DOMAIN rows |->
                    [epoch |-> rows[i].attempt, by |-> rows[i].worker]]

Ledger == INSTANCE StepLedger
            WITH holder <- lockToken,
                 epoch  <- attempts,
                 ledger <- [s \in Step |-> Entries(results[s])]

ImplementsLedger == Ledger!LedgerSpec

\* While processes, database and clocks behave, every pending step is eventually
\* completed or failed, whoever loses the race to claim it, however often it is
\* enqueued again and whatever its tool does, unless the tool raises at every claim
\* there is (MaxClaims), of this step or of one that is tried before it: a released
\* step is taken up again.
PendingStepsComplete ==
  \A s \in Step :
    status[s] = "PENDING" ~> \/ status[s] \in Final
                             \/ \E t \in Step : attempts[t] = MaxClaims
=============================================================================

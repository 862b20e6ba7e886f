------------------------ MODULE StepDispatch_proofs ------------------------
(***************************************************************************)
(* Proofs about StepDispatch, for any set of workers and steps, any lease   *)
(* and any bounds.                                                          *)
(***************************************************************************)
EXTENDS StepDispatch, TLAPS

\* What one disjunct of Next may be, spelled out once for the case splits.
LEMMA NextCases ==
  ASSUME [Next]_vars
  PROVE  \/ \E s \in Step : Enqueue(s)
         \/ \E w \in Worker : \/ Pick(w) \/ ClaimWins(w) \/ ClaimLoses(w)
                              \/ ToolEnds(w) \/ Complete(w)
                              \/ CompleteLeaseLost(w) \/ Release(w)
                              \/ Heartbeat(w) \/ Sigterm(w)
                              \/ HeartbeatFails(w) \/ CompleteFails(w)
                              \/ ReleaseFails(w) \/ Crash(w) \/ Restart(w)
         \/ Tick
         \/ UNCHANGED vars
  BY Zenon DEF Next, WorkerLoop, Fault

\* Updating a function at one point keeps it in its function set.
LEMMA ExceptInSet ==
  ASSUME NEW S, NEW T, NEW f \in [S -> T], NEW x, NEW y \in T
  PROVE  [f EXCEPT ![x] = y] \in [S -> T]
  OBVIOUS

\* The values the lease of a step is ever set to.
LEMMA LeaseValues == -1 \in -1 .. LeaseSecs /\ LeaseSecs \in -1 .. LeaseSecs
  BY DispatchAssumption

\* Half a lease is no more than the lease.
LEMMA PeriodInRange == HeartbeatPeriod \in 0 .. LeaseSecs
  BY DispatchAssumption DEF HeartbeatPeriod

-----------------------------------------------------------------------------
(* Type correctness.                                                       *)

\* The initial state is well typed.
LEMMA TypeInit == Init => TypeOK
  BY DispatchAssumption, PeriodInRange
     DEF Init, TypeOK, Status, Final, PC

\* The worker's part of the type invariant survives a return to the loop.
LEMMA TypeBackToLoop ==
  ASSUME TypeOK, NEW w \in Worker, NEW at \in {"poll", "down"},
         BackToLoop(w, at)
  PROVE  /\ pc' \in [Worker -> PC]
         /\ cur' \in [Worker -> Step \union {NoOne}]
         /\ \A v \in Worker : cur'[v] = NoOne <=> pc'[v] \in {"poll", "down"}
         /\ msgAttempt' \in [Worker -> Nat]
         /\ hb' \in [Worker -> {"off", "on", "lost", "dead"}]
         /\ hbIn' \in [Worker -> 0 .. HeartbeatPeriod]
  BY PeriodInRange, DispatchAssumption DEF BackToLoop, TypeOK, PC

\* The database's part survives the transaction of complete().
LEMMA TypeCommit ==
  ASSUME TypeOK, NEW w \in Worker, NEW s \in Step, NEW st \in Final,
         CommitResult(w, s, st)
  PROVE  /\ status' \in [Step -> Status]
         /\ lockToken' \in [Step -> Worker \union {NoOne}]
         /\ leaseLeft' \in [Step -> -1 .. LeaseSecs]
         /\ attempts' \in [Step -> Nat]
         /\ results' \in [Step -> Seq(Row)]
  <1> DEFINE row == [attempt |-> attempts[s], worker |-> w,
                     status |-> st, exec |-> msgAttempt[w]]
  <1>1. row \in Row
    BY DEF TypeOK, Row
  <1>2. Append(results[s], row) \in Seq(Row)
    BY <1>1 DEF TypeOK
  <1>3. results' = [results EXCEPT ![s] = Append(results[s], row)]
    BY DEF CommitResult
  <1>4. results' \in [Step -> Seq(Row)]
    <2> HIDE DEF row
    <2> QED BY <1>2, <1>3 DEF TypeOK
  <1> HIDE DEF row
  <1>5. QED
    BY <1>4, DispatchAssumption DEF CommitResult, TypeOK, Status

\* Every step preserves the type invariant; one case per action.
LEMMA TypeStep == TypeOK /\ [Next]_vars => TypeOK'
  <1> SUFFICES ASSUME TypeOK, [Next]_vars PROVE TypeOK'
    OBVIOUS
  <1> USE DispatchAssumption, PeriodInRange
  <1>1. ASSUME NEW s \in Step, Enqueue(s) PROVE TypeOK'
    <2>1. status' \in [Step -> Status]
      BY <1>1 DEF Enqueue, TypeOK, Status
    <2>2. enqueues' \in [Step -> Nat]
      <3>1. enqueues[s] + 1 \in Nat /\ enqueues \in [Step -> Nat]
        BY DEF TypeOK
      <3>2. enqueues' = [enqueues EXCEPT ![s] = enqueues[s] + 1]
        BY <1>1 DEF Enqueue
      <3>3. QED
        BY ONLY <3>1, <3>2, ExceptInSet
    <2>3. QED
      BY <1>1, <2>1, <2>2 DEF Enqueue, procVars, TypeOK
  <1>2. ASSUME NEW w \in Worker, Pick(w) PROVE TypeOK'
    <2>1. PICK s \in Step : cur' = [cur EXCEPT ![w] = s]
      BY <1>2 DEF Pick
    <2>2. pc' = [pc EXCEPT ![w] = "claim"]
      BY <1>2 DEF Pick
    <2>3. /\ cur' \in [Worker -> Step \union {NoOne}]
          /\ pc' \in [Worker -> PC]
      BY <2>1, <2>2 DEF TypeOK, PC
    <2>4. \A v \in Worker : cur'[v] = NoOne <=> pc'[v] \in {"poll", "down"}
      BY <2>1, <2>2 DEF TypeOK
    <2>5. QED
      BY <1>2, <2>3, <2>4 DEF Pick, dbVars, TypeOK
  <1>3. ASSUME NEW w \in Worker, ClaimWins(w) PROVE TypeOK'
    <2> DEFINE s == cur[w]
    <2>1. s \in Step
      BY <1>3 DEF ClaimWins, TypeOK
    <2>2. Append(claimant[s], w) \in Seq(Worker)
      BY <2>1 DEF TypeOK
    <2>3. claimant' \in [Step -> Seq(Worker)]
      BY <1>3, <2>1, <2>2 DEF ClaimWins, TypeOK
    <2>4. /\ status' \in [Step -> Status]
          /\ lockToken' \in [Step -> Worker \union {NoOne}]
      BY <1>3, <2>1 DEF ClaimWins, TypeOK, Status
    <2>5. leaseLeft' \in [Step -> -1 .. LeaseSecs]
      <3>1. leaseLeft' = [leaseLeft EXCEPT ![s] = LeaseSecs]
        BY <1>3 DEF ClaimWins
      <3>2. leaseLeft \in [Step -> -1 .. LeaseSecs]
        BY DEF TypeOK
      <3>3. QED
        BY ONLY <2>1, <3>1, <3>2, LeaseValues, ExceptInSet
    <2>6. attempts' \in [Step -> Nat] /\ msgAttempt' \in [Worker -> Nat]
      <3>1. attempts[s] + 1 \in Nat
        BY <2>1 DEF TypeOK
      <3>2. /\ attempts' = [attempts EXCEPT ![s] = attempts[s] + 1]
            /\ msgAttempt' = [msgAttempt EXCEPT ![w] = attempts[s] + 1]
        BY <1>3 DEF ClaimWins
      <3>3. attempts \in [Step -> Nat] /\ msgAttempt \in [Worker -> Nat]
        BY DEF TypeOK
      <3>4. QED
        BY ONLY <2>1, <3>1, <3>2, <3>3, ExceptInSet
    <2>7. pc' \in [Worker -> PC]
      BY <1>3 DEF ClaimWins, TypeOK, PC
    <2>8. \A v \in Worker : cur'[v] = NoOne <=> pc'[v] \in {"poll", "down"}
      BY <1>3, <2>1 DEF ClaimWins, TypeOK
    <2>9. hb' \in [Worker -> {"off", "on", "lost", "dead"}]
      BY <1>3 DEF ClaimWins, TypeOK
    <2>10. hbIn' \in [Worker -> 0 .. HeartbeatPeriod]
      <3>1. hbIn' = [hbIn EXCEPT ![w] = HeartbeatPeriod]
        BY <1>3 DEF ClaimWins
      <3>2. hbIn \in [Worker -> 0 .. HeartbeatPeriod]
        BY DEF TypeOK
      <3>3. HeartbeatPeriod \in 0 .. HeartbeatPeriod
        BY PeriodInRange, DispatchAssumption
      <3>4. QED
        BY ONLY <3>1, <3>2, <3>3, ExceptInSet
    <2>11. QED
      BY <1>3, <2>3, <2>4, <2>5, <2>6, <2>7, <2>8, <2>9, <2>10
         DEF ClaimWins, TypeOK
  <1>4. ASSUME NEW w \in Worker, ClaimLoses(w) PROVE TypeOK'
    BY <1>4, TypeBackToLoop DEF ClaimLoses, dbVars, TypeOK
  <1>5. ASSUME NEW w \in Worker, ToolEnds(w) PROVE TypeOK'
    <2>1. PICK o \in Outcome :
            pc' = [pc EXCEPT ![w] = CASE o = "completed"    -> "complete"
                                      [] o = "unknown_tool" -> "complete_failed"
                                      [] o = "raised"       -> "release"]
      BY <1>5 DEF ToolEnds
    <2>2. /\ pc' \in [Worker -> PC]
          /\ pc'[w] \in {"complete", "complete_failed", "release"}
      BY <2>1 DEF TypeOK, PC, Outcome
    <2>3. \A v \in Worker : v # w => pc'[v] = pc[v]
      BY <2>1 DEF TypeOK
    <2>4. \A v \in Worker : cur'[v] = NoOne <=> pc'[v] \in {"poll", "down"}
      BY <1>5, <2>2, <2>3 DEF ToolEnds, TypeOK
    <2>5. /\ hb' \in [Worker -> {"off", "on", "lost", "dead"}]
          /\ hbIn' \in [Worker -> 0 .. HeartbeatPeriod]
      BY <1>5 DEF ToolEnds, TypeOK
    <2>6. QED
      BY <1>5, <2>2, <2>4, <2>5 DEF ToolEnds, dbVars, TypeOK
  <1>6. ASSUME NEW w \in Worker, Complete(w) PROVE TypeOK'
    <2>1. cur[w] \in Step
      BY <1>6 DEF Complete, TypeOK
    <2>2. PICK st \in Final : CommitResult(w, cur[w], st)
      BY <1>6 DEF Complete, Final
    <2>3. QED
      BY <1>6, <2>1, <2>2, TypeCommit, TypeBackToLoop DEF Complete, TypeOK
  <1>7. ASSUME NEW w \in Worker, CompleteLeaseLost(w) PROVE TypeOK'
    BY <1>7, TypeBackToLoop DEF CompleteLeaseLost, dbVars, TypeOK
  <1>8. ASSUME NEW w \in Worker, Release(w) PROVE TypeOK'
    <2>1. /\ status' \in [Step -> Status]
          /\ lockToken' \in [Step -> Worker \union {NoOne}]
          /\ leaseLeft' \in [Step -> -1 .. LeaseSecs]
          /\ UNCHANGED <<attempts, results>>
      <3>1. CASE Holds(w, cur[w])
        <4>1. /\ status'    = [status EXCEPT ![cur[w]] = "PENDING"]
              /\ lockToken' = [lockToken EXCEPT ![cur[w]] = NoOne]
              /\ leaseLeft' = [leaseLeft EXCEPT ![cur[w]] = -1]
              /\ UNCHANGED <<attempts, results>>
          BY <1>8, <3>1 DEF Release
        <4>2. status' \in [Step -> Status]
          BY <4>1 DEF TypeOK, Status
        <4>3. lockToken' \in [Step -> Worker \union {NoOne}]
          BY <4>1 DEF TypeOK
        <4>4. leaseLeft' \in [Step -> -1 .. LeaseSecs]
          <5>1. leaseLeft \in [Step -> -1 .. LeaseSecs]
            BY DEF TypeOK
          <5>2. QED
            BY ONLY <4>1, <5>1, LeaseValues, ExceptInSet
        <4>5. QED
          BY <4>1, <4>2, <4>3, <4>4
      <3>2. CASE ~Holds(w, cur[w])
        BY <1>8, <3>2 DEF Release, dbVars, TypeOK
      <3>3. QED
        BY <3>1, <3>2
    <2>2. QED
      BY <1>8, <2>1, TypeBackToLoop DEF Release, TypeOK
  <1>9. ASSUME NEW w \in Worker, Heartbeat(w) PROVE TypeOK'
    <2>1. CASE Holds(w, cur[w])
      <3>1. /\ leaseLeft' = [leaseLeft EXCEPT ![cur[w]] = LeaseSecs]
            /\ hbIn' = [hbIn EXCEPT ![w] = HeartbeatPeriod]
            /\ UNCHANGED hb
        BY <1>9, <2>1 DEF Heartbeat
      <3>2. leaseLeft' \in [Step -> -1 .. LeaseSecs]
        <4>1. leaseLeft \in [Step -> -1 .. LeaseSecs]
          BY DEF TypeOK
        <4>2. QED
          BY ONLY <3>1, <4>1, LeaseValues, ExceptInSet
      <3>3. hbIn' \in [Worker -> 0 .. HeartbeatPeriod]
        BY <3>1 DEF TypeOK
      <3>4. QED
        BY <1>9, <3>1, <3>2, <3>3 DEF Heartbeat, TypeOK
    <2>2. CASE ~Holds(w, cur[w])
      <3>1. hb' = [hb EXCEPT ![w] = "lost"] /\ UNCHANGED <<leaseLeft, hbIn>>
        BY <1>9, <2>2 DEF Heartbeat
      <3>2. QED
        BY <1>9, <3>1 DEF Heartbeat, TypeOK
    <2>3. QED
      BY <2>1, <2>2
  <1>10. ASSUME NEW w \in Worker, Sigterm(w) PROVE TypeOK'
    BY <1>10 DEF Sigterm, dbVars, TypeOK
  <1>11. ASSUME NEW w \in Worker, HeartbeatFails(w) PROVE TypeOK'
    BY <1>11 DEF HeartbeatFails, dbVars, TypeOK
  <1>12. ASSUME NEW w \in Worker, CompleteFails(w) PROVE TypeOK'
    <2>1. cur[w] \in Step
      BY <1>12 DEF CompleteFails, TypeOK
    <2>2. \/ \E st \in Final : CommitResult(w, cur[w], st)
          \/ UNCHANGED dbVars
      BY <1>12 DEF CompleteFails, Final
    <2>3. /\ status' \in [Step -> Status]
          /\ lockToken' \in [Step -> Worker \union {NoOne}]
          /\ leaseLeft' \in [Step -> -1 .. LeaseSecs]
          /\ attempts' \in [Step -> Nat]
          /\ results' \in [Step -> Seq(Row)]
      <3>1. CASE UNCHANGED dbVars
        BY <3>1 DEF dbVars, TypeOK
      <3>2. CASE \E st \in Final : CommitResult(w, cur[w], st)
        BY <3>2, <2>1, TypeCommit
      <3>3. QED
        BY <2>2, <3>1, <3>2
    <2>4. CASE pc[w] = "complete"
      <3>1. /\ pc' = [pc EXCEPT ![w] = "release"]
            /\ UNCHANGED <<cur, msgAttempt, hb, hbIn>>
        BY <1>12, <2>4 DEF CompleteFails
      <3>2. QED
        BY <1>12, <2>3, <2>4, <3>1 DEF CompleteFails, TypeOK, PC
    <2>5. CASE pc[w] = "complete_failed"
      <3>1. BackToLoop(w, "down")
        BY <1>12, <2>5 DEF CompleteFails
      <3>2. QED
        BY <1>12, <2>3, <3>1, TypeBackToLoop DEF CompleteFails, TypeOK
    <2>6. QED
      BY <1>12, <2>4, <2>5 DEF CompleteFails
  <1>13. ASSUME NEW w \in Worker, ReleaseFails(w) PROVE TypeOK'
    BY <1>13, TypeBackToLoop DEF ReleaseFails, dbVars, TypeOK
  <1>14. ASSUME NEW w \in Worker, Crash(w) PROVE TypeOK'
    BY <1>14, TypeBackToLoop DEF Crash, dbVars, TypeOK
  <1>15. ASSUME NEW w \in Worker, Restart(w) PROVE TypeOK'
    BY <1>15 DEF Restart, dbVars, TypeOK, PC
  <1>16. ASSUME Tick PROVE TypeOK'
    <2>1. \A s \in Step : (IF Expired(s) THEN leaseLeft[s] ELSE leaseLeft[s] - 1)
                            \in -1 .. LeaseSecs
      BY DEF TypeOK, Expired
    <2>2. leaseLeft' \in [Step -> -1 .. LeaseSecs]
      BY <1>16, <2>1 DEF Tick
    <2>3. \A w \in Worker : (IF hbIn[w] = 0 THEN 0 ELSE hbIn[w] - 1)
                              \in 0 .. HeartbeatPeriod
      BY DEF TypeOK
    <2>4. hbIn' \in [Worker -> 0 .. HeartbeatPeriod]
      BY <1>16, <2>3 DEF Tick
    <2>5. QED
      BY <1>16, <2>2, <2>4 DEF Tick, TypeOK
  <1>17. ASSUME UNCHANGED vars PROVE TypeOK'
    BY <1>17 DEF vars, dbVars, procVars, TypeOK
  <1>18. QED
    BY NextCases, <1>1, <1>2, <1>3, <1>4, <1>5, <1>6, <1>7, <1>8, <1>9, <1>10,
       <1>11, <1>12, <1>13, <1>14, <1>15, <1>16, <1>17

\* Type correctness, for every instance of the specification.
THEOREM TypeCorrect == Spec => []TypeOK
  BY TypeInit, TypeStep, PTL DEF Spec

-----------------------------------------------------------------------------
(* The ledger.  A step of the dispatch layer grants a claim, commits a      *)
(* result, withdraws a lock or leaves the ledger alone; in the last three   *)
(* cases no worker starts to work.                                          *)

NoNewWork ==
  \A v \in Worker : Working(v)' => /\ Working(v)
                                   /\ cur'[v] = cur[v]
                                   /\ msgAttempt'[v] = msgAttempt[v]

Commits(w) ==
  /\ Working(w)
  /\ \E st \in Final : CommitResult(w, cur[w], st)
  /\ NoNewWork
  /\ UNCHANGED claimant

Withdraws(s) ==
  /\ lockToken' = [lockToken EXCEPT ![s] = NoOne]
  /\ NoNewWork
  /\ UNCHANGED <<attempts, results, claimant>>

LedgerUnchanged ==
  /\ NoNewWork
  /\ UNCHANGED <<lockToken, attempts, results, claimant>>

\* Going back to the loop gives the worker no new work.
LEMMA BackToLoopIsNoNewWork ==
  ASSUME TypeOK, NEW w \in Worker, NEW at \in {"poll", "down"},
         BackToLoop(w, at)
  PROVE  NoNewWork
  BY DEF BackToLoop, TypeOK, NoNewWork, Working

\* Every step is a grant, a commit, a withdrawal, or leaves the ledger alone: the
\* classification the invariants and the refinement below are proved from.
LEMMA StepKinds ==
  ASSUME TypeOK, [Next]_vars
  PROVE  \/ \E w \in Worker : ClaimWins(w)
         \/ \E w \in Worker : cur[w] \in Step /\ Commits(w)
         \/ \E s \in Step : Withdraws(s)
         \/ LedgerUnchanged
  <1>1. ASSUME NEW s \in Step, Enqueue(s) PROVE LedgerUnchanged
    BY <1>1 DEF Enqueue, procVars, LedgerUnchanged, NoNewWork, Working
  <1>2. ASSUME NEW w \in Worker, Pick(w) PROVE LedgerUnchanged
    BY <1>2 DEF Pick, dbVars, LedgerUnchanged, NoNewWork, Working, TypeOK
  <1>3. ASSUME NEW w \in Worker, ClaimLoses(w) PROVE LedgerUnchanged
    BY <1>3, BackToLoopIsNoNewWork DEF ClaimLoses, dbVars, LedgerUnchanged
  <1>4. ASSUME NEW w \in Worker, ToolEnds(w) PROVE LedgerUnchanged
    BY <1>4 DEF ToolEnds, dbVars, LedgerUnchanged, NoNewWork, Working, TypeOK
  <1>5. ASSUME NEW w \in Worker, Complete(w)
        PROVE  cur[w] \in Step /\ Commits(w)
    <2>1. cur[w] \in Step /\ Working(w)
      BY <1>5 DEF Complete, TypeOK, Working
    <2>2. PICK st \in Final : CommitResult(w, cur[w], st)
      BY <1>5 DEF Complete, Final
    <2>3. NoNewWork
      BY <1>5, BackToLoopIsNoNewWork DEF Complete
    <2>4. QED
      BY <1>5, <2>1, <2>2, <2>3 DEF Complete, Commits
  <1>6. ASSUME NEW w \in Worker, CompleteLeaseLost(w) PROVE LedgerUnchanged
    BY <1>6, BackToLoopIsNoNewWork
       DEF CompleteLeaseLost, dbVars, LedgerUnchanged
  <1>7. ASSUME NEW w \in Worker, Release(w)
        PROVE  LedgerUnchanged \/ \E s \in Step : Withdraws(s)
    <2>1. cur[w] \in Step
      BY <1>7 DEF Release, TypeOK
    <2>2. NoNewWork /\ UNCHANGED claimant
      BY <1>7, BackToLoopIsNoNewWork DEF Release
    <2>3. CASE Holds(w, cur[w])
      BY <1>7, <2>1, <2>2, <2>3 DEF Release, Withdraws
    <2>4. CASE ~Holds(w, cur[w])
      BY <1>7, <2>2, <2>4 DEF Release, dbVars, LedgerUnchanged
    <2>5. QED
      BY <2>3, <2>4
  <1>8. ASSUME NEW w \in Worker, Heartbeat(w) PROVE LedgerUnchanged
    BY <1>8 DEF Heartbeat, LedgerUnchanged, NoNewWork, Working
  <1>9. ASSUME NEW w \in Worker, Sigterm(w) PROVE LedgerUnchanged
    BY <1>9 DEF Sigterm, dbVars, LedgerUnchanged, NoNewWork, Working
  <1>10. ASSUME NEW w \in Worker, HeartbeatFails(w) PROVE LedgerUnchanged
    BY <1>10 DEF HeartbeatFails, dbVars, LedgerUnchanged, NoNewWork, Working
  <1>11. ASSUME NEW w \in Worker, CompleteFails(w)
         PROVE  LedgerUnchanged \/ (cur[w] \in Step /\ Commits(w))
    <2>1. cur[w] \in Step /\ Working(w) /\ UNCHANGED claimant
      BY <1>11 DEF CompleteFails, TypeOK, Working
    <2>2. NoNewWork
      <3>1. CASE pc[w] = "complete"
        BY <1>11, <3>1 DEF CompleteFails, NoNewWork, Working, TypeOK
      <3>2. CASE pc[w] = "complete_failed"
        BY <1>11, <3>2, BackToLoopIsNoNewWork DEF CompleteFails
      <3>3. QED
        BY <1>11, <3>1, <3>2 DEF CompleteFails
    <2>3. (\E st \in Final : CommitResult(w, cur[w], st)) \/ UNCHANGED dbVars
      BY <1>11 DEF CompleteFails, Final
    <2>4. QED
      BY <2>1, <2>2, <2>3 DEF Commits, LedgerUnchanged, dbVars
  <1>12. ASSUME NEW w \in Worker, ReleaseFails(w) PROVE LedgerUnchanged
    BY <1>12, BackToLoopIsNoNewWork DEF ReleaseFails, dbVars, LedgerUnchanged
  <1>13. ASSUME NEW w \in Worker, Crash(w) PROVE LedgerUnchanged
    BY <1>13, BackToLoopIsNoNewWork DEF Crash, dbVars, LedgerUnchanged
  <1>14. ASSUME NEW w \in Worker, Restart(w) PROVE LedgerUnchanged
    BY <1>14 DEF Restart, dbVars, LedgerUnchanged, NoNewWork, Working, TypeOK
  <1>15. ASSUME Tick PROVE LedgerUnchanged
    BY <1>15 DEF Tick, LedgerUnchanged, NoNewWork, Working
  <1>16. ASSUME UNCHANGED vars PROVE LedgerUnchanged
    BY <1>16 DEF vars, dbVars, procVars, LedgerUnchanged, NoNewWork, Working
  <1>17. QED
    BY NextCases, <1>1, <1>2, <1>3, <1>4, <1>5, <1>6, <1>7, <1>8, <1>9, <1>10,
       <1>11, <1>12, <1>13, <1>14, <1>15, <1>16

\* The ledger invariant holds of the initial state.
LEMMA LedgerInit == Init => LedgerInv
  BY DEF Init, LedgerInv, ClaimsRecorded, HolderIsCurrent, RowsPrecedeLock,
         OneResultPerClaim, ResultOfOwnClaim, Working

\* A claim: the claims of the step grow by one, no row is written, and all the
\* rows of the step are now of earlier claims.
LEMMA LedgerGrant ==
  ASSUME TypeOK, LedgerInv, NEW w \in Worker, ClaimWins(w)
  PROVE  LedgerInv'
  <1> DEFINE s == cur[w]
  <1>1. s \in Step /\ s # NoOne
    BY DispatchAssumption DEF ClaimWins, TypeOK
  <1>2. /\ lockToken' = [lockToken EXCEPT ![s] = w]
        /\ attempts'  = [attempts EXCEPT ![s] = attempts[s] + 1]
        /\ claimant'  = [claimant EXCEPT ![s] = Append(claimant[s], w)]
        /\ UNCHANGED <<results, cur>>
    BY DEF ClaimWins
  <1>3. /\ pc' = [pc EXCEPT ![w] = "run"]
        /\ msgAttempt' = [msgAttempt EXCEPT ![w] = attempts[s] + 1]
    BY DEF ClaimWins
  <1> HIDE DEF s
  <1>4. /\ attempts[s] \in Nat
        /\ claimant[s] \in Seq(Worker)
        /\ Len(claimant[s]) = attempts[s]
    BY <1>1 DEF TypeOK, LedgerInv, ClaimsRecorded
  <1>5. /\ Len(Append(claimant[s], w)) = attempts[s] + 1
        /\ Append(claimant[s], w)[attempts[s] + 1] = w
        /\ \A a \in 1 .. attempts[s] : Append(claimant[s], w)[a] = claimant[s][a]
    BY <1>4
  <1>6. attempts'[s] = attempts[s] + 1 /\ claimant'[s] = Append(claimant[s], w)
    BY <1>1, <1>2 DEF TypeOK
  <1>7. \A r \in Step : r # s => /\ attempts'[r] = attempts[r]
                                 /\ claimant'[r] = claimant[r]
                                 /\ lockToken'[r] = lockToken[r]
    BY <1>2 DEF TypeOK
  <1>8. ClaimsRecorded'
    <2>1. lockToken'[s] = w
      BY <1>1, <1>2 DEF TypeOK
    <2>2. QED
      BY <1>4, <1>5, <1>6, <1>7, <2>1 DEF LedgerInv, ClaimsRecorded
  <1>9. HolderIsCurrent'
    <2> SUFFICES ASSUME NEW v \in Worker, Working(v)', Holds(v, cur[v])'
                 PROVE  msgAttempt'[v] = attempts'[cur'[v]]
      BY DEF HolderIsCurrent
    <2>1. CASE v = w
      BY <1>2, <1>3, <1>6, <2>1 DEF TypeOK, s
    <2>2. CASE v # w
      <3>1. Working(v) /\ msgAttempt'[v] = msgAttempt[v] /\ cur'[v] = cur[v]
        BY <1>2, <1>3, <2>2 DEF Working, TypeOK
      <3>2. cur[v] \in Step /\ cur[v] # s
        BY <1>1, <1>2, <2>2, <3>1 DEF Holds, TypeOK, Working
      <3>3. QED
        BY <1>7, <3>1, <3>2 DEF Holds, LedgerInv, HolderIsCurrent
    <2>3. QED
      BY <2>1, <2>2
  <1>10. RowsPrecedeLock'
    <2> SUFFICES ASSUME NEW r \in Step, NEW i \in DOMAIN results[r]
                 PROVE  /\ results[r][i].attempt \in 1 .. attempts'[r]
                        /\ lockToken'[r] # NoOne
                             => results[r][i].attempt < attempts'[r]
      BY <1>2 DEF RowsPrecedeLock
    <2>1. results[r][i].attempt \in 1 .. attempts[r]
      BY DEF LedgerInv, RowsPrecedeLock
    <2>2. CASE r = s
      BY <1>4, <1>6, <2>1, <2>2
    <2>3. CASE r # s
      BY <1>7, <2>3 DEF LedgerInv, RowsPrecedeLock
    <2>4. QED
      BY <2>2, <2>3
  <1>11. OneResultPerClaim'
    BY <1>2 DEF LedgerInv, OneResultPerClaim
  <1>12. ResultOfOwnClaim'
    <2> SUFFICES ASSUME NEW r \in Step, NEW i \in DOMAIN results[r]
                 PROVE  /\ results[r][i].exec = results[r][i].attempt
                        /\ results[r][i].attempt \in DOMAIN claimant'[r]
                        /\ results[r][i].worker
                             = claimant'[r][results[r][i].attempt]
      BY <1>2 DEF ResultOfOwnClaim
    <2>1. /\ results[r][i].exec = results[r][i].attempt
          /\ results[r][i].attempt \in DOMAIN claimant[r]
          /\ results[r][i].worker = claimant[r][results[r][i].attempt]
      BY DEF LedgerInv, ResultOfOwnClaim
    <2>2. results[r][i].attempt \in 1 .. attempts[r]
      BY DEF LedgerInv, RowsPrecedeLock
    <2>3. CASE r = s
      <3>1. DOMAIN claimant'[s] = 1 .. attempts[s] + 1
        BY <1>4, <1>5, <1>6
      <3>2. QED
        BY <1>4, <1>5, <1>6, <2>1, <2>2, <2>3, <3>1
    <2>4. CASE r # s
      BY <1>7, <2>1, <2>4
    <2>5. QED
      BY <2>3, <2>4
  <1>13. QED
    BY <1>8, <1>9, <1>10, <1>11, <1>12 DEF LedgerInv

\* A result: its row is of the latest claim, which no earlier row is of.
LEMMA LedgerCommit ==
  ASSUME TypeOK, LedgerInv, NEW w \in Worker, cur[w] \in Step, Commits(w)
  PROVE  LedgerInv'
  <1> DEFINE s == cur[w]
  <1>1. PICK st \in Final : CommitResult(w, s, st)
    BY DEF Commits
  <1> DEFINE row == [attempt |-> attempts[s], worker |-> w,
                     status |-> st, exec |-> msgAttempt[w]]
  <1>2. /\ lockToken[s] = w
        /\ results'   = [results EXCEPT ![s] = Append(results[s], row)]
        /\ lockToken' = [lockToken EXCEPT ![s] = NoOne]
        /\ UNCHANGED <<attempts, claimant>>
    BY <1>1 DEF CommitResult, Holds, Commits
  <1>3. /\ attempts[s] \in Nat \ {0}
        /\ w = claimant[s][attempts[s]]
        /\ DOMAIN claimant[s] = 1 .. attempts[s]
    <2>1. s \in Step /\ w # NoOne /\ claimant[s] \in Seq(Worker)
      BY DispatchAssumption DEF TypeOK
    <2>2. attempts[s] \in Nat
      BY DEF TypeOK
    <2>3. QED
      BY <1>2, <2>1, <2>2 DEF LedgerInv, ClaimsRecorded
  <1>4. msgAttempt[w] = attempts[s]
    BY <1>2 DEF LedgerInv, HolderIsCurrent, Commits, Holds
  <1>5. row.attempt = attempts[s] /\ row.worker = w /\ row.exec = attempts[s]
    BY <1>4
  <1>6. s \in Step
    OBVIOUS
  <1>7. results[s] \in Seq(Row) /\ row \in Row
    BY <1>6 DEF TypeOK, Row
  <1> HIDE DEF s, row
  <1>8. /\ DOMAIN Append(results[s], row) = 1 .. Len(results[s]) + 1
        /\ Len(results[s]) \in Nat
        /\ DOMAIN results[s] = 1 .. Len(results[s])
        /\ Append(results[s], row)[Len(results[s]) + 1] = row
        /\ \A i \in 1 .. Len(results[s]) :
             Append(results[s], row)[i] = results[s][i]
    BY <1>7
  <1>9. results'[s] = Append(results[s], row)
    BY <1>2, <1>6 DEF TypeOK
  <1>10. \A r \in Step : r # s => results'[r] = results[r]
    BY <1>2 DEF TypeOK
  <1>11. \A r \in Step : /\ r = s => lockToken'[r] = NoOne
                         /\ r # s => lockToken'[r] = lockToken[r]
    BY <1>2 DEF TypeOK
  <1>11a. ASSUME NEW i \in DOMAIN results'[s]
        PROVE  \/ i \in DOMAIN results[s] /\ results'[s][i] = results[s][i]
               \/ i = Len(results[s]) + 1 /\ results'[s][i] = row
    BY <1>8, <1>9
  <1>11b. ASSUME NEW i \in DOMAIN results[s]
        PROVE  /\ results[s][i].attempt \in 1 .. attempts[s]
               /\ results[s][i].attempt < attempts[s]
    <2>1. w # NoOne
      BY DispatchAssumption
    <2>2. QED
      BY <1>2, <1>6, <2>1 DEF LedgerInv, RowsPrecedeLock
  <1>12. ClaimsRecorded'
    BY <1>2, <1>11 DEF LedgerInv, ClaimsRecorded
  <1>13. HolderIsCurrent'
    <2> SUFFICES ASSUME NEW v \in Worker, Working(v)', Holds(v, cur[v])'
                 PROVE  msgAttempt'[v] = attempts'[cur'[v]]
      BY DEF HolderIsCurrent
    <2>1. Working(v) /\ cur'[v] = cur[v] /\ msgAttempt'[v] = msgAttempt[v]
      BY DEF Commits, NoNewWork
    <2>2. cur[v] \in Step /\ v # NoOne
      BY <2>1, DispatchAssumption DEF TypeOK, Working
    <2>3. Holds(v, cur[v])
      BY <1>11, <2>1, <2>2 DEF Holds
    <2>4. QED
      BY <1>2, <2>1, <2>3 DEF LedgerInv, HolderIsCurrent
  <1>14. RowsPrecedeLock'
    <2> SUFFICES ASSUME NEW r \in Step, NEW i \in DOMAIN results'[r]
                 PROVE  /\ results'[r][i].attempt \in 1 .. attempts[r]
                        /\ lockToken'[r] # NoOne
                             => results'[r][i].attempt < attempts[r]
      BY <1>2 DEF RowsPrecedeLock
    <2>1. CASE r = s
      <3>1. lockToken'[r] = NoOne
        BY <1>11, <2>1
      <3>2. CASE i \in DOMAIN results[s] /\ results'[s][i] = results[s][i]
        BY <1>11b, <2>1, <3>1, <3>2
      <3>3. CASE results'[s][i] = row
        BY <1>3, <1>5, <2>1, <3>1, <3>3
      <3>4. QED
        BY <1>11a, <2>1, <3>2, <3>3
    <2>2. CASE r # s
      BY <1>10, <1>11, <2>2 DEF LedgerInv, RowsPrecedeLock
    <2>3. QED
      BY <2>1, <2>2
  <1>15. OneResultPerClaim'
    <2> SUFFICES ASSUME NEW r \in Step,
                        NEW i \in DOMAIN results'[r], NEW j \in DOMAIN results'[r],
                        results'[r][i].attempt = results'[r][j].attempt
                 PROVE  i = j
      BY DEF OneResultPerClaim
    <2>1. CASE r = s
      <3>1. \A k \in DOMAIN results[s] : results[s][k].attempt # attempts[s]
        <4> SUFFICES ASSUME NEW k \in DOMAIN results[s]
                     PROVE  results[s][k].attempt # attempts[s]
          OBVIOUS
        <4>1. QED
          BY <1>3, <1>11b
      <3>2. CASE i \in DOMAIN results[s] /\ results'[s][i] = results[s][i]
        <4>1. results'[s][j] # row
          BY <1>5, <2>1, <3>1, <3>2
        <4>2. j \in DOMAIN results[s] /\ results'[s][j] = results[s][j]
          BY <1>11a, <2>1, <4>1
        <4>3. QED
          BY <1>6, <2>1, <3>2, <4>2 DEF LedgerInv, OneResultPerClaim
      <3>3. CASE i = Len(results[s]) + 1 /\ results'[s][i] = row
        <4>1. ~(j \in DOMAIN results[s] /\ results'[s][j] = results[s][j])
          BY <1>5, <2>1, <3>1, <3>3
        <4>2. QED
          BY <1>11a, <2>1, <3>3, <4>1
      <3>4. QED
        BY <1>11a, <2>1, <3>2, <3>3
    <2>2. CASE r # s
      BY <1>10, <2>2 DEF LedgerInv, OneResultPerClaim
    <2>3. QED
      BY <2>1, <2>2
  <1>16. ResultOfOwnClaim'
    <2> SUFFICES ASSUME NEW r \in Step, NEW i \in DOMAIN results'[r]
                 PROVE  /\ results'[r][i].exec = results'[r][i].attempt
                        /\ results'[r][i].attempt \in DOMAIN claimant[r]
                        /\ results'[r][i].worker
                             = claimant[r][results'[r][i].attempt]
      BY <1>2 DEF ResultOfOwnClaim
    <2>1. CASE r = s
      <3>1. CASE i \in DOMAIN results[s] /\ results'[s][i] = results[s][i]
        BY <1>6, <2>1, <3>1 DEF LedgerInv, ResultOfOwnClaim
      <3>2. CASE results'[s][i] = row
        BY <1>3, <1>5, <2>1, <3>2
      <3>3. QED
        BY <1>11a, <2>1, <3>1, <3>2
    <2>2. CASE r # s
      BY <1>10, <2>2 DEF LedgerInv, ResultOfOwnClaim
    <2>3. QED
      BY <2>1, <2>2
  <1>17. QED
    BY <1>12, <1>13, <1>14, <1>15, <1>16 DEF LedgerInv

\* A release: the token goes away and nothing else changes.
LEMMA LedgerWithdraw ==
  ASSUME TypeOK, LedgerInv, NEW s \in Step, Withdraws(s)
  PROVE  LedgerInv'
  <1>1. \A r \in Step : lockToken'[r] = NoOne \/ lockToken'[r] = lockToken[r]
    BY DEF Withdraws, TypeOK
  <1>2. UNCHANGED <<attempts, results, claimant>>
    BY DEF Withdraws
  <1>3. ClaimsRecorded' /\ RowsPrecedeLock'
    BY <1>1, <1>2 DEF LedgerInv, ClaimsRecorded, RowsPrecedeLock
  <1>4. OneResultPerClaim' /\ ResultOfOwnClaim'
    BY <1>2 DEF LedgerInv, OneResultPerClaim, ResultOfOwnClaim
  <1>5. HolderIsCurrent'
    <2> SUFFICES ASSUME NEW v \in Worker, Working(v)', Holds(v, cur[v])'
                 PROVE  msgAttempt'[v] = attempts'[cur'[v]]
      BY DEF HolderIsCurrent
    <2>1. Working(v) /\ cur'[v] = cur[v] /\ msgAttempt'[v] = msgAttempt[v]
      BY DEF Withdraws, NoNewWork
    <2>2. cur[v] \in Step /\ v # NoOne
      BY <2>1, DispatchAssumption DEF TypeOK, Working
    <2>3. QED
      BY <1>1, <1>2, <2>1, <2>2 DEF Holds, LedgerInv, HolderIsCurrent
  <1>6. QED
    BY <1>3, <1>4, <1>5 DEF LedgerInv

\* A step that leaves token, attempts and rows alone preserves the ledger invariant.
LEMMA LedgerKept ==
  ASSUME TypeOK, LedgerInv, LedgerUnchanged
  PROVE  LedgerInv'
  <1>1. UNCHANGED <<lockToken, attempts, results, claimant>>
    BY DEF LedgerUnchanged
  <1>2. /\ ClaimsRecorded' /\ RowsPrecedeLock'
        /\ OneResultPerClaim' /\ ResultOfOwnClaim'
    BY <1>1 DEF LedgerInv, ClaimsRecorded, RowsPrecedeLock, OneResultPerClaim,
                ResultOfOwnClaim
  <1>3. HolderIsCurrent'
    BY <1>1 DEF LedgerUnchanged, NoNewWork, LedgerInv, HolderIsCurrent, Holds
  <1>4. QED
    BY <1>2, <1>3 DEF LedgerInv

\* The ledger invariant holds of every behaviour: no assumption on processes,
\* clocks or the database is needed.
THEOREM LedgerCorrect == Spec => []LedgerInv
  <1>1. TypeOK /\ LedgerInv /\ [Next]_vars => LedgerInv'
    BY StepKinds, LedgerGrant, LedgerCommit, LedgerWithdraw, LedgerKept
  <1>2. QED
    BY <1>1, LedgerInit, TypeCorrect, PTL DEF Spec

\* One claim yields at most one row of step_results.
THEOREM OneResult == Spec => []OneResultPerClaim
  <1>1. LedgerInv => OneResultPerClaim
    BY DEF LedgerInv
  <1>2. QED
    BY <1>1, LedgerCorrect, PTL

\* A row carries the attempt and the worker of the claim that produced it.
THEOREM ResultAttribution == Spec => []ResultOfOwnClaim
  <1>1. LedgerInv => ResultOfOwnClaim
    BY DEF LedgerInv
  <1>2. QED
    BY <1>1, LedgerCorrect, PTL

-----------------------------------------------------------------------------
(* Finished steps.                                                         *)

\* What a step of the specification may do to the status of a step.
FinishedOK ==
  \A s \in Step : status[s] \in Final /\ status'[s] # status[s]
                  => enqueues'[s] > enqueues[s]

\* A single step leaves a finished step finished, or is an enqueue().
LEMMA FinishedStep ==
  ASSUME TypeOK, FinishedUnlocked, [Next]_vars
  PROVE  FinishedUnlocked' /\ FinishedOK
  <1> USE DispatchAssumption DEF FinishedUnlocked, FinishedOK
  <1>1. ASSUME UNCHANGED <<status, lockToken>>
        PROVE  FinishedUnlocked' /\ FinishedOK
    BY <1>1
  <1>2. ASSUME NEW s \in Step, Enqueue(s)
        PROVE  FinishedUnlocked' /\ FinishedOK
    BY <1>2 DEF Enqueue, TypeOK, Final
  <1>3. ASSUME NEW w \in Worker, ClaimWins(w)
        PROVE  FinishedUnlocked' /\ FinishedOK
    BY <1>3 DEF ClaimWins, Claimable, TypeOK, Final
  <1>4. ASSUME NEW w \in Worker, NEW s \in Step, NEW st \in Final,
               CommitResult(w, s, st)
        PROVE  FinishedUnlocked' /\ FinishedOK
    <2>1. /\ status'    = [status EXCEPT ![s] = st]
          /\ lockToken' = [lockToken EXCEPT ![s] = NoOne]
          /\ lockToken[s] = w
      BY <1>4 DEF CommitResult, Holds
    <2>2. QED
      BY <2>1 DEF TypeOK
  <1>5. ASSUME NEW w \in Worker, Release(w)
        PROVE  FinishedUnlocked' /\ FinishedOK
    <2>1. CASE Holds(w, cur[w])
      <3>1. /\ status'    = [status EXCEPT ![cur[w]] = "PENDING"]
            /\ lockToken' = [lockToken EXCEPT ![cur[w]] = NoOne]
            /\ lockToken[cur[w]] = w
        BY <1>5, <2>1 DEF Release, Holds
      <3>2. cur[w] \in Step
        BY <1>5 DEF Release, TypeOK
      <3>3. QED
        BY <3>1, <3>2 DEF TypeOK, Final
    <2>2. CASE ~Holds(w, cur[w])
      BY <1>1, <1>5, <2>2 DEF Release, dbVars
    <2>3. QED
      BY <2>1, <2>2
  <1>6. ASSUME NEW w \in Worker, Complete(w) \/ CompleteFails(w)
        PROVE  FinishedUnlocked' /\ FinishedOK
    <2>1. cur[w] \in Step
      BY <1>6 DEF Complete, CompleteFails, TypeOK
    <2>2. \/ \E st \in Final : CommitResult(w, cur[w], st)
          \/ UNCHANGED <<status, lockToken>>
      BY <1>6 DEF Complete, CompleteFails, Final, dbVars
    <2>3. QED
      BY <1>1, <1>4, <2>1, <2>2
  <1>7. ASSUME NEW w \in Worker,
               \/ Pick(w) \/ ClaimLoses(w) \/ ToolEnds(w) \/ CompleteLeaseLost(w)
               \/ Heartbeat(w) \/ Sigterm(w) \/ HeartbeatFails(w)
               \/ ReleaseFails(w) \/ Crash(w) \/ Restart(w)
        PROVE  UNCHANGED <<status, lockToken>>
    BY <1>7 DEF Pick, ClaimLoses, ToolEnds, CompleteLeaseLost, Heartbeat, Sigterm,
                HeartbeatFails, ReleaseFails, Crash, Restart, dbVars
  <1>8. Tick \/ UNCHANGED vars => UNCHANGED <<status, lockToken>>
    BY DEF Tick, vars, dbVars
  <1> HIDE DEF FinishedUnlocked, FinishedOK
  <1>9. QED
    BY NextCases, <1>1, <1>2, <1>3, <1>5, <1>6, <1>7, <1>8

\* Only enqueue() reopens a finished step.
THEOREM FinishedIsFinal == Spec => FinishedStaysFinished
  <1>1. Init => FinishedUnlocked
    BY DEF Init, FinishedUnlocked
  <1>2. TypeOK /\ FinishedUnlocked /\ [Next]_vars => FinishedUnlocked'
    BY FinishedStep
  <1>3. TypeOK /\ FinishedUnlocked /\ [Next]_vars => [FinishedOK]_vars
    BY FinishedStep
  <1>4. QED
    BY <1>1, <1>2, <1>3, TypeCorrect, PTL
       DEF Spec, FinishedStaysFinished, FinishedOK

-----------------------------------------------------------------------------
(* The implementation of StepLedger.                                       *)

\* The entries of rows are the entries of a ledger.
LEMMA EntriesType ==
  ASSUME NEW rows \in Seq(Row)
  PROVE  Entries(rows) \in Seq([epoch : Nat, by : Worker])
  <1> DEFINE E == [epoch : Nat, by : Worker]
  <1>1. ASSUME NEW i \in DOMAIN rows
        PROVE  [epoch |-> rows[i].attempt, by |-> rows[i].worker] \in E
    <2>1. rows[i] \in Row
      OBVIOUS
    <2>2. QED
      BY <2>1 DEF Row
  <1>2. DOMAIN rows = 1 .. Len(rows) /\ Len(rows) \in Nat
    OBVIOUS
  <1> HIDE DEF E
  <1>3. Entries(rows) \in [1 .. Len(rows) -> E]
    BY <1>1, <1>2 DEF Entries
  <1>4. Entries(rows) \in Seq(E)
    BY <1>2, <1>3
  <1>5. QED
    BY <1>4 DEF E

\* Appending a row appends its entry.
LEMMA EntriesAppend ==
  ASSUME NEW rows \in Seq(Row), NEW row \in Row
  PROVE  Entries(Append(rows, row))
           = Append(Entries(rows), [epoch |-> row.attempt, by |-> row.worker])
  <1> DEFINE E == [epoch : Nat, by : Worker]
             e == [epoch |-> row.attempt, by |-> row.worker]
  <1>1. e \in E
    BY DEF Row
  <1>2. Entries(rows) \in Seq(E)
    BY EntriesType
  <1>3. Len(Entries(rows)) = Len(rows)
    BY DEF Entries
  <1>4. Entries(Append(rows, row)) \in Seq(E)
    <2>1. Append(rows, row) \in Seq(Row)
      OBVIOUS
    <2>2. QED
      BY <2>1, EntriesType
  <1>5. Len(Entries(Append(rows, row))) = Len(rows) + 1
    BY DEF Entries
  <1>6. ASSUME NEW i \in 1 .. Len(rows) + 1
        PROVE  Entries(Append(rows, row))[i] = Append(Entries(rows), e)[i]
    <2>1. CASE i \in 1 .. Len(rows)
      BY <1>2, <1>3, <2>1 DEF Entries
    <2>2. CASE i = Len(rows) + 1
      <3>1. Append(rows, row)[i] = row /\ i \in DOMAIN Append(rows, row)
        BY <2>2
      <3>2. Entries(Append(rows, row))[i] = e
        BY <3>1 DEF Entries
      <3>3. Append(Entries(rows), e)[i] = e
        BY <1>1, <1>2, <1>3, <2>2
      <3>4. QED
        BY <3>2, <3>3
    <2>3. Len(rows) \in Nat
      OBVIOUS
    <2>4. i \in 1 .. Len(rows) \/ i = Len(rows) + 1
      BY <2>3
    <2>5. QED
      BY ONLY <2>1, <2>2, <2>4
  <1> HIDE DEF e, E
  <1>7. Append(Entries(rows), e) \in Seq(E)
    BY <1>1, <1>2
  <1>8. Len(Append(Entries(rows), e)) = Len(rows) + 1
    BY <1>1, <1>2, <1>3
  <1>9. Entries(Append(rows, row)) = Append(Entries(rows), e)
    BY <1>4, <1>5, <1>6, <1>7, <1>8
  <1>10. QED
    BY <1>9 DEF e

\* Every step of the dispatch layer is a step of the ledger or leaves it alone.
LEMMA LedgerSimulation ==
  ASSUME TypeOK, [Next]_vars
  PROVE  [Ledger!LedgerNext]_(Ledger!ledgerVars)
  <1> DEFINE mapped == [s \in Step |-> Entries(results[s])]
  <1>1. ASSUME NEW w \in Worker, ClaimWins(w) PROVE Ledger!LedgerNext
    <2>1. cur[w] \in Step
      BY <1>1 DEF ClaimWins, TypeOK
    <2>2. Ledger!Grant(cur[w], w)
      BY <1>1 DEF ClaimWins, Ledger!Grant
    <2>3. QED
      BY <2>1, <2>2 DEF Ledger!LedgerNext
  <1>2. ASSUME NEW w \in Worker, cur[w] \in Step, Commits(w)
        PROVE  Ledger!LedgerNext
    <2> DEFINE s == cur[w]
    <2>1. PICK st \in Final : CommitResult(w, s, st)
      BY <1>2 DEF Commits
    <2> DEFINE row == [attempt |-> attempts[s], worker |-> w,
                       status |-> st, exec |-> msgAttempt[w]]
    <2>2. /\ s \in Step /\ results[s] \in Seq(Row) /\ row \in Row
          /\ row.attempt = attempts[s] /\ row.worker = w
      BY <1>2 DEF TypeOK, Row
    <2>3. /\ lockToken[s] = w
          /\ results'   = [results EXCEPT ![s] = Append(results[s], row)]
          /\ lockToken' = [lockToken EXCEPT ![s] = NoOne]
          /\ UNCHANGED attempts
      BY <2>1 DEF CommitResult, Holds
    <2> HIDE DEF s, row
    <2>4. Entries(Append(results[s], row))
            = Append(Entries(results[s]), [epoch |-> attempts[s], by |-> w])
      BY <2>2, EntriesAppend
    <2>5. mapped' = [mapped EXCEPT ![s] =
                       Append(mapped[s], [epoch |-> attempts[s], by |-> w])]
      BY <2>2, <2>3, <2>4 DEF TypeOK
    <2>6. Ledger!Commit(s, w)
      BY <2>2, <2>3, <2>5 DEF Ledger!Commit
    <2>7. QED
      BY <2>2, <2>6 DEF Ledger!LedgerNext
  <1>3. ASSUME NEW s \in Step, Withdraws(s) PROVE Ledger!LedgerNext
    <2>1. Ledger!Withdraw(s)
      BY <1>3 DEF Withdraws, Ledger!Withdraw
    <2>2. QED
      BY <2>1 DEF Ledger!LedgerNext
  <1>4. ASSUME LedgerUnchanged PROVE UNCHANGED Ledger!ledgerVars
    BY <1>4 DEF LedgerUnchanged, Ledger!ledgerVars
  <1>5. QED
    BY StepKinds, <1>1, <1>2, <1>3, <1>4

\* The dispatch layer implements the contract of StepLedger.
THEOREM Refinement == Spec => ImplementsLedger
  <1>1. Init => Ledger!LedgerInit
    BY DEF Init, Ledger!LedgerInit, Entries
  <1>2. TypeOK /\ [Next]_vars => [Ledger!LedgerNext]_(Ledger!ledgerVars)
    BY LedgerSimulation
  <1>3. QED
    BY <1>1, <1>2, TypeCorrect, PTL
       DEF Spec, ImplementsLedger, Ledger!LedgerSpec

-----------------------------------------------------------------------------
(* Exclusive execution.                                                    *)

\* If each executing worker holds the token of its step, no two execute one step.
LEMMA ExclusiveFromLease == TypeOK /\ LeaseOutlivesSleep => Exclusive
  BY DEF LeaseOutlivesSleep, Exclusive, Holds

\* One worker's return to the loop does not touch the leases of the others.
LEMMA LeaseKept ==
  ASSUME TypeOK, LeaseOutlivesSleep,
         \A v \in Worker : pc'[v] = "run" =>
           /\ pc[v] = "run"
           /\ cur'[v] = cur[v] /\ hb'[v] = hb[v] /\ hbIn'[v] = hbIn[v]
           /\ lockToken'[cur[v]] = lockToken[cur[v]]
           /\ leaseLeft'[cur[v]] = leaseLeft[cur[v]]
  PROVE  LeaseOutlivesSleep'
  BY DEF LeaseOutlivesSleep, Holds

\* In a reliable environment, a heartbeat comes before its lease lapses.
LEMMA LeaseStep ==
  ASSUME Reliable, TypeOK, LeaseOutlivesSleep, [Next]_vars
  PROVE  LeaseOutlivesSleep'
  <1> USE DispatchAssumption, PeriodInRange
  <1>1. ASSUME NEW s \in Step, Enqueue(s) PROVE LeaseOutlivesSleep'
    BY <1>1, LeaseKept DEF Enqueue, procVars
  <1>2. ASSUME NEW w \in Worker, ClaimWins(w) PROVE LeaseOutlivesSleep'
    <2> DEFINE s == cur[w]
    <2>1. s \in Step
      BY <1>2 DEF ClaimWins, TypeOK
    <2>2. \A v \in Worker : v # w /\ pc[v] = "run" => cur[v] # s
      <3> SUFFICES ASSUME NEW v \in Worker, v # w, pc[v] = "run", cur[v] = s
                   PROVE  FALSE
        OBVIOUS
      <3>1. /\ lockToken[s] = v
            /\ leaseLeft[s] >= hbIn[v] + (LeaseSecs - HeartbeatPeriod)
        BY DEF LeaseOutlivesSleep, Holds
      <3>2. leaseLeft[s] \in Int /\ hbIn[v] \in Nat
        BY <2>1 DEF TypeOK
      <3>3. v # NoOne /\ leaseLeft[s] >= 0
        BY <3>1, <3>2
      <3>4. QED
        BY <1>2, <3>1, <3>2, <3>3 DEF ClaimWins, Claimable, Expired
    <2>3. /\ lockToken'[s] = w /\ leaseLeft'[s] = LeaseSecs
          /\ \A r \in Step : r # s => /\ lockToken'[r] = lockToken[r]
                                      /\ leaseLeft'[r] = leaseLeft[r]
      BY <1>2, <2>1 DEF ClaimWins, TypeOK
    <2>4. /\ cur' = cur /\ hb'[w] = "on" /\ hbIn'[w] = HeartbeatPeriod
          /\ \A v \in Worker : v # w => /\ pc'[v] = pc[v] /\ hb'[v] = hb[v]
                                        /\ hbIn'[v] = hbIn[v]
      BY <1>2 DEF ClaimWins, TypeOK
    <2> SUFFICES ASSUME NEW v \in Worker, pc'[v] = "run"
                 PROVE  /\ lockToken'[cur'[v]] = v
                        /\ hb'[v] = "on"
                        /\ leaseLeft'[cur'[v]]
                             >= hbIn'[v] + (LeaseSecs - HeartbeatPeriod)
      BY DEF LeaseOutlivesSleep, Holds
    <2>5. CASE v = w
      BY <2>3, <2>4, <2>5
    <2>6. CASE v # w
      <3>1. pc[v] = "run" /\ cur[v] \in Step /\ cur[v] # s
        BY <2>2, <2>4, <2>6 DEF TypeOK
      <3>2. QED
        BY <2>3, <2>4, <2>6, <3>1 DEF LeaseOutlivesSleep, Holds
    <2>7. QED
      BY <2>5, <2>6
  <1>3. ASSUME NEW w \in Worker, Heartbeat(w) PROVE LeaseOutlivesSleep'
    <2> DEFINE s == cur[w]
    <2>1. s \in Step /\ Holds(w, s)
      BY <1>3 DEF Heartbeat, TypeOK, LeaseOutlivesSleep
    <2>2. /\ leaseLeft' = [leaseLeft EXCEPT ![s] = LeaseSecs]
          /\ hbIn' = [hbIn EXCEPT ![w] = HeartbeatPeriod]
          /\ UNCHANGED <<lockToken, pc, cur, hb>>
      BY <1>3, <2>1 DEF Heartbeat
    <2> SUFFICES ASSUME NEW v \in Worker, pc[v] = "run"
                 PROVE  leaseLeft'[cur[v]]
                             >= hbIn'[v] + (LeaseSecs - HeartbeatPeriod)
      BY <2>2 DEF LeaseOutlivesSleep, Holds
    <2>3. CASE v = w
      BY <2>1, <2>2, <2>3 DEF TypeOK
    <2>4. CASE v # w
      <3>1. cur[v] # s
        BY <2>1, <2>4 DEF LeaseOutlivesSleep, Holds
      <3>2. leaseLeft'[cur[v]] = leaseLeft[cur[v]] /\ hbIn'[v] = hbIn[v]
        BY <2>2, <2>4, <3>1 DEF TypeOK
      <3>3. QED
        BY <3>2 DEF LeaseOutlivesSleep
    <2>5. QED
      BY <2>3, <2>4
  <1>4. ASSUME Tick PROVE LeaseOutlivesSleep'
    <2> SUFFICES ASSUME NEW v \in Worker, pc[v] = "run"
                 PROVE  leaseLeft'[cur[v]]
                             >= hbIn'[v] + (LeaseSecs - HeartbeatPeriod)
      BY <1>4 DEF Tick, LeaseOutlivesSleep, Holds
    <2>1. /\ cur[v] \in Step /\ hb[v] = "on"
          /\ leaseLeft[cur[v]] >= hbIn[v] + (LeaseSecs - HeartbeatPeriod)
      BY DEF TypeOK, LeaseOutlivesSleep
    <2>2. hbIn[v] > 0 /\ hbIn'[v] = hbIn[v] - 1
      BY <1>4, <2>1 DEF Tick, TypeOK
    <2>3. leaseLeft'[cur[v]] = leaseLeft[cur[v]] - 1
      BY <1>4, <2>1, <2>2 DEF Tick, TypeOK, Expired
    <2>4. QED
      BY <2>1, <2>2, <2>3 DEF TypeOK
  <1>5. ASSUME NEW w \in Worker, Complete(w) \/ Release(w)
        PROVE  LeaseOutlivesSleep'
    <2> DEFINE s == cur[w]
    <2>1. s \in Step /\ pc[w] # "run"
      BY <1>5 DEF Complete, Release, TypeOK
    <2>2. \/ /\ lockToken[s] = w
             /\ lockToken' = [lockToken EXCEPT ![s] = NoOne]
             /\ leaseLeft' = [leaseLeft EXCEPT ![s] = -1]
          \/ UNCHANGED <<lockToken, leaseLeft>>
      BY <1>5 DEF Complete, Release, CommitResult, Holds, dbVars
    <2>3. BackToLoop(w, "poll")
      BY <1>5 DEF Complete, Release
    <2> SUFFICES ASSUME NEW v \in Worker, pc'[v] = "run"
                 PROVE  /\ pc[v] = "run"
                        /\ cur'[v] = cur[v] /\ hb'[v] = hb[v]
                        /\ hbIn'[v] = hbIn[v]
                        /\ lockToken'[cur[v]] = lockToken[cur[v]]
                        /\ leaseLeft'[cur[v]] = leaseLeft[cur[v]]
      BY LeaseKept
    <2>4. v # w /\ pc[v] = "run" /\ cur'[v] = cur[v] /\ hb'[v] = hb[v]
          /\ hbIn'[v] = hbIn[v]
      BY <2>3 DEF BackToLoop, TypeOK
    <2>5. lockToken[cur[v]] = v
      BY <2>4 DEF LeaseOutlivesSleep, Holds
    <2>6. QED
      BY <2>2, <2>4, <2>5 DEF TypeOK
  <1>6. ASSUME NEW w \in Worker, ClaimLoses(w) \/ CompleteLeaseLost(w)
        PROVE  LeaseOutlivesSleep'
    <2>1. UNCHANGED dbVars /\ (BackToLoop(w, "poll") \/ BackToLoop(w, "down"))
      BY <1>6 DEF ClaimLoses, CompleteLeaseLost
    <2>2. QED
      BY <2>1, LeaseKept DEF BackToLoop, dbVars, TypeOK
  <1>7. ASSUME NEW w \in Worker, Pick(w) PROVE LeaseOutlivesSleep'
    BY <1>7, LeaseKept DEF Pick, dbVars, TypeOK
  <1>8. ASSUME NEW w \in Worker, ToolEnds(w) PROVE LeaseOutlivesSleep'
    <2>1. \A v \in Worker : v # w => pc'[v] = pc[v]
      BY <1>8 DEF ToolEnds, TypeOK
    <2>2. pc'[w] # "run"
      BY <1>8 DEF ToolEnds, TypeOK, Outcome
    <2>3. QED
      BY <1>8, <2>1, <2>2, LeaseKept DEF ToolEnds, dbVars, TypeOK
  <1>9. ASSUME NEW w \in Worker, Sigterm(w) PROVE LeaseOutlivesSleep'
    BY <1>9, LeaseKept DEF Sigterm, dbVars
  <1>10. ASSUME NEW w \in Worker, Restart(w) PROVE LeaseOutlivesSleep'
    BY <1>10, LeaseKept DEF Restart, dbVars, TypeOK
  <1>11. ASSUME NEW w \in Worker, \/ HeartbeatFails(w) \/ CompleteFails(w)
                                 \/ ReleaseFails(w) \/ Crash(w)
         PROVE  LeaseOutlivesSleep'
    BY <1>11 DEF HeartbeatFails, CompleteFails, ReleaseFails, Crash
  <1>12. ASSUME UNCHANGED vars PROVE LeaseOutlivesSleep'
    BY <1>12, LeaseKept DEF vars, dbVars, procVars
  <1>13. QED
    BY NextCases, <1>1, <1>2, <1>3, <1>4, <1>5, <1>6, <1>7, <1>8, <1>9, <1>10,
       <1>11, <1>12

\* Where processes, database and clocks behave, no two workers execute one step at
\* the same time, for any number of workers and any lease.
THEOREM ExclusiveExecution == ASSUME Reliable PROVE Spec => []Exclusive
  <1>1. Init => LeaseOutlivesSleep
    BY DEF Init, LeaseOutlivesSleep
  <1>2. TypeOK /\ LeaseOutlivesSleep /\ [Next]_vars => LeaseOutlivesSleep'
    BY LeaseStep
  <1>3. QED
    BY <1>1, <1>2, ExclusiveFromLease, TypeCorrect, PTL DEF Spec
-----------------------------------------------------------------------------
(* No step is left behind.                                                 *)

\* Where a worker is Working.
AtWork == {"run", "complete", "complete_failed", "release"}

\* A worker that gives up nothing it has, or nothing but a step it unlocks at the same
\* time, leaves no orphan.
LEMMA LoopLeavesNoOrphans ==
  ASSUME TypeOK, NoOrphans, NEW w \in Worker, NEW at, BackToLoop(w, at),
         \/ UNCHANGED <<status, lockToken>> /\ \A s \in Step : lockToken[s] # w
         \/ \E s \in Step, st \in Status \ {"RUNNING"} :
              /\ Holds(w, s)
              /\ status' = [status EXCEPT ![s] = st]
              /\ lockToken' = [lockToken EXCEPT ![s] = NoOne]
  PROVE  NoOrphans'
  <1> USE DispatchAssumption
  <1> DEFINE Kept(s) ==
        /\ lockToken'[s] # w
        /\ lockToken'[s] # NoOne => lockToken'[s] = lockToken[s]
        /\ status'[s] = "RUNNING" => /\ status[s] = "RUNNING"
                                     /\ lockToken'[s] = lockToken[s]
  <1>1. \A t \in Step : Kept(t)
    <2>1. CASE UNCHANGED <<status, lockToken>> /\ \A s \in Step : lockToken[s] # w
      BY <2>1
    <2>2. ASSUME NEW s \in Step, NEW st \in Status \ {"RUNNING"}, Holds(w, s),
                 status' = [status EXCEPT ![s] = st],
                 lockToken' = [lockToken EXCEPT ![s] = NoOne]
          PROVE  \A t \in Step : Kept(t)
      <3>1. \A t \in Step : lockToken[t] = w => t = s
        BY <2>2 DEF NoOrphans, Holds
      <3> QED
        BY <2>2, <3>1 DEF TypeOK
    <2> QED
      BY <2>1, <2>2
  <1>2. \A v \in Worker : v # w => pc'[v] = pc[v] /\ cur'[v] = cur[v]
    BY DEF BackToLoop, TypeOK
  <1>3. SUFFICES ASSUME NEW s \in Step
                 PROVE  /\ status'[s] = "RUNNING" => lockToken'[s] # NoOne
                        /\ lockToken'[s] # NoOne => /\ pc'[lockToken'[s]] \in AtWork
                                                    /\ cur'[lockToken'[s]] = s
    BY DEF NoOrphans, Working, AtWork
  <1>4. status'[s] = "RUNNING" => lockToken'[s] # NoOne
    BY <1>1 DEF NoOrphans
  <1>5. ASSUME lockToken'[s] # NoOne
        PROVE  pc'[lockToken'[s]] \in AtWork /\ cur'[lockToken'[s]] = s
    <2>1. lockToken'[s] = lockToken[s] /\ lockToken[s] # w /\ lockToken[s] \in Worker
      BY <1>1, <1>5 DEF TypeOK
    <2> QED
      BY <1>2, <1>5, <2>1 DEF NoOrphans, Working, AtWork
  <1> QED
    BY <1>4, <1>5

\* In a reliable environment every step of the system leaves a locked step in the hands
\* of its worker.
LEMMA OrphanStep ==
  ASSUME Reliable, TypeOK, NoOrphans, [Next]_vars
  PROVE  NoOrphans'
  <1> USE DispatchAssumption
  <1>1. ASSUME NEW s \in Step, Enqueue(s) PROVE NoOrphans'
    BY <1>1 DEF Enqueue, procVars, NoOrphans, Working, TypeOK
  <1>2. ASSUME NEW w \in Worker, ClaimWins(w) PROVE NoOrphans'
    <2> DEFINE s == cur[w]
    <2>1. s \in Step /\ pc[w] = "claim"
      BY <1>2 DEF ClaimWins, TypeOK
    <2>2. \A t \in Step : lockToken[t] # w
      BY <2>1 DEF NoOrphans, Working, AtWork
    <2>3. /\ lockToken' = [lockToken EXCEPT ![s] = w]
          /\ status' = [status EXCEPT ![s] = "RUNNING"]
          /\ pc' = [pc EXCEPT ![w] = "run"]
          /\ cur' = cur
      BY <1>2 DEF ClaimWins
    <2> SUFFICES ASSUME NEW t \in Step
                 PROVE  /\ status'[t] = "RUNNING" => lockToken'[t] # NoOne
                        /\ lockToken'[t] # NoOne => /\ pc'[lockToken'[t]] \in AtWork
                                                    /\ cur'[lockToken'[t]] = t
      BY DEF NoOrphans, Working, AtWork
    <2>4. CASE t = s
      BY <2>1, <2>3, <2>4 DEF TypeOK, Working, AtWork
    <2>5. CASE t # s
      <3>1. lockToken'[t] = lockToken[t] /\ status'[t] = status[t]
        BY <2>1, <2>3, <2>5 DEF TypeOK
      <3>2. \A v \in Worker : v # w => pc'[v] = pc[v]
        BY <2>3 DEF TypeOK
      <3> QED
        BY <2>2, <2>3, <3>1, <3>2 DEF TypeOK, NoOrphans, Working, AtWork
    <2> QED
      BY <2>4, <2>5
  <1>3. ASSUME NEW w \in Worker, ClaimLoses(w) PROVE NoOrphans'
    <2>1. \A s \in Step : lockToken[s] # w
      BY <1>3 DEF ClaimLoses, NoOrphans, Working
    <2> QED
      BY <1>3, <2>1, LoopLeavesNoOrphans DEF ClaimLoses, dbVars
  <1>4. ASSUME NEW w \in Worker, CompleteLeaseLost(w) PROVE NoOrphans'
    <2>1. \A s \in Step : lockToken[s] # w
      BY <1>4 DEF CompleteLeaseLost, NoOrphans, Holds
    <2>2. BackToLoop(w, "poll") \/ BackToLoop(w, "down")
      BY <1>4 DEF CompleteLeaseLost
    <2> QED
      BY <1>4, <2>1, <2>2, LoopLeavesNoOrphans DEF CompleteLeaseLost, dbVars
  <1>5. ASSUME NEW w \in Worker, Complete(w) PROVE NoOrphans'
    <2>1. cur[w] \in Step /\ \E st \in Final : CommitResult(w, cur[w], st)
      BY <1>5 DEF Complete, Final, TypeOK
    <2>2. \A st \in Final : st \in Status \ {"RUNNING"}
      BY DEF Final, Status
    <2> QED
      BY <1>5, <2>1, <2>2, LoopLeavesNoOrphans DEF Complete, CommitResult
  <1>6. ASSUME NEW w \in Worker, Release(w) PROVE NoOrphans'
    <2>1. cur[w] \in Step
      BY <1>6 DEF Release, TypeOK
    <2>2. CASE Holds(w, cur[w])
      BY <1>6, <2>1, <2>2, LoopLeavesNoOrphans DEF Release, Status
    <2>3. CASE ~Holds(w, cur[w])
      <3>1. \A s \in Step : lockToken[s] # w
        BY <2>3 DEF NoOrphans, Holds
      <3> QED
        BY <1>6, <2>3, <3>1, LoopLeavesNoOrphans DEF Release, dbVars
    <2> QED
      BY <2>2, <2>3
  <1>7. ASSUME NEW w \in Worker, Pick(w) PROVE NoOrphans'
    <2>1. \A s \in Step : lockToken[s] # w
      BY <1>7 DEF Pick, NoOrphans, Working
    <2>2. /\ UNCHANGED <<status, lockToken>>
          /\ \A v \in Worker : v # w => pc'[v] = pc[v] /\ cur'[v] = cur[v]
      BY <1>7 DEF Pick, dbVars, TypeOK
    <2> QED
      BY <2>1, <2>2 DEF TypeOK, NoOrphans, Working, AtWork
  <1>8. ASSUME NEW w \in Worker, ToolEnds(w) PROVE NoOrphans'
    <2>1. pc'[w] \in AtWork
      BY <1>8 DEF ToolEnds, TypeOK, Outcome, AtWork
    <2>2. /\ UNCHANGED <<status, lockToken, cur>>
          /\ \A v \in Worker : v # w => pc'[v] = pc[v]
      BY <1>8 DEF ToolEnds, dbVars, TypeOK
    <2>3. \A v \in Worker : Working(v) => pc'[v] \in AtWork
      BY <2>1, <2>2 DEF Working, AtWork
    <2>4. \A s \in Step : lockToken[s] # NoOne => lockToken[s] \in Worker
      BY DEF TypeOK
    <2> QED
      BY <2>2, <2>3, <2>4 DEF NoOrphans, Working, AtWork
  <1>9. ASSUME NEW w \in Worker, Restart(w) PROVE NoOrphans'
    <2>1. \A s \in Step : lockToken[s] # w
      BY <1>9 DEF Restart, NoOrphans, Working
    <2>2. /\ UNCHANGED <<status, lockToken, cur>>
          /\ \A v \in Worker : v # w => pc'[v] = pc[v]
      BY <1>9 DEF Restart, dbVars, TypeOK
    <2>3. \A s \in Step : lockToken[s] # NoOne
            => lockToken[s] \in Worker /\ pc'[lockToken[s]] = pc[lockToken[s]]
      BY <2>1, <2>2 DEF TypeOK
    <2> QED
      BY <2>2, <2>3 DEF NoOrphans, Working
  <1>10. ASSUME UNCHANGED <<status, lockToken, pc, cur>> PROVE NoOrphans'
    BY <1>10 DEF NoOrphans, Working, AtWork
  <1>11. ASSUME NEW w \in Worker, Heartbeat(w) \/ Sigterm(w)
         PROVE  UNCHANGED <<status, lockToken, pc, cur>>
    BY <1>11 DEF Heartbeat, Sigterm, dbVars
  <1>12. ASSUME NEW w \in Worker, \/ HeartbeatFails(w) \/ CompleteFails(w)
                                 \/ ReleaseFails(w) \/ Crash(w)
         PROVE  FALSE
    BY <1>12 DEF HeartbeatFails, CompleteFails, ReleaseFails, Crash
  <1>13. Tick \/ UNCHANGED vars => UNCHANGED <<status, lockToken, pc, cur>>
    BY DEF Tick, vars, dbVars, procVars
  <1> QED
    BY NextCases, <1>1, <1>2, <1>3, <1>4, <1>5, <1>6, <1>7, <1>8, <1>9, <1>10, <1>11,
       <1>12, <1>13

\* Where processes, database and clocks behave, no step stays RUNNING without a worker
\* that is at work on it.
THEOREM NoStepOrphaned == ASSUME Reliable PROVE Spec => []NoOrphans
  <1>1. Init => NoOrphans
    BY DEF Init, NoOrphans
  <1>2. TypeOK /\ NoOrphans /\ [Next]_vars => NoOrphans'
    BY OrphanStep
  <1> QED
    BY <1>1, <1>2, TypeCorrect, PTL DEF Spec
=============================================================================

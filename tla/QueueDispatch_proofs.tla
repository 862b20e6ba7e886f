------------------------- MODULE QueueDispatch_proofs -------------------------
(***************************************************************************)
(* Proofs about QueueDispatch: type correctness, the receipts a process     *)
(* keeps, that no message is lost, and that messages are worked on by one   *)
(* worker at a time until something fails.                                  *)
(***************************************************************************)
EXTENDS QueueDispatch, TLAPS

\* Updating a function at one point keeps it in its function set.
LEMMA ExceptInSet ==
  ASSUME NEW S, NEW T, NEW f \in [S -> T], NEW x, NEW y \in T
  PROVE  [f EXCEPT ![x] = y] \in [S -> T]
  OBVIOUS

\* Half of a lease, rounded down, is less than the lease.
LEMMA HalfLease == HeartbeatPeriod \in Nat /\ HeartbeatPeriod < LeaseSecs
  BY QueueAssumption DEF HeartbeatPeriod

-----------------------------------------------------------------------------
(* The conjuncts of TypeOK in groups small enough for the provers.         *)
QueueOK ==
  /\ stepOf \in [Message -> Step \union {None}]
  /\ gone \subseteq Message
  /\ hiddenFor \in [Message -> 0 .. LeaseSecs]
  /\ receiver \in [Message -> Worker \union {None}]
ProcOK ==
  /\ pc \in [Worker -> PC]
  /\ cur \in [Worker -> Step \union {None}]
  /\ hb \in [Worker -> {"off", "on", "dead"}]
  /\ hbIn \in [Worker -> 0 .. HeartbeatPeriod]
TaskOK    == \A w \in Worker : cur[w] # None <=> Working(w)
ReceiptOK == receipts \in [Worker -> [Step -> Message \union {None}]]
HistoryOK == executed \subseteq Message /\ faults \in 0 .. MaxFaults

\* The groups make up the type invariant.
LEMMA TypeParts ==
  TypeOK <=> QueueOK /\ ProcOK /\ TaskOK /\ ReceiptOK /\ HistoryOK
  BY Zenon DEF TypeOK, QueueOK, ProcOK, TaskOK, ReceiptOK, HistoryOK

\* And so after a step.
LEMMA TypePartsAfter ==
  ASSUME QueueOK', ProcOK', TaskOK', ReceiptOK', HistoryOK'
  PROVE  TypeOK'
  BY Zenon DEF TypeOK, QueueOK, ProcOK, TaskOK, ReceiptOK, HistoryOK

\* What is proved together: TypeOK alone is not inductive, for the message at hand
\* is one only because there is a receipt.
Delivered == TypeOK /\ OneReceiptAtHand /\ EndedIsExecuted /\ NothingLost

\* The initial state.
LEMMA DeliveredInit == Init => Delivered
  <1> SUFFICES ASSUME Init PROVE Delivered
    OBVIOUS
  <1>1. QueueOK /\ HistoryOK
    BY QueueAssumption DEF Init, QueueOK, HistoryOK
  <1>2. ProcOK
    BY HalfLease DEF Init, ProcOK, PC
  <1>3. TaskOK
    BY DEF Init, TaskOK, Working
  <1>4. ReceiptOK
    BY DEF Init, ReceiptOK, NoReceipts
  <1>5. OneReceiptAtHand
    BY QueueAssumption DEF Init, OneReceiptAtHand, NoReceipts, Working
  <1>6. EndedIsExecuted /\ NothingLost
    BY DEF Init, EndedIsExecuted, NothingLost
  <1> QED
    BY <1>1, <1>2, <1>3, <1>4, <1>5, <1>6, TypeParts DEF Delivered

-----------------------------------------------------------------------------
(* The parts of an action.                                                 *)

\* The calls of the queue leave it well typed.
LEMMA CallsType ==
  ASSUME QueueOK, NEW w \in Worker, NEW m \in Message,
         \/ Receive(w, m)
         \/ Delete(w, m)
         \/ \E secs \in 0 .. LeaseSecs : HideFor(w, m, secs)
         \/ UNCHANGED queue
  PROVE  QueueOK'
  <1>1. LeaseSecs \in 0 .. LeaseSecs
    BY QueueAssumption
  <1>2. CASE Receive(w, m)
    BY <1>1, <1>2, ExceptInSet DEF Receive, QueueOK
  <1>3. CASE Delete(w, m)
    BY <1>3 DEF Delete, QueueOK
  <1>4. CASE \E secs \in 0 .. LeaseSecs : HideFor(w, m, secs)
    BY <1>4, ExceptInSet DEF HideFor, QueueOK
  <1>5. CASE UNCHANGED queue
    BY <1>5 DEF queue, QueueOK
  <1> QED
    BY <1>2, <1>3, <1>4, <1>5

\* What a working worker is at work on.
LEMMA AtHandType ==
  ASSUME ProcOK, TaskOK, ReceiptOK, OneReceiptAtHand, NEW w \in Worker, Working(w)
  PROVE  cur[w] \in Step /\ AtHand(w) \in Message /\ stepOf[AtHand(w)] = cur[w]
  <1>1. cur[w] \in Step
    BY DEF ProcOK, TaskOK
  <1>2. receipts[w][cur[w]] # None /\ stepOf[receipts[w][cur[w]]] = cur[w]
    BY <1>1, Zenon DEF OneReceiptAtHand
  <1>3. receipts[w][cur[w]] \in Message \union {None}
    BY <1>1 DEF ReceiptOK
  <1> QED
    BY <1>1, <1>2, <1>3 DEF AtHand

\* The end of a task, whether by returning to the loop or with the process.
LEMMA TaskEnds ==
  ASSUME ProcOK, TaskOK, ReceiptOK, OneReceiptAtHand, EndedIsExecuted,
         NEW w \in Worker, NEW at \in {"poll", "down"}, EndTask(w, at),
         \/ receipts' = Pop(w) /\ Working(w)
         \/ receipts' = [receipts EXCEPT ![w] = NoReceipts],
         UNCHANGED <<stepOf, executed>>
  PROVE  ProcOK' /\ TaskOK' /\ ReceiptOK' /\ OneReceiptAtHand' /\ EndedIsExecuted'
  <1>1. ProcOK'
    <2>1. /\ pc' \in [Worker -> PC]
          /\ cur' \in [Worker -> Step \union {None}]
          /\ hb' \in [Worker -> {"off", "on", "dead"}]
      BY ExceptInSet DEF ProcOK, EndTask, PC
    <2>2. hbIn' \in [Worker -> 0 .. HeartbeatPeriod]
      BY HalfLease, ExceptInSet DEF ProcOK, EndTask
    <2> QED
      BY <2>1, <2>2 DEF ProcOK
  <1>2. /\ pc'[w] = at /\ cur'[w] = None
        /\ \A v \in Worker \ {w} : pc'[v] = pc[v] /\ cur'[v] = cur[v]
    BY DEF ProcOK, EndTask
  <1>3. TaskOK'
    BY <1>2 DEF TaskOK, Working
  <1>4. /\ \A s \in Step : receipts'[w][s] = None
        /\ \A v \in Worker \ {w} : receipts'[v] = receipts[v]
        /\ ReceiptOK'
    <2>1. CASE receipts' = Pop(w) /\ Working(w)
      <3>1. \A s \in Step : s # cur[w] => receipts[w][s] = None
        BY Zenon DEF OneReceiptAtHand
      <3>2. cur[w] \in Step
        BY <2>1, AtHandType
      <3>3. receipts' = [receipts EXCEPT ![w] = [receipts[w] EXCEPT ![cur[w]] = None]]
        BY <2>1 DEF Pop
      <3> QED
        BY <3>1, <3>2, <3>3 DEF ReceiptOK
    <2>2. CASE receipts' = [receipts EXCEPT ![w] = NoReceipts]
      BY <2>2 DEF ReceiptOK, NoReceipts
    <2> QED
      BY <2>1, <2>2
  <1>5. OneReceiptAtHand'
    <2> SUFFICES ASSUME NEW v \in Worker, NEW s \in Step
                 PROVE  IF (Working(v) /\ cur[v] = s)'
                          THEN receipts'[v][s] # None /\ stepOf'[receipts'[v][s]] = s
                          ELSE receipts'[v][s] = None
      BY DEF OneReceiptAtHand
    <2>1. CASE v = w
      BY <2>1, <1>2, <1>4 DEF Working
    <2>2. CASE v # w
      <3>1. /\ Working(v)' <=> Working(v)
            /\ cur'[v] = cur[v] /\ receipts'[v] = receipts[v] /\ stepOf' = stepOf
        BY <2>2, <1>2, <1>4 DEF Working
      <3>2. IF Working(v) /\ cur[v] = s
              THEN receipts[v][s] # None /\ stepOf[receipts[v][s]] = s
              ELSE receipts[v][s] = None
        BY Zenon DEF OneReceiptAtHand
      <3>3. CASE Working(v) /\ cur[v] = s
        BY ONLY <3>1, <3>2, <3>3
      <3>4. CASE ~(Working(v) /\ cur[v] = s)
        BY ONLY <3>1, <3>2, <3>4
      <3> QED
        BY <3>3, <3>4
    <2> QED
      BY <2>1, <2>2
  <1>6. EndedIsExecuted'
    BY <1>2, <1>4 DEF EndedIsExecuted, AtHand
  <1> QED
    BY <1>1, <1>3, <1>4, <1>5, <1>6

\* A claim that is answered: a receipt is entered and a task starts.
LEMMA TaskStarts ==
  ASSUME ProcOK, TaskOK, ReceiptOK, QueueOK, OneReceiptAtHand, EndedIsExecuted,
         NEW w \in Worker, Claim(w)
  PROVE  /\ ProcOK' /\ TaskOK' /\ ReceiptOK' /\ QueueOK'
         /\ OneReceiptAtHand' /\ EndedIsExecuted'
  <1>1. PICK m \in Message :
          /\ Receive(w, m)
          /\ cur' = [cur EXCEPT ![w] = stepOf[m]]
          /\ receipts' = [receipts EXCEPT ![w][stepOf[m]] = m]
    BY DEF Claim
  <1>2. QueueOK'
    BY <1>1, CallsType
  <1>3. stepOf[m] \in Step /\ stepOf' = stepOf
    BY <1>1 DEF Receive, QueueOK
  <1>4. m # None
    BY QueueAssumption DEF Message
  <1>5. ProcOK'
    <2>1. /\ pc' \in [Worker -> PC]
          /\ cur' \in [Worker -> Step \union {None}]
          /\ hb' \in [Worker -> {"off", "on", "dead"}]
      BY <1>1, <1>3, ExceptInSet DEF ProcOK, Claim, PC
    <2>2. hbIn' \in [Worker -> 0 .. HeartbeatPeriod]
      BY HalfLease, ExceptInSet DEF ProcOK, Claim
    <2> QED
      BY <2>1, <2>2 DEF ProcOK
  <1>6. /\ pc[w] = "poll" /\ pc'[w] = "run" /\ cur'[w] = stepOf[m]
        /\ \A v \in Worker \ {w} : pc'[v] = pc[v] /\ cur'[v] = cur[v]
    BY <1>1 DEF ProcOK, Claim
  <1>7. TaskOK'
    BY <1>3, <1>6, QueueAssumption DEF TaskOK, Working
  <1>8. \A s \in Step : receipts[w][s] = None
    BY <1>6 DEF OneReceiptAtHand, Working
  <1>9. /\ \A s \in Step : receipts'[w][s] = IF s = stepOf[m] THEN m ELSE None
        /\ \A v \in Worker \ {w} : receipts'[v] = receipts[v]
        /\ ReceiptOK'
    BY <1>1, <1>3, <1>8 DEF ReceiptOK
  <1>10. OneReceiptAtHand'
    <2> SUFFICES ASSUME NEW v \in Worker, NEW s \in Step
                 PROVE  IF (Working(v) /\ cur[v] = s)'
                          THEN receipts'[v][s] # None /\ stepOf'[receipts'[v][s]] = s
                          ELSE receipts'[v][s] = None
      BY DEF OneReceiptAtHand
    <2>1. CASE v = w
      BY <2>1, <1>3, <1>4, <1>6, <1>9 DEF Working
    <2>2. CASE v # w
      <3>1. /\ Working(v)' <=> Working(v)
            /\ cur'[v] = cur[v] /\ receipts'[v] = receipts[v] /\ stepOf' = stepOf
        BY <2>2, <1>3, <1>6, <1>9 DEF Working
      <3>2. IF Working(v) /\ cur[v] = s
              THEN receipts[v][s] # None /\ stepOf[receipts[v][s]] = s
              ELSE receipts[v][s] = None
        BY Zenon DEF OneReceiptAtHand
      <3>3. CASE Working(v) /\ cur[v] = s
        BY ONLY <3>1, <3>2, <3>3
      <3>4. CASE ~(Working(v) /\ cur[v] = s)
        BY ONLY <3>1, <3>2, <3>4
      <3> QED
        BY <3>3, <3>4
    <2> QED
      BY <2>1, <2>2
  <1>11. EndedIsExecuted'
    BY <1>6, <1>9 DEF EndedIsExecuted, AtHand, Claim
  <1> QED
    BY <1>2, <1>5, <1>7, <1>9, <1>10, <1>11

\* Every step preserves what is proved together.
LEMMA DeliveredNext ==
  ASSUME Delivered, [Next]_vars
  PROVE  Delivered'
  <1>0. /\ QueueOK /\ ProcOK /\ TaskOK /\ ReceiptOK /\ HistoryOK
        /\ OneReceiptAtHand /\ EndedIsExecuted /\ NothingLost
    BY TypeParts DEF Delivered
  <1>1. ASSUME NEW s \in Step, Enqueue(s)
        PROVE  Delivered'
    <2>1. PICK m \in Message : stepOf[m] = None /\ stepOf' = [stepOf EXCEPT ![m] = s]
      BY <1>1 DEF Enqueue
    <2>2. UNCHANGED <<gone, hiddenFor, receiver, pc, cur, receipts, hb, hbIn,
                      executed, faults>>
      BY <1>1 DEF Enqueue, procVars
    <2>3. QueueOK'
      BY <1>0, <2>1, <2>2, ExceptInSet DEF QueueOK
    <2>4. /\ ProcOK' /\ TaskOK' /\ ReceiptOK' /\ HistoryOK'
          /\ EndedIsExecuted' /\ NothingLost'
      BY <1>0, <2>2 DEF ProcOK, TaskOK, Working, ReceiptOK, HistoryOK,
                        EndedIsExecuted, AtHand, NothingLost
    <2>5. OneReceiptAtHand'
      <3> SUFFICES ASSUME NEW v \in Worker, NEW r \in Step
                   PROVE  IF Working(v) /\ cur[v] = r
                            THEN receipts[v][r] # None /\ stepOf'[receipts[v][r]] = r
                            ELSE receipts[v][r] = None
        BY <2>2, Zenon DEF OneReceiptAtHand, Working
      <3>1. CASE Working(v) /\ cur[v] = r
        <4>1. stepOf[receipts[v][r]] = r /\ receipts[v][r] # None
          BY <1>0, <3>1, Zenon DEF OneReceiptAtHand
        <4>2. receipts[v][r] # m
          BY <4>1, <2>1, QueueAssumption
        <4>3. receipts[v][r] \in Message
          BY <4>1, <1>0 DEF ReceiptOK
        <4> QED
          BY <3>1, <4>1, <4>2, <4>3, <2>1, <1>0 DEF QueueOK
      <3>2. CASE ~(Working(v) /\ cur[v] = r)
        <4>1. receipts[v][r] = None
          BY <1>0, <3>2, Zenon DEF OneReceiptAtHand
        <4> QED
          BY <3>2, <4>1
      <3> QED
        BY <3>1, <3>2
    <2> QED
      BY <2>3, <2>4, <2>5, TypePartsAfter DEF Delivered
  <1>2. ASSUME NEW w \in Worker, Claim(w)
        PROVE  Delivered'
    <2>1. /\ ProcOK' /\ TaskOK' /\ ReceiptOK' /\ QueueOK'
          /\ OneReceiptAtHand' /\ EndedIsExecuted'
      BY <1>0, <1>2, TaskStarts
    <2>2. HistoryOK' /\ NothingLost'
      BY <1>0, <1>2 DEF Claim, Receive, HistoryOK, NothingLost
    <2> QED
      BY <2>1, <2>2, TypePartsAfter DEF Delivered
  <1>3. ASSUME NEW w \in Worker, ClaimFails(w)
        PROVE  Delivered'
    <2>1. QueueOK' /\ UNCHANGED <<stepOf, gone, executed>>
      <3>1. CASE \E m \in Message : Receive(w, m)
        BY <1>0, <1>3, <3>1, CallsType DEF ClaimFails, Receive
      <3>2. CASE UNCHANGED queue
        BY <1>0, <1>3, <3>2 DEF ClaimFails, queue, QueueOK
      <3> QED
        BY <1>3, <3>1, <3>2 DEF ClaimFails
    <2>2. ProcOK' /\ TaskOK' /\ ReceiptOK' /\ OneReceiptAtHand' /\ EndedIsExecuted'
      BY <1>0, <1>3, <2>1, TaskEnds DEF ClaimFails
    <2>3. HistoryOK' /\ NothingLost'
      BY <1>0, <1>3, <2>1, QueueAssumption
         DEF ClaimFails, Fault, HistoryOK, NothingLost
    <2> QED
      BY <2>1, <2>2, <2>3, TypePartsAfter DEF Delivered
  <1>4. ASSUME NEW w \in Worker, ToolEnds(w)
        PROVE  Delivered'
    <2>1. pc[w] = "run" /\ Working(w)
      BY <1>4 DEF ToolEnds, Working
    <2>2. AtHand(w) \in Message
      BY <1>0, <2>1, AtHandType
    <2>3. PICK at \in {"complete", "complete_failed", "release"} :
            /\ pc' = [pc EXCEPT ![w] = at]
            /\ at # "release" => AtHand(w) \in executed'
      BY <1>4 DEF ToolEnds
    <2>4. /\ executed \subseteq executed' /\ executed' \subseteq Message
          /\ UNCHANGED <<stepOf, gone, hiddenFor, receiver, cur, receipts>>
          /\ hb' = [hb EXCEPT ![w] = "off"] /\ hbIn' = [hbIn EXCEPT ![w] = 0]
      BY <1>0, <1>4, <2>2 DEF ToolEnds, queue, HistoryOK
    <2>5. /\ pc'[w] = at /\ Working(w)'
          /\ \A v \in Worker : v # w => pc'[v] = pc[v]
          /\ \A v \in Worker : Working(v)' <=> Working(v)
      BY <1>0, <2>1, <2>3 DEF ProcOK, Working
    <2>6. QueueOK' /\ TaskOK' /\ ReceiptOK'
      BY <1>0, <2>4, <2>5 DEF QueueOK, TaskOK, ReceiptOK
    <2>7. ProcOK'
      <3>1. pc' \in [Worker -> PC] /\ hb' \in [Worker -> {"off", "on", "dead"}]
        BY <1>0, <2>3, <2>4, ExceptInSet DEF ProcOK, PC
      <3>2. hbIn' \in [Worker -> 0 .. HeartbeatPeriod]
        BY <1>0, <2>4, HalfLease, ExceptInSet DEF ProcOK
      <3> QED
        BY <1>0, <2>4, <3>1, <3>2 DEF ProcOK
    <2>8. faults' \in 0 .. MaxFaults
      BY <1>0, <1>4, QueueAssumption DEF ToolEnds, Fault, HistoryOK
    <2>9. OneReceiptAtHand'
      BY <1>0, <2>4, <2>5, Zenon DEF OneReceiptAtHand
    <2>10. EndedIsExecuted'
      <3>1. \A v \in Worker : AtHand(v)' = AtHand(v)
        BY <2>4 DEF AtHand
      <3> SUFFICES ASSUME NEW v \in Worker, pc'[v] \in {"complete", "complete_failed"}
                   PROVE  AtHand(v) \in executed'
        BY <3>1 DEF EndedIsExecuted
      <3> QED
        BY <1>0, <2>3, <2>4, <2>5 DEF EndedIsExecuted
    <2>11. HistoryOK' /\ NothingLost'
      BY <1>0, <2>4, <2>8 DEF HistoryOK, NothingLost
    <2> QED
      BY <2>6, <2>7, <2>9, <2>10, <2>11, TypePartsAfter DEF Delivered
  <1>5. ASSUME NEW w \in Worker, Complete(w) \/ CompleteFails(w)
        PROVE  Delivered'
    <2>1. /\ pc[w] \in {"complete", "complete_failed"} /\ Working(w)
          /\ receipts' = Pop(w)
          /\ UNCHANGED executed
          /\ \E at \in {"poll", "down"} : EndTask(w, at)
      BY <1>5 DEF Complete, CompleteFails, Working
    <2>2. AtHand(w) \in Message /\ AtHand(w) \in executed
      BY <1>0, <2>1, AtHandType DEF EndedIsExecuted
    <2>3. Delete(w, AtHand(w)) \/ UNCHANGED queue
      BY <1>5 DEF Complete, CompleteFails
    <2>4. QueueOK'
      BY <1>0, <2>2, <2>3, CallsType
    <2>5. UNCHANGED stepOf /\ gone' \subseteq gone \union {AtHand(w)}
      BY <2>3 DEF Delete, queue
    <2>6. ProcOK' /\ TaskOK' /\ ReceiptOK' /\ OneReceiptAtHand' /\ EndedIsExecuted'
      BY <1>0, <2>1, <2>5, TaskEnds
    <2>7. HistoryOK'
      BY <1>0, <1>5, QueueAssumption DEF Complete, CompleteFails, Fault, HistoryOK
    <2>8. NothingLost'
      BY <1>0, <2>1, <2>2, <2>5 DEF NothingLost
    <2> QED
      BY <2>4, <2>6, <2>7, <2>8, TypePartsAfter DEF Delivered
  <1>6. ASSUME NEW w \in Worker, Release(w) \/ ReleaseFails(w)
        PROVE  Delivered'
    <2>1. /\ Working(w) /\ receipts' = Pop(w) /\ UNCHANGED executed
          /\ EndTask(w, "poll")
      BY <1>6 DEF Release, ReleaseFails, Working
    <2>2. AtHand(w) \in Message
      BY <1>0, <2>1, AtHandType
    <2>3. HideFor(w, AtHand(w), 0) \/ UNCHANGED queue
      BY <1>6 DEF Release, ReleaseFails
    <2>4. QueueOK'
      <3>1. 0 \in 0 .. LeaseSecs
        BY QueueAssumption
      <3> QED
        BY <1>0, <2>2, <2>3, <3>1, CallsType
    <2>5. UNCHANGED <<stepOf, gone>>
      BY <2>3 DEF HideFor, queue
    <2>6. ProcOK' /\ TaskOK' /\ ReceiptOK' /\ OneReceiptAtHand' /\ EndedIsExecuted'
      BY <1>0, <2>1, <2>5, TaskEnds
    <2>7. HistoryOK' /\ NothingLost'
      BY <1>0, <1>6, <2>1, <2>5, QueueAssumption
         DEF Release, ReleaseFails, Fault, HistoryOK, NothingLost
    <2> QED
      BY <2>4, <2>6, <2>7, TypePartsAfter DEF Delivered
  <1>7. ASSUME UNCHANGED <<stepOf, gone, pc, cur, receipts, executed>>,
               QueueOK', ProcOK', HistoryOK'
        PROVE  Delivered'
    <2>1. TaskOK' /\ ReceiptOK' /\ EndedIsExecuted' /\ NothingLost'
      BY <1>0, <1>7 DEF TaskOK, Working, ReceiptOK, EndedIsExecuted, AtHand,
                        NothingLost
    <2>2. OneReceiptAtHand'
      BY <1>0, <1>7, Zenon DEF OneReceiptAtHand, Working
    <2> QED
      BY <1>7, <2>1, <2>2, TypePartsAfter DEF Delivered
  <1>8. ASSUME NEW w \in Worker, Heartbeat(w)
        PROVE  Delivered'
    <2>1. QueueOK'
      BY <1>0, <1>8, QueueAssumption, ExceptInSet DEF Heartbeat, HideFor, QueueOK
    <2>2. ProcOK'
      BY <1>0, <1>8, HalfLease, ExceptInSet DEF Heartbeat, ProcOK
    <2> QED
      BY <1>0, <1>7, <1>8, <2>1, <2>2 DEF Heartbeat, HideFor, HistoryOK
  <1>9. ASSUME NEW w \in Worker, HeartbeatFails(w)
        PROVE  Delivered'
    <2>1. QueueOK' /\ ProcOK' /\ HistoryOK'
      BY <1>0, <1>9, QueueAssumption, ExceptInSet
         DEF HeartbeatFails, Fault, queue, QueueOK, ProcOK, HistoryOK
    <2> QED
      BY <1>7, <1>9, <2>1 DEF HeartbeatFails, queue
  <1>10. ASSUME Tick
         PROVE  Delivered'
    <2>1. QueueOK'
      BY <1>0, <1>10, QueueAssumption DEF Tick, QueueOK
    <2>2. ProcOK'
      BY <1>0, <1>10, HalfLease DEF Tick, ProcOK
    <2>3. HistoryOK'
      BY <1>0, <1>10, QueueAssumption DEF Tick, Fault, HistoryOK
    <2> QED
      BY <1>7, <1>10, <2>1, <2>2, <2>3 DEF Tick
  <1>11. ASSUME NEW w \in Worker, Crash(w)
         PROVE  Delivered'
    <2>1. ProcOK' /\ TaskOK' /\ ReceiptOK' /\ OneReceiptAtHand' /\ EndedIsExecuted'
      BY <1>0, <1>11, TaskEnds DEF Crash, queue
    <2>2. QueueOK' /\ HistoryOK' /\ NothingLost'
      BY <1>0, <1>11, QueueAssumption
         DEF Crash, Fault, queue, QueueOK, HistoryOK, NothingLost
    <2> QED
      BY <2>1, <2>2, TypePartsAfter DEF Delivered
  <1>12. ASSUME NEW w \in Worker, Restart(w)
         PROVE  Delivered'
    <2>1. /\ pc[w] = "down" /\ pc' = [pc EXCEPT ![w] = "poll"]
          /\ UNCHANGED <<stepOf, gone, hiddenFor, receiver, cur, receipts, hb, hbIn,
                         executed, faults>>
      BY <1>12 DEF Restart, queue
    <2>2. /\ pc'[w] = "poll"
          /\ \A v \in Worker : v # w => pc'[v] = pc[v]
          /\ \A v \in Worker : Working(v)' <=> Working(v)
      BY <1>0, <2>1 DEF ProcOK, Working
    <2>3. QueueOK' /\ ReceiptOK' /\ HistoryOK' /\ NothingLost' /\ TaskOK'
      BY <1>0, <2>1, <2>2 DEF QueueOK, ReceiptOK, HistoryOK, NothingLost, TaskOK
    <2>4. ProcOK'
      BY <1>0, <2>1, ExceptInSet DEF ProcOK, PC
    <2>5. OneReceiptAtHand'
      BY <1>0, <2>1, <2>2, Zenon DEF OneReceiptAtHand
    <2>6. EndedIsExecuted'
      BY <1>0, <2>1, <2>2 DEF EndedIsExecuted, AtHand
    <2> QED
      BY <2>3, <2>4, <2>5, <2>6, TypePartsAfter DEF Delivered
  <1>13. CASE UNCHANGED vars
    BY <1>0, <1>7, <1>13 DEF vars, queue, procVars, QueueOK, ProcOK, HistoryOK
  <1> QED
    BY <1>1, <1>2, <1>3, <1>4, <1>5, <1>6, <1>8, <1>9, <1>10, <1>11, <1>12, <1>13,
       Zenon DEF Next, Loop, Failing

\* Delivered is an invariant.
THEOREM DeliveredAlways == Spec => []Delivered
  BY DeliveredInit, DeliveredNext, PTL DEF Spec

\* Every variable has its type; a message is hidden for at most a lease.
THEOREM TypeCorrect == Spec => []TypeOK
  <1>1. Delivered => TypeOK
    BY DEF Delivered
  <1> QED
    BY <1>1, DeliveredAlways, PTL

\* The receipt that complete(), release() and extend() look up is there, is for a
\* message about the step at hand, and is the only one the process keeps.
THEOREM ReceiptsAtHand == Spec => []OneReceiptAtHand
  <1>1. Delivered => OneReceiptAtHand
    BY DEF Delivered
  <1> QED
    BY <1>1, DeliveredAlways, PTL

\* Whatever fails, a message leaves the queue only after an execution of it ended.
THEOREM NoMessageLost == Spec => []NothingLost
  <1>1. Delivered => NothingLost
    BY DEF Delivered
  <1> QED
    BY <1>1, DeliveredAlways, PTL

-----------------------------------------------------------------------------
(* Exclusion while nothing has failed.                                     *)

\* A step that takes no message away from the workers at work leaves them holding
\* theirs: they work on what they worked on before, received last by them, still
\* in the queue and hidden as long as before.
LEMMA HeldStays ==
  ASSUME Delivered, HeldWhileWorking, faults' = 0 => faults = 0,
         NEW w \in Worker,
         \A v \in Worker \ {w} : Working(v) =>
           LET m == AtHand(v) IN
           /\ m \in gone' => m \in gone
           /\ receiver'[m] = receiver[m] /\ hiddenFor'[m] = hiddenFor[m],
         \A v \in Worker \ {w} :
           /\ pc'[v] = pc[v] /\ cur'[v] = cur[v] /\ receipts'[v] = receipts[v]
           /\ hb'[v] = hb[v] /\ hbIn'[v] = hbIn[v],
         faults = 0 /\ Working(w)' =>
           LET m == AtHand(w)' IN
           /\ m \notin gone' /\ receiver'[m] = w /\ hiddenFor'[m] > 0
           /\ pc'[w] = "run" =>
                /\ hb'[w] = "on"
                /\ hiddenFor'[m] >= hbIn'[w] + (LeaseSecs - HeartbeatPeriod)
  PROVE  HeldWhileWorking'
  <1> SUFFICES ASSUME faults' = 0, NEW v \in Worker, Working(v)'
               PROVE  LET m == AtHand(v)' IN
                      /\ m \notin gone' /\ receiver'[m] = v /\ hiddenFor'[m] > 0
                      /\ pc'[v] = "run" =>
                           /\ hb'[v] = "on"
                           /\ hiddenFor'[m] >= hbIn'[v] + (LeaseSecs - HeartbeatPeriod)
    BY DEF HeldWhileWorking
  <1>1. CASE v = w
    BY <1>1
  <1>2. CASE v # w
    <2>1. Working(v) /\ AtHand(v)' = AtHand(v)
      BY <1>2 DEF Working, AtHand
    <2> QED
      BY <1>2, <2>1 DEF HeldWhileWorking
  <1> QED
    BY <1>1, <1>2

\* Two workers that hold their messages do not hold the same one.
LEMMA HeldIsExclusive ==
  ASSUME HeldWhileWorking
  PROVE  Exclusive
  BY DEF HeldWhileWorking, Exclusive

\* Every step preserves it.
LEMMA HeldNext ==
  ASSUME Delivered, HeldWhileWorking, [Next]_vars
  PROVE  HeldWhileWorking'
  <1>0. /\ QueueOK /\ ProcOK /\ TaskOK /\ ReceiptOK /\ HistoryOK
        /\ OneReceiptAtHand /\ EndedIsExecuted /\ NothingLost
    BY TypeParts DEF Delivered
  <1>1. ASSUME NEW v \in Worker, Working(v)
        PROVE  AtHand(v) \in Message
    BY <1>0, <1>1, AtHandType
  <1>2. ASSUME Fault
        PROVE  HeldWhileWorking'
    BY <1>0, <1>2 DEF Fault, HeldWhileWorking, HistoryOK
  <1>3. ASSUME NEW w \in Worker, NEW v \in Worker \ {w}, faults = 0,
               Working(w), Working(v)
        PROVE  AtHand(v) # AtHand(w)
    BY <1>3 DEF HeldWhileWorking
  <1>4. ASSUME NEW s \in Step, Enqueue(s)
        PROVE  HeldWhileWorking'
    BY <1>4 DEF Enqueue, procVars, HeldWhileWorking, Working, AtHand
  <1>5. ASSUME NEW w \in Worker, Claim(w)
        PROVE  HeldWhileWorking'
    <2>1. PICK m \in Message :
            /\ Receive(w, m)
            /\ cur' = [cur EXCEPT ![w] = stepOf[m]]
            /\ receipts' = [receipts EXCEPT ![w][stepOf[m]] = m]
      BY <1>5 DEF Claim
    <2>2. stepOf[m] \in Step /\ hiddenFor[m] = 0 /\ m \notin gone
      BY <1>0, <2>1 DEF Receive, QueueOK
    <2>3. CASE faults = 0
      <3>1. \A v \in Worker \ {w} : Working(v) => AtHand(v) # m
        BY <2>2, <2>3 DEF HeldWhileWorking
      <3>2. \A v \in Worker \ {w} : Working(v) =>
              LET n == AtHand(v) IN
              /\ n \in gone' => n \in gone
              /\ receiver'[n] = receiver[n] /\ hiddenFor'[n] = hiddenFor[n]
        BY <1>0, <1>1, <2>1, <3>1 DEF Receive, QueueOK
      <3>3. \A v \in Worker \ {w} :
              /\ pc'[v] = pc[v] /\ cur'[v] = cur[v] /\ receipts'[v] = receipts[v]
              /\ hb'[v] = hb[v] /\ hbIn'[v] = hbIn[v]
        BY <1>0, <1>5, <2>1 DEF Claim, ProcOK, ReceiptOK
      <3>4. AtHand(w)' = m
        BY <1>0, <2>1, <2>2 DEF AtHand, ProcOK, ReceiptOK
      <3>5. /\ m \notin gone' /\ receiver'[m] = w /\ hiddenFor'[m] = LeaseSecs
            /\ hb'[w] = "on" /\ hbIn'[w] = HeartbeatPeriod
        BY <1>0, <1>5, <2>1, <2>2 DEF Claim, Receive, ProcOK, QueueOK
      <3>6. LeaseSecs > 0 /\ LeaseSecs >= HeartbeatPeriod + (LeaseSecs - HeartbeatPeriod)
        BY HalfLease, QueueAssumption
      <3> QED
        BY <2>3, <3>2, <3>3, <3>4, <3>5, <3>6, HeldStays
    <2> QED
      BY <1>5, <2>3 DEF Claim, HeldWhileWorking
  <1>6. ASSUME NEW w \in Worker, ToolEnds(w)
        PROVE  HeldWhileWorking'
    <2>1. CASE UNCHANGED faults /\ \E at \in {"complete", "complete_failed"} :
                                     pc' = [pc EXCEPT ![w] = at]
      <3>1. /\ pc[w] = "run" /\ Working(w) /\ pc'[w] # "run"
            /\ UNCHANGED <<gone, receiver, hiddenFor, cur, receipts>>
        BY <1>0, <1>6, <2>1 DEF ToolEnds, queue, ProcOK, Working
      <3>2. \A v \in Worker \ {w} : pc'[v] = pc[v] /\ hb'[v] = hb[v] /\ hbIn'[v] = hbIn[v]
        BY <1>0, <1>6, <2>1 DEF ToolEnds, ProcOK
      <3>3. AtHand(w)' = AtHand(w)
        BY <3>1 DEF AtHand
      <3>4. faults = 0 => /\ AtHand(w) \notin gone /\ receiver[AtHand(w)] = w
                          /\ hiddenFor[AtHand(w)] > 0
        BY <3>1 DEF HeldWhileWorking
      <3> QED
        BY <2>1, <3>1, <3>2, <3>3, <3>4, HeldStays
    <2> QED
      BY <1>2, <1>6, <2>1 DEF ToolEnds
  <1>7. ASSUME NEW w \in Worker, Complete(w) \/ Release(w)
        PROVE  HeldWhileWorking'
    <2>1. /\ Working(w) /\ UNCHANGED <<receiver, faults>>
          /\ receipts' = Pop(w) /\ EndTask(w, "poll")
          /\ Delete(w, AtHand(w)) \/ HideFor(w, AtHand(w), 0)
      BY <1>7 DEF Complete, Release, Working, Delete, HideFor
    <2>2. CASE faults = 0
      <3>1. \A v \in Worker \ {w} : Working(v) =>
              LET n == AtHand(v) IN
              /\ n \in gone' => n \in gone
              /\ receiver'[n] = receiver[n] /\ hiddenFor'[n] = hiddenFor[n]
        BY <1>0, <1>1, <1>3, <2>1, <2>2 DEF Delete, HideFor, QueueOK
      <3>2. \A v \in Worker \ {w} :
              /\ pc'[v] = pc[v] /\ cur'[v] = cur[v] /\ receipts'[v] = receipts[v]
              /\ hb'[v] = hb[v] /\ hbIn'[v] = hbIn[v]
        BY <1>0, <2>1 DEF EndTask, Pop, ProcOK, ReceiptOK
      <3>3. ~Working(w)'
        BY <1>0, <2>1 DEF EndTask, Working, ProcOK
      <3> QED
        BY <2>1, <2>2, <3>1, <3>2, <3>3, HeldStays
    <2> QED
      BY <2>1, <2>2 DEF HeldWhileWorking
  <1>8. ASSUME NEW w \in Worker, Heartbeat(w)
        PROVE  HeldWhileWorking'
    <2>1. /\ hb[w] = "on" /\ HideFor(w, AtHand(w), LeaseSecs)
          /\ hbIn' = [hbIn EXCEPT ![w] = HeartbeatPeriod]
          /\ UNCHANGED <<gone, receiver, pc, cur, receipts, hb, faults>>
      BY <1>8 DEF Heartbeat, Due, HideFor
    <2>2. CASE faults = 0 /\ Working(w)
      <3>1. AtHand(w) \in Message /\ Valid(w, AtHand(w))
        BY <1>1, <2>2 DEF HeldWhileWorking, Valid
      <3>2. hiddenFor' = [hiddenFor EXCEPT ![AtHand(w)] = LeaseSecs]
        BY <2>1, <3>1 DEF HideFor
      <3>3. \A v \in Worker \ {w} : Working(v) =>
              hiddenFor'[AtHand(v)] = hiddenFor[AtHand(v)]
        BY <1>0, <1>1, <1>3, <2>2, <3>2 DEF QueueOK
      <3>4. \A v \in Worker \ {w} : hbIn'[v] = hbIn[v]
        BY <1>0, <2>1 DEF ProcOK
      <3>5. /\ hiddenFor'[AtHand(w)] = LeaseSecs /\ hbIn'[w] = HeartbeatPeriod
            /\ AtHand(w)' = AtHand(w)
        BY <1>0, <2>1, <3>1, <3>2 DEF QueueOK, ProcOK, AtHand
      <3>6. LeaseSecs > 0 /\ LeaseSecs >= HeartbeatPeriod + (LeaseSecs - HeartbeatPeriod)
        BY HalfLease, QueueAssumption
      <3> QED
        BY <2>1, <2>2, <3>1, <3>3, <3>4, <3>5, <3>6, HeldStays DEF Valid
    <2>3. CASE faults # 0
      BY <2>1, <2>3 DEF HeldWhileWorking
    <2>4. CASE ~Working(w)
      <3> SUFFICES ASSUME faults = 0, NEW v \in Worker, Working(v)
                   PROVE  LET m == AtHand(v) IN
                          /\ m \notin gone /\ receiver[m] = v /\ hiddenFor'[m] > 0
                          /\ pc[v] = "run" =>
                               /\ hb[v] = "on"
                               /\ hiddenFor'[m] >= hbIn'[v] + (LeaseSecs - HeartbeatPeriod)
        BY <2>1 DEF HeldWhileWorking, Working, AtHand
      <3>1. AtHand(v) \in Message
        BY <1>1
      <3>2. hiddenFor[AtHand(v)] \in 0 .. LeaseSecs
        BY <1>0, <3>1 DEF QueueOK
      <3>3. hiddenFor'[AtHand(v)] \in {hiddenFor[AtHand(v)], LeaseSecs}
        BY <1>0, <2>1, <3>1 DEF HideFor, QueueOK
      <3>4. hbIn'[v] = hbIn[v] /\ hbIn[v] \in 0 .. HeartbeatPeriod
        BY <1>0, <2>1, <2>4 DEF ProcOK
      <3> QED
        BY <3>2, <3>3, <3>4, HalfLease, QueueAssumption DEF HeldWhileWorking
    <2> QED
      BY <2>2, <2>3, <2>4
  <1>9. ASSUME Tick
        PROVE  HeldWhileWorking'
    <2>1. CASE \E w \in Worker : CallPending(w)
      BY <1>2, <1>9, <2>1 DEF Tick
    <2>2. CASE \A w \in Worker : ~CallPending(w)
      <3>1. UNCHANGED <<gone, receiver, pc, cur, receipts, hb, faults>>
        BY <1>9, <2>2 DEF Tick
      <3> SUFFICES ASSUME faults = 0, NEW w \in Worker, Working(w)
                   PROVE  LET m == AtHand(w) IN
                          /\ m \notin gone /\ receiver[m] = w /\ hiddenFor'[m] > 0
                          /\ hb[w] = "on"
                          /\ hiddenFor'[m] >= hbIn'[w] + (LeaseSecs - HeartbeatPeriod)
        BY <3>1 DEF HeldWhileWorking, Working, AtHand
      <3>2. pc[w] = "run"
        BY <2>2 DEF CallPending, Working
      <3>3. /\ AtHand(w) \notin gone /\ receiver[AtHand(w)] = w /\ hb[w] = "on"
            /\ hiddenFor[AtHand(w)] >= hbIn[w] + (LeaseSecs - HeartbeatPeriod)
            /\ hiddenFor[AtHand(w)] > 0
        BY <3>2 DEF HeldWhileWorking
      <3>4. hbIn[w] # 0
        BY <2>2, <3>3 DEF CallPending, Due
      <3>5. AtHand(w) \in Message /\ hiddenFor[AtHand(w)] \in Nat /\ hbIn[w] \in Nat
        BY <1>0, <1>1, HalfLease, QueueAssumption DEF QueueOK, ProcOK
      <3>6. /\ hiddenFor'[AtHand(w)] = hiddenFor[AtHand(w)] - 1
            /\ hbIn'[w] = hbIn[w] - 1
        BY <1>9, <3>3, <3>4, <3>5 DEF Tick
      <3> QED
        BY <3>3, <3>4, <3>5, <3>6, HalfLease, QueueAssumption
    <2> QED
      BY <2>1, <2>2
  <1>10. ASSUME NEW w \in Worker, Restart(w)
         PROVE  HeldWhileWorking'
    <2>1. /\ pc[w] = "down" /\ pc' = [pc EXCEPT ![w] = "poll"]
          /\ UNCHANGED <<gone, hiddenFor, receiver, cur, receipts, hb, hbIn, faults>>
      BY <1>10 DEF Restart, queue
    <2>2. /\ pc'[w] = "poll" /\ ~Working(w)'
          /\ \A v \in Worker \ {w} : pc'[v] = pc[v]
      BY <1>0, <2>1 DEF ProcOK, Working
    <2> QED
      BY <2>1, <2>2, HeldStays
  <1>11. ASSUME NEW w \in Worker, Failing(w)
         PROVE  HeldWhileWorking'
    BY <1>2, <1>11
       DEF Failing, ClaimFails, CompleteFails, ReleaseFails, HeartbeatFails, Crash
  <1>12. CASE UNCHANGED vars
    BY <1>12 DEF vars, queue, procVars, HeldWhileWorking, Working, AtHand
  <1> QED
    BY <1>4, <1>5, <1>6, <1>7, <1>8, <1>9, <1>10, <1>11, <1>12, Zenon DEF Next, Loop

\* Until the first fault, no two workers are at work on one message, for any workers
\* and any lease of at least a second.
THEOREM ExclusiveWork == Spec => []Exclusive
  <1>1. Init => HeldWhileWorking
    BY DEF Init, HeldWhileWorking, Working
  <1>2. HeldWhileWorking => Exclusive
    BY HeldIsExclusive
  <1>3. Delivered /\ HeldWhileWorking /\ [Next]_vars => HeldWhileWorking'
    BY HeldNext
  <1> QED
    BY <1>1, <1>2, <1>3, DeliveredAlways, PTL DEF Spec
=============================================================================

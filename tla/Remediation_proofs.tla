------------------------- MODULE Remediation_proofs -------------------------
(***************************************************************************)
(* Proofs about Remediation: type correctness, that every plan was let      *)
(* through by OPA, that the page agrees with the chat, and that it never    *)
(* goes back while answers come in order.                                   *)
(***************************************************************************)
EXTENDS Remediation, SequenceTheorems, TLAPS

\* Updating a function at one point keeps it in its function set.
LEMMA ExceptInSet ==
  ASSUME NEW S, NEW T, NEW f \in [S -> T], NEW x, NEW y \in T
  PROVE  [f EXCEPT ![x] = y] \in [S -> T]
  OBVIOUS

\* NoData is told from a payload by its status.
LEMMA NoDataIsNoPayload ==
  ASSUME NEW p \in Payload
  PROVE  p # NoData
  <1>1. p.status \in {"streaming", "done"}
    BY DEF Payload
  <1>2. NoData.status = "no_data"
    BY DEF NoData
  <1> QED
    BY <1>1, <1>2

\* A payload in the type of answers.
LEMMA AnswerIsPayload ==
  ASSUME NEW p \in Answer, p # NoData
  PROVE  p \in Payload
  BY DEF Answer

-----------------------------------------------------------------------------
(* Types.                                                                  *)

NodeOK  == task \in [Chains -> Task]
CacheOK == planCache \subseteq {Findings[c] : c \in Chains} /\ reached \subseteq Chains
PageOK  == /\ open \in BOOLEAN
           /\ result \in Answer
           /\ clearing \in BOOLEAN
           /\ polls \in Seq(Payload)

\* The groups make up the type invariant.
LEMMA TypeParts == TypeOK <=> NodeOK /\ CacheOK /\ latest \in Answer /\ PageOK
  BY Zenon DEF TypeOK, NodeOK, CacheOK, PageOK

\* And so after a step.
LEMMA TypePartsAfter ==
  ASSUME NodeOK', CacheOK', (latest \in Answer)', PageOK'
  PROVE  TypeOK'
  BY Zenon DEF TypeOK, NodeOK, CacheOK, PageOK

\* What a task looks like from outside, for steps that change some fields of it.
LEMMA TaskFields ==
  ASSUME NodeOK, NEW c \in Chains
  PROVE  /\ task[c] \in Task
         /\ task[c].pc \in Pc
         /\ task[c].opa \in Decision
         /\ task[c].plan \in Plan
         /\ task[c].text \in 0 .. MaxText
  BY DEF NodeOK, Task

\* A task with fields of the right types.
LEMMA TaskWith ==
  ASSUME NodeOK, NEW c \in Chains, NEW pc \in Pc, NEW opa \in Decision,
         NEW plan \in Plan, NEW text \in 0 .. MaxText
  PROVE  [task[c] EXCEPT !.pc = pc, !.opa = opa, !.plan = plan, !.text = text] \in Task
  BY TaskFields DEF Task

\* A payload made of a task.
LEMMA PayloadType ==
  ASSUME NodeOK, NEW c \in Chains, NEW status \in {"streaming", "done"},
         NEW text \in 0 .. MaxText
  PROVE  /\ PayloadOf(c, status, text) \in Payload
         /\ PayloadOf(c, status, text) \in Answer
         /\ PayloadOf(c, status, text) # NoData
  <1>1. PayloadOf(c, status, text) \in Payload
    BY TaskFields DEF PayloadOf, Payload
  <1> QED
    BY <1>1, NoDataIsNoPayload DEF Answer

\* What is left of the answers when one is taken out.
LEMMA DropType ==
  ASSUME polls \in Seq(Payload), NEW i \in DOMAIN polls
  PROVE  /\ Drop(i) \in Seq(Payload)
         /\ Len(Drop(i)) = Len(polls) - 1
         /\ \A j \in 1 .. Len(polls) - 1 :
              Drop(i)[j] = IF j < i THEN polls[j] ELSE polls[j + 1]
  <1> DEFINE n == Len(polls)
             front == SubSeq(polls, 1, i - 1)
             back  == SubSeq(polls, i + 1, n)
  <1>1. n \in Nat /\ i \in 1 .. n
    OBVIOUS
  <1>2. /\ front \in Seq(Payload)
        /\ Len(front) = i - 1
        /\ \A j \in 1 .. i - 1 : front[j] = polls[j]
    BY <1>1
  <1>3. /\ back \in Seq(Payload)
        /\ Len(back) = n - i
        /\ \A j \in 1 .. n - i : back[j] = polls[j + i]
    BY <1>1
  <1>4. Drop(i) = front \o back
    BY DEF Drop
  <1> HIDE DEF front, back
  <1>5. Drop(i) \in Seq(Payload) /\ Len(Drop(i)) = n - 1
    BY <1>1, <1>2, <1>3, <1>4
  <1>6. \A j \in 1 .. n - 1 : Drop(i)[j] = IF j < i THEN polls[j] ELSE polls[j + 1]
    <2> SUFFICES ASSUME NEW j \in 1 .. n - 1
                 PROVE  Drop(i)[j] = IF j < i THEN polls[j] ELSE polls[j + 1]
      OBVIOUS
    <2>1. CASE j < i
      BY <1>1, <1>2, <1>3, <1>4, <2>1
    <2>2. CASE j >= i
      <3> DEFINE k == j - (i - 1)
      <3>1. k \in 1 .. n - i /\ k + i = j + 1
        BY <1>1, <2>2
      <3>2. back[k] = polls[k + i]
        BY <1>3, <3>1
      <3>3. /\ front \in Seq(Payload) /\ Len(front) = i - 1
            /\ back \in Seq(Payload) /\ Len(back) = n - i
        BY <1>2, <1>3
      <3>4. (front \o back)[j] = back[j - Len(front)]
        <4>1. j \in 1 .. Len(front) + Len(back) /\ ~(j <= Len(front))
          BY <1>1, <2>2, <3>3
        <4> QED
          BY <3>3, <4>1, ConcatProperties
      <3>5. j - Len(front) = k
        BY <3>3
      <3>6. Drop(i)[j] = polls[j + 1]
        BY <1>4, <3>1, <3>2, <3>4, <3>5
      <3>7. ~(j < i)
        BY <1>1, <2>2
      <3> QED
        BY <3>6, <3>7
    <2> QED
      BY <1>1, <2>1, <2>2
  <1> QED
    BY <1>5, <1>6

\* The initial state.
LEMMA TypeInit == Init => TypeOK
  <1> SUFFICES ASSUME Init PROVE TypeOK
    OBVIOUS
  <1>1. NewTask \in Task
    BY RemediationAssumption DEF NewTask, Task, Pc, Decision, Plan
  <1>2. NodeOK
    BY <1>1 DEF Init, NodeOK
  <1>3. CacheOK
    BY DEF Init, CacheOK
  <1>4. NoData \in Answer
    BY DEF Answer
  <1>5. latest \in Answer /\ PageOK
    <2>1. <<>> \in Seq(Payload)
      OBVIOUS
    <2>2. open \in BOOLEAN /\ clearing \in BOOLEAN
      BY DEF Init
    <2>3. latest \in Answer /\ result \in Answer /\ polls \in Seq(Payload)
      BY <1>4, <2>1 DEF Init
    <2> QED
      BY <2>2, <2>3 DEF PageOK
  <1> QED
    BY <1>2, <1>3, <1>5, TypeParts

-----------------------------------------------------------------------------
(* Every step leaves everything well typed.                                *)

\* A step of the node, which changes its task to t, and the key maybe.
LEMMA NodeStepType ==
  ASSUME TypeOK, NEW c \in Chains, NEW t \in Task, task' = [task EXCEPT ![c] = t],
         latest' \in Answer, CacheOK', UNCHANGED pageVars
  PROVE  TypeOK'
  <1>1. NodeOK /\ PageOK
    BY TypeParts
  <1>2. NodeOK'
    BY <1>1, ExceptInSet DEF NodeOK
  <1>3. PageOK'
    BY <1>1 DEF PageOK, pageVars
  <1> QED
    BY <1>2, <1>3, TypePartsAfter

\* A step that leaves the tasks and the cache alone.
LEMMA OtherStepType ==
  ASSUME TypeOK, UNCHANGED chainVars, latest' \in Answer, PageOK'
  PROVE  TypeOK'
  <1>1. NodeOK /\ CacheOK
    BY TypeParts
  <1>2. NodeOK' /\ CacheOK'
    BY <1>1 DEF NodeOK, CacheOK, chainVars
  <1> QED
    BY <1>2, TypePartsAfter

\* Steps of the node.
LEMMA NodeType ==
  ASSUME TypeOK, NEW c \in Chains, CheckPlanCache(c) \/ Step(c)
  PROVE  TypeOK'
  <1>1. NodeOK /\ CacheOK /\ latest \in Answer
    BY TypeParts
  <1>2. task[c] \in Task /\ 0 \in 0 .. MaxText
    BY <1>1, TaskFields, RemediationAssumption
  <1> DEFINE At(pc) == [task[c] EXCEPT !.pc = pc]
             With(pc, opa) == [task[c] EXCEPT !.pc = pc, !.opa = opa]
             Left(pc, opa) == [task[c] EXCEPT !.pc = pc, !.opa = opa, !.text = 0]
             Planned(plan) == [task[c] EXCEPT !.pc = "drain", !.plan = plan, !.text = 0]
  <1>3. \A pc \in Pc : At(pc) \in Task
    BY <1>2 DEF Task
  <1>4. \A pc \in Pc, opa \in Decision : With(pc, opa) \in Task /\ Left(pc, opa) \in Task
    BY <1>2 DEF Task
  <1>5. \A plan \in Plan : Planned(plan) \in Task
    BY <1>2 DEF Task, Pc
  <1>6. CASE CheckPlanCache(c)
    <2>1. At("exchange") \in Task /\ task' = [task EXCEPT ![c] = At("exchange")]
      BY <1>1, <1>3, <1>6 DEF CheckPlanCache, Pc, NodeOK
    <2> QED
      BY <1>1, <1>6, <2>1, NodeStepType DEF CheckPlanCache, CacheOK
  <1>7. CASE ExchangeToken(c)
    <2>1. PICK t \in {At("mark"), With("final", "NO_TOKEN")} : task' = [task EXCEPT ![c] = t]
      BY <1>1, <1>7 DEF ExchangeToken, NodeOK
    <2>2. t \in Task
      BY <1>3, <1>4 DEF Pc, Decision
    <2> QED
      BY <1>1, <1>7, <2>1, <2>2, NodeStepType DEF ExchangeToken, CacheOK
  <1>8. CASE MarkStreaming(c)
    <2>1. PICK t \in {At("call"), At("failed")} : task' = [task EXCEPT ![c] = t]
      BY <1>1, <1>8 DEF MarkStreaming, NodeOK
    <2>2. t \in Task
      BY <1>3 DEF Pc
    <2>3. latest' \in Answer
      BY <1>1, <1>2, <1>8, PayloadType DEF MarkStreaming
    <2> QED
      BY <1>1, <1>8, <2>1, <2>2, <2>3, NodeStepType DEF MarkStreaming, CacheOK
  <1>9. CASE CallAgent(c)
    <2>1. PICK t \in {With("final", "DENY"), With("read", "ALLOW"), With("drain", "ALLOW"),
                      With("final", "ERROR")} : task' = [task EXCEPT ![c] = t]
      BY <1>1, <1>9 DEF CallAgent, NodeOK
    <2>2. t \in Task
      BY <1>4 DEF Pc, Decision
    <2>3. CacheOK'
      BY <1>1, <1>9 DEF CallAgent, CacheOK
    <2> QED
      BY <1>1, <1>9, <2>1, <2>2, <2>3, NodeStepType DEF CallAgent
  <1>10. CASE Chunk(c)
    <2>1. task[c].text + 1 \in 0 .. MaxText
      BY <1>1, <1>10, TaskFields, RemediationAssumption DEF Chunk
    <2>2. latest' \in Answer
      BY <1>1, <1>10, <2>1, PayloadType DEF Chunk
    <2>3. CASE task' = [task EXCEPT ![c].text = @ + 1]
      <3>1. [task[c] EXCEPT !.text = @ + 1] \in Task
        BY <1>2, <2>1 DEF Task
      <3>2. task' = [task EXCEPT ![c] = [task[c] EXCEPT !.text = @ + 1]]
        BY <1>1, <2>3 DEF NodeOK
      <3> QED
        BY <1>1, <1>10, <2>2, <3>1, <3>2, NodeStepType DEF Chunk, CacheOK
    <2>4. CASE Leave(c, "final", "ERROR")
      <3>1. Left("final", "ERROR") \in Task
        BY <1>4 DEF Pc, Decision
      <3>2. task' = [task EXCEPT ![c] = Left("final", "ERROR")]
        BY <1>1, <2>4 DEF NodeOK, Leave
      <3> QED
        BY <1>1, <1>10, <2>2, <3>1, <3>2, NodeStepType DEF Chunk, CacheOK
    <2> QED
      BY <1>10, <2>3, <2>4 DEF Chunk
  <1>11. CASE DoneEvent(c)
    <2>1. PICK plan \in Plan :
            /\ task' = [task EXCEPT ![c] = [@ EXCEPT !.pc = "drain", !.plan = plan, !.text = 0]]
            /\ \/ planCache' = planCache \cup {Findings[c] : p \in {plan} \ {"none"}}
               \/ UNCHANGED planCache
      BY <1>11 DEF DoneEvent
    <2>2. task' = [task EXCEPT ![c] = Planned(plan)]
      BY <1>1, <2>1 DEF NodeOK
    <2>3. CacheOK'
      BY <1>1, <1>11, <2>1 DEF DoneEvent, CacheOK
    <2> QED
      BY <1>1, <1>5, <1>11, <2>2, <2>3, NodeStepType DEF DoneEvent
  <1>12. CASE ErrorEvent(c)
    <2>1. Left("drain", "ERROR") \in Task
      BY <1>4 DEF Pc, Decision
    <2>2. task' = [task EXCEPT ![c] = Left("drain", "ERROR")]
      BY <1>1, <1>12 DEF NodeOK, Leave, ErrorEvent
    <2> QED
      BY <1>1, <1>12, <2>1, <2>2, NodeStepType DEF ErrorEvent, CacheOK
  <1>13. CASE StreamEnds(c)
    <2>1. At("final") \in Task /\ task' = [task EXCEPT ![c] = At("final")]
      BY <1>1, <1>3, <1>13 DEF StreamEnds, Pc, NodeOK
    <2> QED
      BY <1>1, <1>13, <2>1, NodeStepType DEF StreamEnds, CacheOK
  <1>14. CASE StreamBreaks(c)
    <2>1. Left("final", "ERROR") \in Task
      BY <1>4 DEF Pc, Decision
    <2>2. task' = [task EXCEPT ![c] = Left("final", "ERROR")]
      BY <1>1, <1>14 DEF NodeOK, Leave, StreamBreaks
    <2> QED
      BY <1>1, <1>14, <2>1, <2>2, NodeStepType DEF StreamBreaks, CacheOK
  <1>15. CASE WriteFinal(c)
    <2>1. PICK t \in {At("ended"), At("failed")} : task' = [task EXCEPT ![c] = t]
      BY <1>1, <1>15 DEF WriteFinal, NodeOK
    <2>2. t \in Task
      BY <1>3 DEF Pc
    <2>3. latest' \in Answer
      BY <1>1, <1>2, <1>15, PayloadType DEF WriteFinal
    <2> QED
      BY <1>1, <1>15, <2>1, <2>2, <2>3, NodeStepType DEF WriteFinal, CacheOK
  <1> QED
    BY <1>6, <1>7, <1>8, <1>9, <1>10, <1>11, <1>12, <1>13, <1>14, <1>15 DEF Step

\* Every step.
LEMMA TypeStep == TypeOK /\ [Next]_vars => TypeOK'
  <1> SUFFICES ASSUME TypeOK, [Next]_vars PROVE TypeOK'
    OBVIOUS
  <1>1. NodeOK /\ CacheOK /\ latest \in Answer /\ PageOK
    BY TypeParts
  <1>2. NoData \in Answer
    BY DEF Answer
  <1>3. ASSUME NEW c \in Chains, CheckPlanCache(c) \/ Step(c) PROVE TypeOK'
    BY <1>3, NodeType
  <1>4. CASE Crash
    <2>1. [NewTask EXCEPT !.pc = "lost"] \in Task
      BY RemediationAssumption DEF NewTask, Task, Pc, Decision, Plan
    <2>2. NodeOK'
      BY <1>1, <1>4, <2>1 DEF Crash, NodeOK
    <2>3. CacheOK' /\ (latest \in Answer)' /\ PageOK'
      BY <1>1, <1>4 DEF Crash, CacheOK, PageOK, pageVars
    <2> QED
      BY <2>2, <2>3, TypePartsAfter
  <1>5. CASE Delete
    <2>1. PageOK'
      BY <1>1, <1>5 DEF Delete, PageOK, pageVars
    <2> QED
      BY <1>2, <1>5, <2>1, OtherStepType DEF Delete
  <1>6. CASE OpenPage \/ ClosePage
    <2>1. <<>> \in Seq(Payload)
      OBVIOUS
    <2>2. open' \in BOOLEAN /\ clearing' \in BOOLEAN
      BY <1>1, <1>6 DEF PageOK, OpenPage, ClosePage
    <2>3. result' \in Answer /\ polls' \in Seq(Payload)
      BY <1>1, <1>2, <1>6, <2>1 DEF PageOK, OpenPage, ClosePage
    <2>4. PageOK'
      BY <2>2, <2>3 DEF PageOK
    <2> QED
      BY <1>1, <1>6, <2>4, OtherStepType DEF OpenPage, ClosePage
  <1>7. CASE Poll
    <2>1. latest \in Payload
      BY <1>1, <1>7, AnswerIsPayload DEF Poll
    <2>2. polls' \in Seq(Payload)
      BY <1>1, <1>7, <2>1 DEF Poll, PageOK
    <2>3. PageOK'
      BY <1>1, <1>7, <2>2 DEF Poll, PageOK
    <2> QED
      BY <1>1, <1>7, <2>3, OtherStepType DEF Poll
  <1>8. CASE ReceiveAny
    <2>1. PICK i \in DOMAIN polls : Receive(i)
      BY <1>8 DEF ReceiveAny
    <2>2. polls \in Seq(Payload) /\ polls[i] \in Answer
      BY <1>1 DEF PageOK, Answer
    <2>3. polls' \in Seq(Payload)
      BY <2>1, <2>2, DropType DEF Receive
    <2>4. PageOK'
      BY <1>1, <2>1, <2>2, <2>3 DEF Receive, PageOK
    <2> QED
      BY <1>1, <2>1, <2>4, OtherStepType DEF Receive
  <1>9. CASE Clear \/ ClearReturns \/ ClearFails
    <2>1. open' \in BOOLEAN /\ clearing' \in BOOLEAN
      BY <1>1, <1>9 DEF PageOK, Clear, ClearReturns, ClearFails
    <2>2. result' \in Answer /\ polls' \in Seq(Payload) /\ latest' \in Answer
      BY <1>1, <1>2, <1>9 DEF PageOK, Clear, ClearReturns, ClearFails
    <2>3. PageOK'
      BY <2>1, <2>2 DEF PageOK
    <2> QED
      BY <1>9, <2>2, <2>3, OtherStepType DEF Clear, ClearReturns, ClearFails
  <1>10. CASE UNCHANGED vars
    <2>1. PageOK'
      BY <1>1, <1>10 DEF vars, pageVars, PageOK
    <2> QED
      BY <1>1, <1>10, <2>1, OtherStepType DEF vars
  <1> QED
    BY <1>3, <1>4, <1>5, <1>6, <1>7, <1>8, <1>9, <1>10 DEF Next

\* Every variable has its type, whatever the chains, faults and bounds.
THEOREM TypeCorrect == Spec => []TypeOK
  BY TypeInit, TypeStep, PTL DEF Spec

-----------------------------------------------------------------------------
(* The invariant behind the safety properties.                             *)

\* A payload tells what its chain has come to: a plan means that OPA let it through,
\* "done" what the node returned, and a text is no longer than what the chain will
\* write next.
Sound(p) ==
  p # NoData =>
    /\ p.plan # "none" => p.chain \in reached
    /\ p.status = "done" => /\ task[p.chain].pc \in {"ended", "failed"}
                            /\ p.opa = task[p.chain].opa
                            /\ p.plan = task[p.chain].plan
    /\ task[p.chain].pc \notin {"new", "exchange", "mark"}
    /\ task[p.chain].pc = "call" => p.text = 0
    /\ task[p.chain].pc = "read" => p.text <= task[p.chain].text
KnownSound == \A p \in Known : Sound(p)

\* A node that reads the stream, or has a plan, got through.
TaskSound == \A c \in Chains : task[c].pc = "read" \/ task[c].plan # "none" => c \in reached

\* While nothing fails to be in order: what is shown, under way and under the key are,
\* in this order, ever later results of a chain.
Follows(p, q) == p # NoData /\ q # NoData /\ p.chain = q.chain => Rank(p) <= Rank(q)
Ordered ==
  /\ \A i \in DOMAIN polls : Follows(result, polls[i]) /\ Follows(polls[i], latest)
  /\ \A i, j \in DOMAIN polls : i < j => Follows(polls[i], polls[j])
  /\ Follows(result, latest)

\* What is known is an answer.
LEMMA KnownType ==
  ASSUME TypeOK, NEW p \in Known
  PROVE  p \in Answer /\ (p # NoData => p \in Payload /\ p.chain \in Chains)
  <1>1. p \in Answer
    BY DEF TypeOK, Known, Answer
  <1> QED
    BY <1>1, AnswerIsPayload DEF Payload

\* The ranks of payloads.
LEMMA RankType ==
  ASSUME NEW p \in Payload
  PROVE  /\ Rank(p) \in 0 .. MaxText + 1
         /\ p.status # "done" => Rank(p) = p.text
         /\ p.status = "done" => Rank(p) = MaxText + 1
         /\ p.text \in 0 .. MaxText
  BY RemediationAssumption DEF Rank, Payload

\* Nothing becomes known but what is under the key.
LEMMA KnownStep ==
  ASSUME TypeOK, [Next]_vars
  PROVE  Known' \subseteq Known \cup {NoData, latest'}
  <1> SUFFICES ASSUME NEW p \in Known', p # latest', p # NoData PROVE p \in Known
    OBVIOUS
  <1>1. polls \in Seq(Payload)
    BY DEF TypeOK
  <1>2. p = result' \/ \E j \in DOMAIN polls' : p = polls'[j]
    BY DEF Known
  <1>3. CASE UNCHANGED <<result, polls>>
    BY <1>2, <1>3 DEF Known
  <1>4. CASE ClosePage \/ ClearReturns
    BY <1>2, <1>4 DEF ClosePage, ClearReturns, Known
  <1>5. CASE Poll
    <2>1. UNCHANGED result /\ polls' = Append(polls, latest) /\ UNCHANGED latest
      BY <1>5 DEF Poll
    <2>2. \A j \in DOMAIN polls' : polls'[j] = latest \/ (j \in DOMAIN polls /\ polls'[j] = polls[j])
      BY <1>1, <2>1
    <2> QED
      BY <1>2, <2>1, <2>2 DEF Known
  <1>6. CASE ReceiveAny
    <2>1. PICK i \in DOMAIN polls : Receive(i)
      BY <1>6 DEF ReceiveAny
    <2>2. result' = polls[i] /\ polls' = Drop(i)
      BY <2>1 DEF Receive
    <2>3. \A j \in DOMAIN polls' : \E k \in DOMAIN polls : polls'[j] = polls[k]
      <3> TAKE j \in DOMAIN polls'
      <3>1. j \in 1 .. Len(polls) - 1
        BY <1>1, <2>2, DropType
      <3>2. polls'[j] = IF j < i THEN polls[j] ELSE polls[j + 1]
        BY <1>1, <2>2, <3>1, DropType
      <3>3. j \in DOMAIN polls /\ j + 1 \in DOMAIN polls
        BY <1>1, <3>1
      <3> QED
        BY <3>2, <3>3
    <2> QED
      BY <1>2, <2>2, <2>3 DEF Known
  <1>7. (\E c \in Chains : CheckPlanCache(c) \/ Step(c)) => UNCHANGED <<result, polls>>
    BY DEF CheckPlanCache, Step, ExchangeToken, MarkStreaming, CallAgent, Chunk, DoneEvent,
           ErrorEvent, StreamEnds, StreamBreaks, WriteFinal, pageVars
  <1>8. Crash \/ Delete \/ OpenPage \/ Clear \/ ClearFails => UNCHANGED <<result, polls>>
    BY DEF Crash, Delete, OpenPage, Clear, ClearFails, pageVars
  <1>9. UNCHANGED vars => UNCHANGED <<result, polls>>
    BY DEF vars, pageVars
  <1> QED
    BY <1>3, <1>4, <1>5, <1>6, <1>7, <1>8, <1>9 DEF Next

\* A step of the node, which changes its task to t and writes what t says, or nothing.
LEMMA NodeStepSound ==
  ASSUME TypeOK, KnownSound, TaskSound, NEW c \in Chains, NEW t \in Task,
         Known' \subseteq Known \cup {NoData, latest'},
         task' = [task EXCEPT ![c] = t],
         reached' = reached \/ reached' = reached \cup {c},
         task[c].pc \notin {"ended", "failed"},
         t.pc # "new",
         t.pc \in {"exchange", "mark"} => task[c].pc \in {"new", "exchange"},
         t.pc = "call" => task[c].pc = "mark",
         t.pc = "read" => task[c].pc = "call" \/ (task[c].pc = "read" /\ task[c].text <= t.text),
         t.pc = "read" \/ t.plan # "none" => c \in reached',
         latest' # latest =>
           /\ latest'.chain = c
           /\ latest'.plan = t.plan
           /\ latest'.status = "done" => t.pc \in {"ended", "failed"} /\ latest'.opa = t.opa
           /\ t.pc \notin {"exchange", "mark"}
           /\ t.pc = "call" => latest'.text = 0
           /\ t.pc = "read" => latest'.text <= t.text
  PROVE  KnownSound' /\ TaskSound'
  <1>1. /\ task'[c] = t
        /\ \A d \in Chains : d # c => task'[d] = task[d]
    BY DEF TypeOK
  <1>2. \A d \in reached : d \in reached'
    OBVIOUS
  <1>3. TaskSound'
    BY <1>1, <1>2 DEF TaskSound
  <1>4. ASSUME NEW p \in Known, p # NoData PROVE Sound(p)'
    <2>1. p \in Payload /\ p.chain \in Chains
      BY <1>4, KnownType
    <2>2. Sound(p)
      BY DEF KnownSound
    <2>3. CASE p.chain # c
      BY <1>1, <1>2, <2>1, <2>2, <2>3 DEF Sound
    <2>4. CASE p.chain = c
      <3>1. p.text \in Nat /\ t.text \in Nat /\ task[c].text \in Nat
        BY <2>1, RemediationAssumption DEF Payload, Task, TypeOK
      <3>2. /\ task[c].pc \notin {"new", "exchange", "mark", "ended", "failed"}
            /\ p.status # "done"
        BY <1>4, <2>2, <2>4 DEF Sound
      <3>3. t.pc = "read" => p.text <= t.text
        BY <1>4, <2>2, <2>4, <3>1 DEF Sound
      <3> QED
        BY <1>1, <1>2, <1>4, <2>2, <2>4, <3>2, <3>3 DEF Sound
    <2> QED
      BY <2>3, <2>4
  <1>5. latest' # latest => Sound(latest)'
    BY <1>1 DEF Sound
  <1>6. latest \in Known
    BY DEF Known
  <1>7. Sound(latest)'
    <2>1. CASE latest' = latest
      <3>1. CASE latest = NoData
        BY <2>1, <3>1 DEF Sound
      <3>2. CASE latest # NoData
        <4> DEFINE q == latest
        <4>1. PICK p \in Known : p = latest
          BY <1>6
        <4>2. Sound(p)'
          BY <1>4, <3>2, <4>1
        <4> QED
          BY <2>1, <4>1, <4>2 DEF Sound
      <3> QED
        BY <3>1, <3>2
    <2> QED
      BY <1>5, <2>1
  <1>8. ASSUME NEW p \in Known' PROVE Sound(p)'
    <2>1. CASE p = NoData
      BY <2>1 DEF Sound
    <2>2. CASE p # NoData /\ p \in Known
      BY <1>4, <2>2
    <2>3. CASE p = latest'
      BY <1>7, <2>3 DEF Sound
    <2> QED
      BY <2>1, <2>2, <2>3
  <1>9. KnownSound'
    BY <1>8 DEF KnownSound
  <1> QED
    BY <1>3, <1>9

\* The steps of the node.
LEMMA NodeSound ==
  ASSUME TypeOK, KnownSound, TaskSound, NEW c \in Chains, CheckPlanCache(c) \/ Step(c),
         Known' \subseteq Known \cup {NoData, latest'}
  PROVE  KnownSound' /\ TaskSound'
  <1>1. NodeOK
    BY TypeParts
  <1>2. TypeOK'
    BY NodeType
  <1> DEFINE t == task'[c]
  <1>3. t \in Task /\ task[c] \in Task
    BY <1>2, <1>1 DEF TypeOK, NodeOK
  <1>4. task[c].plan # "none" => c \in reached
    BY DEF TaskSound
  <1>5. task[c].pc = "read" => c \in reached
    BY DEF TaskSound
  <1>6. CASE CheckPlanCache(c)
    <2>1. t = [task[c] EXCEPT !.pc = "exchange"]
      BY <1>1, <1>6 DEF CheckPlanCache, NodeOK
    <2>2. /\ task' = [task EXCEPT ![c] = t] /\ t.pc = "exchange" /\ t.plan = task[c].plan
          /\ UNCHANGED <<latest, reached>> /\ task[c].pc = "new"
      BY <1>1, <1>3, <1>6, <2>1 DEF CheckPlanCache, NodeOK, Task
    <2> QED
      BY <1>3, <1>4, <2>2, NodeStepSound
  <1>7. CASE ExchangeToken(c)
    <2>1. /\ task' = [task EXCEPT ![c] = t] /\ t.pc \in {"mark", "final"} /\ t.plan = task[c].plan
          /\ UNCHANGED <<latest, reached>> /\ task[c].pc = "exchange"
      <3>1. CASE task' = [task EXCEPT ![c].pc = "mark"]
        BY <1>1, <1>3, <1>7, <3>1 DEF ExchangeToken, NodeOK, Task
      <3>2. CASE task' = [task EXCEPT ![c] = [@ EXCEPT !.pc = "final", !.opa = "NO_TOKEN"]]
        BY <1>1, <1>3, <1>7, <3>2 DEF ExchangeToken, NodeOK, Task
      <3> QED
        BY <1>7, <3>1, <3>2 DEF ExchangeToken
    <2> QED
      BY <1>3, <1>4, <2>1, NodeStepSound
  <1>8. CASE MarkStreaming(c)
    <2>1. /\ task' = [task EXCEPT ![c] = t] /\ t.plan = task[c].plan /\ task[c].pc = "mark"
          /\ UNCHANGED reached
          /\ \/ t.pc = "call" /\ latest' = PayloadOf(c, "streaming", 0)
             \/ t.pc = "failed" /\ latest' \in {latest, PayloadOf(c, "streaming", 0)}
      BY <1>1, <1>3, <1>8 DEF MarkStreaming, NodeOK, Task
    <2> QED
      BY <1>3, <1>4, <2>1, NodeStepSound DEF PayloadOf
  <1>9. CASE CallAgent(c)
    <2>1. /\ task' = [task EXCEPT ![c] = t] /\ t.plan = task[c].plan /\ task[c].pc = "call"
          /\ UNCHANGED latest
          /\ \/ t.pc = "read" /\ reached' = reached \cup {c}
             \/ t.pc \in {"final", "drain"} /\ UNCHANGED reached
      <3>1. PICK pc \in {"read", "final", "drain"}, opa \in Decision :
              /\ task' = [task EXCEPT ![c] = [@ EXCEPT !.pc = pc, !.opa = opa]]
              /\ task[c].pc = "call"
              /\ UNCHANGED latest
              /\ reached' = IF pc = "read" THEN reached \cup {c} ELSE reached
        BY <1>9 DEF CallAgent, Decision
      <3>2. t = [task[c] EXCEPT !.pc = pc, !.opa = opa]
        BY <1>1, <3>1 DEF NodeOK
      <3>3. task' = [task EXCEPT ![c] = t]
        BY <1>1, <3>1, <3>2 DEF NodeOK
      <3>4. t.pc = pc /\ t.plan = task[c].plan
        BY <1>3, <3>2 DEF Task
      <3> QED
        BY <3>1, <3>3, <3>4
    <2>2. t.pc = "read" \/ t.plan # "none" => c \in reached'
      BY <1>4, <2>1
    <2> QED
      BY <1>3, <2>1, <2>2, NodeStepSound
  <1>10. CASE Chunk(c)
    <2>1. /\ task' = [task EXCEPT ![c] = t] /\ t.plan = task[c].plan /\ task[c].pc = "read"
          /\ UNCHANGED reached
          /\ \/ /\ t.pc = "read" /\ t.text = task[c].text + 1
                /\ latest' = PayloadOf(c, "streaming", task[c].text + 1)
             \/ /\ t.pc = "final"
                /\ latest' \in {latest, PayloadOf(c, "streaming", task[c].text + 1)}
      <3>1. CASE /\ task' = [task EXCEPT ![c].text = @ + 1]
                 /\ latest' = PayloadOf(c, "streaming", task[c].text + 1)
        BY <1>1, <1>3, <1>10, <3>1 DEF Chunk, NodeOK, Task
      <3>2. CASE /\ Leave(c, "final", "ERROR")
                 /\ latest' \in {latest, PayloadOf(c, "streaming", task[c].text + 1)}
        BY <1>1, <1>3, <1>10, <3>2 DEF Chunk, Leave, NodeOK, Task
      <3> QED
        BY <1>10, <3>1, <3>2 DEF Chunk
    <2>2. task[c].text \in Nat
      BY <1>3, RemediationAssumption DEF Task
    <2>3. t.pc = "read" => task[c].text <= t.text /\ task[c].text + 1 <= t.text
      BY <2>1, <2>2
    <2> QED
      BY <1>3, <1>4, <1>5, <2>1, <2>3, NodeStepSound DEF PayloadOf
  <1>11. CASE DoneEvent(c)
    <2>1. /\ task' = [task EXCEPT ![c] = t] /\ t.pc = "drain" /\ task[c].pc = "read"
          /\ UNCHANGED <<latest, reached>>
      BY <1>1, <1>3, <1>11 DEF DoneEvent, NodeOK, Task
    <2> QED
      BY <1>3, <1>5, <2>1, NodeStepSound
  <1>12. CASE ErrorEvent(c) \/ StreamBreaks(c) \/ StreamEnds(c)
    <2>1. /\ task' = [task EXCEPT ![c] = t] /\ t.pc \in {"drain", "final"}
          /\ t.plan = task[c].plan /\ task[c].pc \in {"read", "drain"}
          /\ UNCHANGED <<latest, reached>>
      <3>1. CASE StreamEnds(c)
        BY <1>1, <1>3, <3>1 DEF StreamEnds, NodeOK, Task
      <3>2. CASE ErrorEvent(c)
        BY <1>1, <1>3, <3>2 DEF ErrorEvent, Leave, NodeOK, Task
      <3>3. CASE StreamBreaks(c)
        BY <1>1, <1>3, <3>3 DEF StreamBreaks, Leave, NodeOK, Task
      <3> QED
        BY <1>12, <3>1, <3>2, <3>3
    <2> QED
      BY <1>3, <1>4, <2>1, NodeStepSound
  <1>13. CASE WriteFinal(c)
    <2>1. /\ task' = [task EXCEPT ![c] = t] /\ t.plan = task[c].plan /\ t.opa = task[c].opa
          /\ task[c].pc = "final" /\ UNCHANGED reached
          /\ \/ t.pc = "ended" /\ latest' = PayloadOf(c, "done", 0)
             \/ t.pc = "failed" /\ latest' \in {latest, PayloadOf(c, "done", 0)}
      BY <1>1, <1>3, <1>13 DEF WriteFinal, NodeOK, Task
    <2> QED
      BY <1>3, <1>4, <2>1, NodeStepSound DEF PayloadOf
  <1> QED
    BY <1>6, <1>7, <1>8, <1>9, <1>10, <1>11, <1>12, <1>13 DEF Step

\* Steps of others, which take from the key at most.
LEMMA OtherSound ==
  ASSUME KnownSound, TaskSound, UNCHANGED chainVars, latest' \in {latest, NoData},
         Known' \subseteq Known \cup {NoData, latest'}
  PROVE  KnownSound' /\ TaskSound'
  <1>1. TaskSound'
    BY DEF TaskSound, chainVars
  <1>2. ASSUME NEW p \in Known' PROVE Sound(p)'
    <2>1. p = NoData \/ p \in Known
      BY <1>2 DEF Known
    <2>2. p = NoData \/ Sound(p)
      BY <2>1 DEF KnownSound
    <2> QED
      BY <2>2 DEF Sound, chainVars
  <1> QED
    BY <1>1, <1>2 DEF KnownSound

\* The crash of the process.
LEMMA CrashSound ==
  ASSUME TypeOK, KnownSound, TaskSound, Crash
  PROVE  KnownSound' /\ TaskSound'
  <1>1. /\ \A c \in Chains : \/ task'[c] = task[c]
                             \/ /\ task'[c].pc = "lost" /\ task'[c].plan = "none"
                                /\ task[c].pc \notin {"ended", "failed"}
        /\ UNCHANGED <<latest, reached, result, polls>>
    BY DEF Crash, NewTask, pageVars
  <1>2. TaskSound'
    BY <1>1 DEF TaskSound
  <1>3. ASSUME NEW p \in Known' PROVE Sound(p)'
    <2>1. p \in Known
      BY <1>1 DEF Known
    <2>2. Sound(p) /\ (p # NoData => p.chain \in Chains)
      BY <2>1, KnownType DEF KnownSound
    <2> QED
      BY <1>1, <2>2 DEF Sound
  <1> QED
    BY <1>2, <1>3 DEF KnownSound

\* Every step.
LEMMA SoundStep ==
  TypeOK /\ KnownSound /\ TaskSound /\ [Next]_vars => KnownSound' /\ TaskSound'
  <1> SUFFICES ASSUME TypeOK, KnownSound, TaskSound, [Next]_vars
               PROVE  KnownSound' /\ TaskSound'
    OBVIOUS
  <1>1. Known' \subseteq Known \cup {NoData, latest'}
    BY KnownStep
  <1>2. ASSUME NEW c \in Chains, CheckPlanCache(c) \/ Step(c) PROVE KnownSound' /\ TaskSound'
    BY <1>1, <1>2, NodeSound
  <1>3. CASE Crash
    BY <1>3, CrashSound
  <1>4. Delete \/ OpenPage \/ ClosePage \/ Poll \/ ReceiveAny \/ Clear \/ ClearReturns
          \/ ClearFails \/ UNCHANGED vars
          => UNCHANGED chainVars /\ latest' \in {latest, NoData}
    BY DEF Delete, OpenPage, ClosePage, Poll, ReceiveAny, Receive, Clear, ClearReturns,
           ClearFails, vars
  <1> QED
    BY <1>1, <1>2, <1>3, <1>4, OtherSound DEF Next

\* The initial state.
LEMMA SoundInit == Init => KnownSound /\ TaskSound /\ Ordered
  <1> SUFFICES ASSUME Init PROVE KnownSound /\ TaskSound /\ Ordered
    OBVIOUS
  <1>1. Known = {NoData}
    BY DEF Init, Known
  <1>2. KnownSound
    BY <1>1 DEF KnownSound, Sound
  <1>3. TaskSound
    BY DEF Init, TaskSound, NewTask
  <1>4. Ordered
    BY DEF Init, Ordered, Follows
  <1> QED
    BY <1>2, <1>3, <1>4

\* KnownSound and TaskSound are invariants.
THEOREM SoundAlways == Spec => [](TypeOK /\ KnownSound /\ TaskSound)
  BY TypeInit, TypeStep, SoundInit, SoundStep, PTL DEF Spec

\* No plan gets under the key, to the page or into the result of the node but out of a
\* call that reached the remediation agent.
THEOREM PlansAdmitted == Spec => []PlansAreAdmitted
  <1>1. TypeOK /\ KnownSound /\ TaskSound => PlansAreAdmitted
    BY DEF KnownSound, TaskSound, Sound, PlansAreAdmitted
  <1> QED
    BY <1>1, SoundAlways, PTL

\* What the page says of a chain that is done is what the node returned to the chat.
THEOREM PageAgrees == Spec => []PageAgreesWithChat
  <1>1. TypeOK /\ KnownSound /\ TaskSound => PageAgreesWithChat
    BY DEF KnownSound, Sound, PageAgreesWithChat
  <1> QED
    BY <1>1, SoundAlways, PTL

-----------------------------------------------------------------------------
(* The page does not go back.                                              *)

\* No answer overtakes another.
InOrderOnly == "overtaking" \notin Faults

\* What the node writes is a later result of its chain than any that is known.
LEMMA WriteFollows ==
  ASSUME TypeOK, KnownSound, NEW c \in Chains, CheckPlanCache(c) \/ Step(c),
         latest' # latest, NEW p \in Known
  PROVE  Follows(p, latest')
  <1>1. NodeOK
    BY TypeParts
  <1>2. Sound(p)
    BY DEF KnownSound
  <1>3. latest' \in Answer
    BY NodeType DEF TypeOK
  <1>4. \/ /\ task[c].pc = "mark"
           /\ latest' = PayloadOf(c, "streaming", 0)
        \/ /\ task[c].pc = "read"
           /\ latest' = PayloadOf(c, "streaming", task[c].text + 1)
        \/ /\ task[c].pc = "final"
           /\ latest' = PayloadOf(c, "done", 0)
    BY DEF CheckPlanCache, Step, ExchangeToken, MarkStreaming, CallAgent, Chunk, DoneEvent,
           ErrorEvent, StreamEnds, StreamBreaks, WriteFinal
  <1>5. SUFFICES ASSUME p # NoData, p.chain = latest'.chain
                 PROVE  Rank(p) <= Rank(latest')
    BY DEF Follows
  <1>6. p \in Payload /\ latest'.chain = c
    BY <1>4, <1>5, KnownType DEF PayloadOf
  <1>7. Rank(p) \in 0 .. MaxText + 1 /\ p.text \in 0 .. MaxText
    BY <1>6, RankType
  <1>8. task[c].text \in Nat
    BY <1>1, TaskFields, RemediationAssumption
  <1>9. CASE task[c].pc = "mark"
    BY <1>2, <1>5, <1>6, <1>9 DEF Sound
  <1>10. CASE task[c].pc = "read"
    <2>1. p.status # "done" /\ p.text <= task[c].text
      BY <1>2, <1>5, <1>6, <1>10 DEF Sound
    <2>2. latest'.status = "streaming" /\ latest'.text = task[c].text + 1
      BY <1>4, <1>10 DEF PayloadOf
    <2>3. Rank(latest') = task[c].text + 1 /\ Rank(p) = p.text
      BY <2>1, <2>2 DEF Rank
    <2> QED
      BY <1>7, <1>8, <2>1, <2>3
  <1>11. CASE task[c].pc = "final"
    <2>1. latest'.status = "done"
      BY <1>4, <1>11 DEF PayloadOf
    <2>2. Rank(latest') = MaxText + 1
      BY <2>1 DEF Rank
    <2> QED
      BY <1>7, <2>2, RemediationAssumption
  <1> QED
    BY <1>4, <1>9, <1>10, <1>11

\* A step of the node.
LEMMA NodeOrdered ==
  ASSUME TypeOK, KnownSound, Ordered, NEW c \in Chains, CheckPlanCache(c) \/ Step(c)
  PROVE  Ordered'
  <1>1. UNCHANGED <<result, polls>>
    BY DEF CheckPlanCache, Step, ExchangeToken, MarkStreaming, CallAgent, Chunk, DoneEvent,
           ErrorEvent, StreamEnds, StreamBreaks, WriteFinal, pageVars
  <1>2. ASSUME NEW p \in Known, Follows(p, latest) PROVE Follows(p, latest')
    <2>1. CASE latest' = latest
      BY <1>2, <2>1
    <2>2. CASE latest' # latest
      BY <2>2, WriteFollows
    <2> QED
      BY <2>1, <2>2
  <1>3. result \in Known /\ \A i \in DOMAIN polls : polls[i] \in Known
    BY DEF Known
  <1>4. /\ \A i \in DOMAIN polls : Follows(polls[i], latest')
        /\ Follows(result, latest')
    BY <1>2, <1>3 DEF Ordered
  <1>5. Follows(result, latest)'
    BY <1>1, <1>4 DEF Follows, Rank
  <1>6. \A i \in DOMAIN polls' : Follows(polls[i], latest)' /\ Follows(result, polls[i])'
    BY <1>1, <1>4 DEF Ordered, Follows, Rank
  <1>7. \A i, j \in DOMAIN polls' : i < j => Follows(polls[i], polls[j])'
    BY <1>1 DEF Ordered, Follows, Rank
  <1> QED
    BY <1>5, <1>6, <1>7 DEF Ordered

\* Every step.
LEMMA OrderedStep ==
  ASSUME InOrderOnly, TypeOK, KnownSound, Ordered, [Next]_vars
  PROVE  Ordered'
  <1>1. polls \in Seq(Payload)
    BY DEF TypeOK
  <1>2. ASSUME NEW c \in Chains, CheckPlanCache(c) \/ Step(c) PROVE Ordered'
    BY <1>2, NodeOrdered
  <1>3. CASE UNCHANGED <<result, polls>> /\ latest' \in {latest, NoData}
    BY <1>3 DEF Ordered, Follows, Rank
  <1>4. CASE ClosePage
    <2>1. result' = NoData /\ DOMAIN polls' = {}
      BY <1>4 DEF ClosePage
    <2> QED
      BY <2>1 DEF Ordered, Follows
  <1>5. CASE ClearReturns
    BY <1>5 DEF ClearReturns, Ordered, Follows, Rank
  <1>6. CASE Poll
    <2>1. UNCHANGED <<result, latest>> /\ polls' = Append(polls, latest)
      BY <1>6 DEF Poll
    <2>2. /\ DOMAIN polls' = 1 .. Len(polls) + 1
          /\ \A j \in DOMAIN polls : polls'[j] = polls[j]
          /\ polls'[Len(polls) + 1] = latest
          /\ DOMAIN polls = 1 .. Len(polls) /\ Len(polls) \in Nat
      BY <1>1, <2>1
    <2>3. latest \in Payload
      BY <1>6, AnswerIsPayload DEF Poll, TypeOK
    <2>4. Follows(latest, latest)
      BY <2>3, RankType, RemediationAssumption DEF Follows
    <2>5. \A j \in DOMAIN polls' : Follows(result, polls'[j]) /\ Follows(polls'[j], latest)
      BY <2>2, <2>4 DEF Ordered
    <2>6. ASSUME NEW i \in DOMAIN polls', NEW j \in DOMAIN polls', i < j
          PROVE  Follows(polls'[i], polls'[j])
      <3>1. i \in DOMAIN polls
        BY <2>2, <2>6
      <3>2. CASE j \in DOMAIN polls
        BY <2>2, <2>6, <3>1, <3>2 DEF Ordered
      <3>3. CASE j = Len(polls) + 1
        BY <2>2, <3>1, <3>3 DEF Ordered
      <3> QED
        BY <2>2, <3>2, <3>3
    <2> QED
      BY <2>1, <2>5, <2>6 DEF Ordered, Follows, Rank
  <1>7. CASE ReceiveAny
    <2>1. DOMAIN polls = 1 .. Len(polls) /\ Len(polls) \in Nat
      BY <1>1
    <2>2. 1 \in DOMAIN polls /\ result' = polls[1] /\ polls' = Drop(1) /\ UNCHANGED latest
      BY <1>7, <2>1 DEF ReceiveAny, Receive, InOrderOnly
    <2>3. /\ DOMAIN polls' = 1 .. Len(polls) - 1
          /\ \A j \in 1 .. Len(polls) - 1 : polls'[j] = polls[j + 1]
      <3>1. /\ Drop(1) \in Seq(Payload)
            /\ Len(Drop(1)) = Len(polls) - 1
            /\ \A j \in 1 .. Len(polls) - 1 :
                 Drop(1)[j] = IF j < 1 THEN polls[j] ELSE polls[j + 1]
        BY <1>1, <2>2, DropType
      <3> QED
        BY <2>1, <2>2, <3>1
    <2>4. \A j \in DOMAIN polls' : j + 1 \in DOMAIN polls /\ 1 < j + 1 /\ polls'[j] = polls[j + 1]
      BY <2>1, <2>2, <2>3
    <2>5. \A j \in DOMAIN polls' : Follows(result', polls'[j]) /\ Follows(polls'[j], latest)
      BY <2>2, <2>4 DEF Ordered
    <2>6. \A i, j \in DOMAIN polls' : i < j => Follows(polls'[i], polls'[j])
      BY <2>1, <2>3, <2>4 DEF Ordered
    <2>7. Follows(result', latest)
      BY <2>2 DEF Ordered
    <2> QED
      BY <2>2, <2>5, <2>6, <2>7 DEF Ordered, Follows, Rank
  <1>8. Crash \/ Delete \/ OpenPage \/ Clear \/ ClearFails \/ UNCHANGED vars
          => UNCHANGED <<result, polls>> /\ latest' \in {latest, NoData}
    BY DEF Crash, Delete, OpenPage, Clear, ClearFails, vars, pageVars
  <1> QED
    BY <1>2, <1>3, <1>4, <1>5, <1>6, <1>7, <1>8 DEF Next

\* A step that changes what is shown to another result of the same chain shows the
\* oldest answer under way.
LEMMA ShownFollows ==
  ASSUME InOrderOnly, TypeOK, Ordered, [Next]_vars
  PROVE  result # NoData /\ result' # NoData /\ result'.chain = result.chain
           => Rank(result) <= Rank(result')
  <1>1. SUFFICES ASSUME result # NoData, result' # NoData, result'.chain = result.chain
                 PROVE  Rank(result) <= Rank(result')
    OBVIOUS
  <1>2. result \in Payload
    BY <1>1, AnswerIsPayload DEF TypeOK
  <1>3. CASE ReceiveAny
    <2>1. polls \in Seq(Payload)
      BY DEF TypeOK
    <2>2. 1 \in DOMAIN polls /\ result' = polls[1]
      BY <1>3, <2>1 DEF ReceiveAny, Receive, InOrderOnly
    <2>3. Follows(result, polls[1])
      BY <2>2 DEF Ordered
    <2> QED
      BY <1>1, <2>2, <2>3 DEF Follows
  <1>4. CASE UNCHANGED result
    <2>1. Rank(result) \in 0 .. MaxText + 1
      BY <1>2, RankType
    <2> QED
      BY <1>4, <2>1, RemediationAssumption
  <1>5. ReceiveAny \/ UNCHANGED result
    BY <1>1 DEF Next, CheckPlanCache, Step, ExchangeToken, MarkStreaming, CallAgent, Chunk,
           DoneEvent, ErrorEvent, StreamEnds, StreamBreaks, WriteFinal, Crash, Delete,
           OpenPage, ClosePage, Poll, Clear, ClearReturns, ClearFails, pageVars, vars
  <1> QED
    BY <1>3, <1>4, <1>5

\* As long as no answer overtakes another, the page does not replace a result by an
\* earlier one of its chain, whatever is written, deleted or cleared meanwhile.
THEOREM PageNeverRegresses ==
  ASSUME InOrderOnly
  PROVE  Spec => NoRegress
  <1>1. TypeOK /\ KnownSound /\ Ordered /\ [Next]_vars => Ordered'
    BY OrderedStep
  <1>2. Spec => []Ordered
    BY <1>1, SoundAlways, SoundInit, PTL DEF Spec
  <1>3. TypeOK /\ Ordered /\ [Next]_vars
          => [result # NoData /\ result' # NoData /\ result'.chain = result.chain
                => Rank(result) <= Rank(result')]_vars
    BY ShownFollows
  <1> QED
    BY <1>2, <1>3, SoundAlways, PTL DEF Spec, NoRegress
=============================================================================

-------------------------- MODULE ChatStream_proofs --------------------------
(***************************************************************************)
(* Proofs about ChatStream: type correctness, and, for any faults and until *)
(* an answer is late, that the chat shows every event once and in order and *)
(* takes a message for an answer only when the agent waits for one.         *)
(***************************************************************************)
EXTENDS ChatStream, FiniteSetTheorems, SequenceTheorems, TLAPS

\* The disjuncts of Next, spelled out once for the case splits.
LEMMA NextCases ==
  ASSUME [Next]_vars
  PROVE  \/ \E t \in Thread : Progress(t) \/ Ask(t) \/ Finish(t) \/ SendNew(t)
         \/ Tick
         \/ \E i \in DOMAIN requests : Answer(i) \/ AnswerLost(i)
         \/ SendReply \/ InvokeReturns \/ SendEnds \/ Reset
         \/ UNCHANGED vars
  BY Zenon DEF Next, Run, AnswerAny

\* Updating a function at one point keeps it in its function set.
LEMMA ExceptInSet ==
  ASSUME NEW S, NEW T, NEW f \in [S -> T], NEW x, NEW y \in T
  PROVE  [f EXCEPT ![x] = y] \in [S -> T]
  OBVIOUS

-----------------------------------------------------------------------------
(* Type correctness.                                                       *)

\* The conjuncts of TypeOK in groups small enough for the provers.
LogsOK   == log \in [Thread -> Seq(Kind)]
AgentsOK == agent \in [Thread -> {"none", "lost", "running", "waiting", "ended"}]
ThreadOK ==
  /\ thread \in 0 .. MaxThreads
  /\ target \in 0 .. MaxThreads
  /\ polling => thread # 0
  /\ sending = "invoke" => target # 0
BarOK ==
  /\ sending \in {"no", "invoke", "resume"}
  /\ isRunning \in BOOLEAN
  /\ asking \in BOOLEAN
  /\ polling \in BOOLEAN
PollOK    == lastSeen \in Nat /\ requests \in Seq(Request)
QuietOK   == quiet \in [Thread -> 0 .. StaleAfter]
HistoryOK == seen \in Seq(Nat) /\ foreign \in Nat /\ late \in BOOLEAN

\* The groups make up the type invariant.
LEMMA TypeParts ==
  TypeOK <=> /\ LogsOK /\ AgentsOK /\ ThreadOK /\ BarOK /\ PollOK /\ QuietOK
             /\ HistoryOK
  BY Zenon DEF TypeOK, LogsOK, AgentsOK, ThreadOK, BarOK, PollOK, QuietOK,
               HistoryOK

\* And so after a step.
LEMMA TypePartsAfter ==
  ASSUME LogsOK', AgentsOK', ThreadOK', BarOK', PollOK', QuietOK', HistoryOK'
  PROVE  TypeOK'
  BY Zenon DEF TypeOK, LogsOK, AgentsOK, ThreadOK, BarOK, PollOK, QuietOK,
               HistoryOK

\* The initial state is well typed.
LEMMA TypeInit == Init => TypeOK
  <1> SUFFICES ASSUME Init PROVE TypeOK
    OBVIOUS
  <1>1. LogsOK /\ AgentsOK
    <2>1. <<>> \in Seq(Kind)
      OBVIOUS
    <2> QED
      BY <2>1 DEF Init, LogsOK, AgentsOK
  <1>2. ThreadOK /\ BarOK
    <2>1. 0 \in 0 .. MaxThreads
      BY StreamAssumption
    <2> QED
      BY <2>1, Zenon DEF Init, ThreadOK, BarOK
  <1>3. PollOK /\ HistoryOK
    <2>1. <<>> \in Seq(Request) /\ <<>> \in Seq(Nat) /\ 0 \in Nat
      OBVIOUS
    <2> QED
      BY <2>1, Zenon DEF Init, PollOK, HistoryOK
  <1>4. QuietOK
    BY StreamAssumption DEF Init, QuietOK
  <1> QED
    BY <1>1, <1>2, <1>3, <1>4, TypeParts

\* An event more or less leaves the lists well typed.
LEMMA PublishType ==
  ASSUME LogsOK, NEW t \in Thread, NEW kind \in Kind, Publish(t, kind)
  PROVE  LogsOK'
  <1>1. Append(log[t], kind) \in Seq(Kind)
    BY DEF LogsOK
  <1>2. log' = [log EXCEPT ![t] = Append(log[t], kind)] \/ log' = log
    BY DEF Publish
  <1> QED
    BY <1>1, <1>2, ExceptInSet DEF LogsOK

\* What is left of the requests when one of them is answered are requests.
LEMMA DropType ==
  ASSUME PollOK, NEW i \in DOMAIN requests
  PROVE  Drop(i) \in Seq(Request)
  <1>1. i \in 1 .. Len(requests) /\ Len(requests) \in Nat
    BY DEF PollOK
  <1>2. \A k \in 1 .. Len(requests) : requests[k] \in Request
    BY DEF PollOK
  <1>3. SubSeq(requests, 1, i - 1) \in Seq(Request)
    BY <1>1, <1>2, SubSeqProperties
  <1>4. SubSeq(requests, i + 1, Len(requests)) \in Seq(Request)
    BY <1>1, <1>2, SubSeqProperties
  <1> QED
    BY <1>3, <1>4, ConcatProperties DEF Drop

\* A request for the events of a thread is one.
LEMMA NewRequestType ==
  ASSUME LogsOK, PollOK, NEW t \in Thread, NEW from \in Nat
  PROVE  Append(requests, NewRequest(t, from)) \in Seq(Request)
  <1>1. NewRequest(t, from) \in Request
    BY DEF LogsOK, NewRequest, Request
  <1> HIDE DEF NewRequest
  <1> QED
    BY <1>1 DEF PollOK

\* Whether an answer may come too late is known when its request is sent.
LEMMA SendType ==
  ASSUME HistoryOK, NEW r, Send(r)
  PROVE  late' \in BOOLEAN
  BY Zenon DEF Send, HistoryOK

\* The server's steps preserve the type invariant.
LEMMA ServerType ==
  ASSUME TypeOK, NEW t \in Thread, Progress(t) \/ Ask(t) \/ Finish(t)
  PROVE  TypeOK'
  <1>1. PICK kind \in Kind : Publish(t, kind)
    BY DEF Progress, Ask, Finish, Kind
  <1>2. LogsOK'
    BY <1>1, PublishType, TypeParts
  <1>3. agent' = agent \/ \E a \in {"waiting", "ended"} :
                            agent' = [agent EXCEPT ![t] = a]
    BY DEF Progress, Ask, Finish
  <1>4. AgentsOK'
    BY <1>3, ExceptInSet DEF TypeOK, AgentsOK
  <1>5. UNCHANGED <<browser, history>>
    BY Zenon DEF Progress, Ask, Finish
  <1>6. ThreadOK' /\ BarOK' /\ PollOK' /\ QuietOK' /\ HistoryOK'
    BY <1>5, TypeParts
       DEF browser, history, ThreadOK, BarOK, PollOK, QuietOK, HistoryOK
  <1> QED
    BY <1>2, <1>4, <1>6, TypePartsAfter

\* A tick of the polling.
LEMMA TickType ==
  ASSUME TypeOK, Tick
  PROVE  TypeOK'
  <1>1. thread \in Thread /\ lastSeen \in Nat
    BY StreamAssumption DEF TypeOK, Tick, Thread
  <1>2. PollOK'
    BY <1>1, NewRequestType, TypeParts DEF Tick, Send, PollOK
  <1>3. LogsOK' /\ AgentsOK' /\ ThreadOK' /\ BarOK' /\ QuietOK'
    BY TypeParts
       DEF Tick, server, LogsOK, AgentsOK, ThreadOK, BarOK, QuietOK
  <1>4. HistoryOK'
    BY SendType, TypeParts DEF Tick, HistoryOK
  <1> QED
    BY <1>2, <1>3, <1>4, TypePartsAfter

\* A failing request leaves everything well typed.
LEMMA AnswerLostType ==
  ASSUME TypeOK, NEW i \in DOMAIN requests, AnswerLost(i)
  PROVE  TypeOK'
  <1>1. PollOK'
    BY DropType, TypeParts DEF AnswerLost, PollOK
  <1>2. LogsOK' /\ AgentsOK' /\ ThreadOK' /\ BarOK' /\ QuietOK' /\ HistoryOK'
    BY TypeParts
       DEF AnswerLost, server, history, LogsOK, AgentsOK, ThreadOK, BarOK,
           QuietOK, HistoryOK
  <1> QED
    BY <1>1, <1>2, TypePartsAfter

\* The events of an answer are finitely many.
LEMMA BatchFinite ==
  ASSUME NEW t, NEW from \in Nat, NEW upto \in Nat
  PROVE  Cardinality(Handled(t, from, upto)) \in Nat
  <1>1. from + 1 \in Int /\ upto \in Int
    OBVIOUS
  <1>2. IsFiniteSet(from + 1 .. upto)
    BY <1>1, FS_Interval
  <1>3. Handled(t, from, upto) \in SUBSET (from + 1 .. upto)
    BY DEF Handled
  <1>4. IsFiniteSet(Handled(t, from, upto))
    BY <1>2, <1>3, FS_Subset
  <1> QED
    BY <1>4, FS_CardinalityType

\* What is done with an answer leaves the chat and its polling well typed.
LEMMA ShowType ==
  ASSUME TypeOK, NEW t \in Thread, NEW from \in Nat, NEW upto \in Nat,
         upto > from, Show(t, from, upto)
  PROVE  /\ isRunning' \in BOOLEAN /\ asking' \in BOOLEAN /\ polling' \in BOOLEAN
         /\ polling' => polling
         /\ lastSeen' \in Nat
         /\ QuietOK'
         /\ HistoryOK'
  <1> DEFINE batch == Handled(t, from, upto)
             done  == \E k \in batch : log[t][k] = "done"
             more  == [i \in 1 .. Cardinality(batch) |-> from + i]
  <1>1. isRunning' = RunningAfter(t, batch) /\ asking' = AskingAfter(t, batch)
    BY DEF Show
  <1>2. RunningAfter(t, batch) \in BOOLEAN
    BY Zenon DEF RunningAfter
  <1>3. AskingAfter(t, batch) \in BOOLEAN
    BY Zenon DEF AskingAfter, TypeOK
  <1>4. polling' \in BOOLEAN /\ (polling' => polling)
    BY Zenon DEF Show
  <1>5. lastSeen' \in Nat
    <2>1. lastSeen' = lastSeen \/ lastSeen' = lastSeen + (upto - from)
      BY DEF Show
    <2> QED
      BY <2>1 DEF TypeOK
  <1>6. QuietOK'
    <2>1. quiet' = quiet \/ quiet' = [quiet EXCEPT ![t] = 0]
      BY DEF Show
    <2>2. 0 \in 0 .. StaleAfter
      BY StreamAssumption
    <2>3. quiet \in [Thread -> 0 .. StaleAfter]
      BY DEF TypeOK
    <2> QED
      BY <2>1, <2>2, <2>3, ExceptInSet DEF QuietOK
  <1>7. Cardinality(batch) \in Nat
    BY BatchFinite
  <1>8. /\ seen' = seen \/ seen' = seen \o more
        /\ foreign' = foreign \/ foreign' = foreign + Cardinality(batch)
        /\ late' = late
    BY DEF Show, Record
  <1>9. seen' \in Seq(Nat) /\ foreign' \in Nat
    <2> DEFINE n == Cardinality(batch)
    <2>1. more = [i \in 1 .. n |-> from + i] /\ n \in Nat
      BY <1>7
    <2>2. seen \in Seq(Nat) /\ foreign \in Nat
      BY DEF TypeOK
    <2>3. seen' = seen \/ seen' = seen \o more
      BY <1>8
    <2>4. foreign' = foreign \/ foreign' = foreign + n
      BY <1>8
    <2> HIDE DEF n, more
    <2>5. more \in Seq(Nat)
      BY <2>1
    <2>6. seen \o more \in Seq(Nat)
      BY <2>2, <2>5, ConcatProperties
    <2>7. foreign + n \in Nat
      BY <2>1, <2>2
    <2> QED
      BY ONLY <2>2, <2>3, <2>4, <2>6, <2>7
  <1>10. HistoryOK'
    BY <1>8, <1>9 DEF HistoryOK, TypeOK
  <1> QED
    BY <1>1, <1>2, <1>3, <1>4, <1>5, <1>6, <1>10

\* So does an answer, whatever it brings.
LEMMA AnswerType ==
  ASSUME TypeOK, NEW i \in DOMAIN requests, Answer(i)
  PROVE  TypeOK'
  <1> DEFINE r == requests[i]
             t == r.thread
  <1>1. r \in Request /\ t \in Thread /\ r.from \in Nat /\ r.known \in Nat
    <2>1. requests \in Seq(Request)
      BY DEF TypeOK
    <2>2. r \in Request
      BY <2>1
    <2> QED
      BY <2>2 DEF Request
  <1>2. PICK upto \in r.known .. Len(log[t]) :
          \/ upto > r.from /\ Show(t, r.from, upto)
          \/ upto <= r.from /\ quiet[t] < StaleAfter  /\ StillQuiet(t)
          \/ upto <= r.from /\ quiet[t] >= StaleAfter /\ GiveUp(t)
    BY DEF Answer
  <1>3. upto \in Nat
    BY <1>1, <1>2
  <1> HIDE DEF r, t
  <1>4. /\ isRunning' \in BOOLEAN /\ asking' \in BOOLEAN /\ polling' \in BOOLEAN
        /\ polling' => polling
        /\ lastSeen' \in Nat
        /\ QuietOK'
        /\ HistoryOK'
    <2>1. CASE upto > r.from /\ Show(t, r.from, upto)
      BY <1>1, <1>3, <2>1, ShowType
    <2>2. CASE upto <= r.from /\ quiet[t] < StaleAfter /\ StillQuiet(t)
      <3>1. QuietOK'
        <4>1. quiet \in [Thread -> 0 .. StaleAfter]
          BY DEF TypeOK
        <4>2. quiet[t] + 1 \in 0 .. StaleAfter
          BY <1>1, <2>2, <4>1, StreamAssumption
        <4>3. quiet' = quiet \/ quiet' = [quiet EXCEPT ![t] = quiet[t] + 1]
          BY <2>2 DEF StillQuiet
        <4> QED
          BY <4>1, <4>2, <4>3, ExceptInSet DEF QuietOK
      <3> QED
        BY <2>2, <3>1, Zenon DEF StillQuiet, TypeOK, HistoryOK
    <2>3. CASE upto <= r.from /\ quiet[t] >= StaleAfter /\ GiveUp(t)
      <3>1. QuietOK'
        BY <2>3 DEF GiveUp, TypeOK, QuietOK
      <3> QED
        BY <2>3, <3>1, Zenon DEF GiveUp, TypeOK, HistoryOK
    <2> QED
      BY <1>2, <2>1, <2>2, <2>3
  <1>5. LogsOK' /\ AgentsOK'
    BY DEF Answer, server, TypeOK, LogsOK, AgentsOK
  <1>6. ThreadOK'
    BY <1>4, Zenon DEF Answer, TypeOK, ThreadOK
  <1>7. BarOK'
    BY <1>4, Zenon DEF Answer, TypeOK, BarOK
  <1>8. PollOK'
    <2>1. requests' = Drop(i)
      BY DEF Answer
    <2> QED
      BY <1>4, <2>1, DropType, TypeParts DEF PollOK
  <1> QED
    BY <1>4, <1>5, <1>6, <1>7, <1>8, TypePartsAfter

\* A reply.
LEMMA SendReplyType ==
  ASSUME TypeOK, SendReply
  PROVE  TypeOK'
  <1>1. AgentsOK'
    <2>1. agent' = agent \/ agent' = [agent EXCEPT ![thread] = "running"]
      BY DEF SendReply
    <2> QED
      BY <2>1, ExceptInSet DEF TypeOK, AgentsOK
  <1>2. LogsOK' /\ PollOK' /\ QuietOK'
    BY DEF SendReply, TypeOK, LogsOK, PollOK, QuietOK
  <1>3. ThreadOK' /\ BarOK'
    BY Zenon DEF SendReply, TypeOK, ThreadOK, BarOK
  <1>4. HistoryOK'
    BY DEF SendReply, TypeOK, HistoryOK
  <1> QED
    BY <1>1, <1>2, <1>3, <1>4, TypePartsAfter

\* A message that starts a session.
LEMMA SendNewType ==
  ASSUME TypeOK, NEW t \in Thread, SendNew(t)
  PROVE  TypeOK'
  <1>1. AgentsOK'
    <2>1. \E a \in {"running", "lost"} : agent' = [agent EXCEPT ![t] = a]
      BY DEF SendNew
    <2> QED
      BY <2>1, ExceptInSet DEF TypeOK, AgentsOK
  <1>2. 0 \in 0 .. MaxThreads /\ t \in 0 .. MaxThreads /\ t # 0
    BY StreamAssumption DEF Thread
  <1>3. ThreadOK' /\ BarOK'
    BY <1>2, Zenon DEF SendNew, TypeOK, ThreadOK, BarOK
  <1>4. LogsOK' /\ QuietOK'
    BY DEF SendNew, TypeOK, LogsOK, QuietOK
  <1>5. PollOK' /\ HistoryOK'
    BY DEF SendNew, TypeOK, PollOK, HistoryOK
  <1> QED
    BY <1>1, <1>3, <1>4, <1>5, TypePartsAfter

\* The return of its invoke.
LEMMA InvokeReturnsType ==
  ASSUME TypeOK, InvokeReturns
  PROVE  TypeOK'
  <1>1. target \in Thread /\ target # 0 /\ target \in 0 .. MaxThreads
    <2>1. target \in 0 .. MaxThreads /\ target # 0
      BY Zenon DEF InvokeReturns, TypeOK
    <2> QED
      BY <2>1, StreamAssumption DEF Thread
  <1>2. PollOK'
    BY <1>1, NewRequestType, TypeParts DEF InvokeReturns, Send, PollOK
  <1>3. QuietOK'
    <2>1. 0 \in 0 .. StaleAfter
      BY StreamAssumption
    <2> QED
      BY <2>1, ExceptInSet DEF InvokeReturns, TypeOK, QuietOK
  <1>4. ThreadOK' /\ BarOK'
    BY <1>1, Zenon DEF InvokeReturns, TypeOK, ThreadOK, BarOK
  <1>5. LogsOK' /\ AgentsOK'
    BY DEF InvokeReturns, server, TypeOK, LogsOK, AgentsOK
  <1>6. HistoryOK'
    BY SendType, TypeParts DEF InvokeReturns, HistoryOK
  <1> QED
    BY <1>2, <1>3, <1>4, <1>5, <1>6, TypePartsAfter

\* The end of send().
LEMMA SendEndsType ==
  ASSUME TypeOK, SendEnds
  PROVE  TypeOK'
  <1>1. ThreadOK' /\ BarOK'
    BY Zenon DEF SendEnds, TypeOK, ThreadOK, BarOK
  <1>2. LogsOK' /\ AgentsOK' /\ QuietOK' /\ PollOK' /\ HistoryOK'
    BY TypeParts
       DEF SendEnds, server, history, LogsOK, AgentsOK, QuietOK, PollOK, HistoryOK
  <1> QED
    BY <1>1, <1>2, TypePartsAfter

\* A new chat.
LEMMA ResetType ==
  ASSUME TypeOK, Reset
  PROVE  TypeOK'
  <1>1. 0 \in 0 .. MaxThreads
    BY StreamAssumption
  <1>2. ThreadOK' /\ BarOK'
    BY <1>1, Zenon DEF Reset, TypeOK, ThreadOK, BarOK
  <1>3. LogsOK' /\ AgentsOK' /\ QuietOK'
    BY TypeParts DEF Reset, server, LogsOK, AgentsOK, QuietOK
  <1>4. PollOK' /\ HistoryOK'
    BY TypeParts DEF Reset, PollOK, HistoryOK
  <1> QED
    BY <1>2, <1>3, <1>4, TypePartsAfter

\* Every step preserves the type invariant.
LEMMA TypeStep == TypeOK /\ [Next]_vars => TypeOK'
  <1> SUFFICES ASSUME TypeOK, [Next]_vars PROVE TypeOK'
    OBVIOUS
  <1>1. CASE UNCHANGED vars
    <2>1. LogsOK' /\ AgentsOK' /\ ThreadOK' /\ BarOK'
      BY <1>1, TypeParts
         DEF vars, server, browser, LogsOK, AgentsOK, ThreadOK, BarOK
    <2>2. PollOK' /\ QuietOK' /\ HistoryOK'
      BY <1>1, TypeParts
         DEF vars, browser, history, PollOK, QuietOK, HistoryOK
    <2> QED
      BY <2>1, <2>2, TypePartsAfter
  <1> QED
    BY Zenon, <1>1, NextCases, ServerType, TickType, AnswerType, AnswerLostType,
       SendReplyType, SendNewType, InvokeReturnsType, SendEndsType,
       ResetType

\* ChatStream is type correct, whatever fails and however late answers come.
THEOREM TypeCorrect == Spec => []TypeOK
  BY TypeInit, TypeStep, PTL DEF Spec

-----------------------------------------------------------------------------
(* What holds until an answer is late.                                     *)

\* The initial state satisfies the invariant.
LEMMA StreamInit == Init => StreamInv
  <1> SUFFICES ASSUME Init PROVE InStep
    BY DEF StreamInv
  <1>1. EndIsLast /\ OneRequest /\ RequestIsNext /\ HandledInOrder
    BY DEF Init, EndIsLast, OneRequest, RequestIsNext, HandledInOrder
  <1>2. PollingIsCurrent /\ IdleIsOver /\ AskingIsWaiting /\ InvokeIsFirst
    BY DEF Init, PollingIsCurrent, IdleIsOver, AskingIsWaiting, InvokeIsFirst
  <1> QED
    BY <1>1, <1>2 DEF InStep

\* The types the proofs below need of numbers and sequences.
LEMMA Types ==
  ASSUME TypeOK
  PROVE  /\ \A t \in Thread : log[t] \in Seq(Kind) /\ Len(log[t]) \in Nat
         /\ requests \in Seq(Request)
         /\ \A i \in DOMAIN requests :
              requests[i].thread \in Thread /\ requests[i].from \in Nat
                /\ requests[i].known \in Nat
         /\ lastSeen \in Nat
         /\ seen \in Seq(Nat)
         /\ polling => thread \in Thread
         /\ thread # 0 => thread \in Thread
         /\ sending = "invoke" => target \in Thread
         /\ 0 \notin Thread
         /\ agent \in [Thread -> {"none", "lost", "running", "waiting", "ended"}]
  <1>1. LogsOK /\ AgentsOK /\ PollOK /\ HistoryOK /\ ThreadOK
    BY TypeParts
  <1>2. \A t \in Thread : log[t] \in Seq(Kind) /\ Len(log[t]) \in Nat
    BY <1>1 DEF LogsOK
  <1>3. \A i \in DOMAIN requests : requests[i] \in Request
    BY <1>1 DEF PollOK
  <1>4. \A i \in DOMAIN requests :
          requests[i].thread \in Thread /\ requests[i].from \in Nat
            /\ requests[i].known \in Nat
    BY <1>3 DEF Request
  <1>5. 0 \notin Thread /\ \A t \in 0 .. MaxThreads : t # 0 => t \in Thread
    BY StreamAssumption DEF Thread
  <1>6. /\ polling => thread \in Thread
        /\ thread # 0 => thread \in Thread
        /\ sending = "invoke" => target \in Thread
    BY <1>1, <1>5, Zenon DEF ThreadOK
  <1> QED
    BY <1>1, <1>2, <1>4, <1>5, <1>6 DEF PollOK, HistoryOK, AgentsOK

\* A request that is under way while the bar is idle has nothing to bring.
LEMMA NothingMore ==
  ASSUME TypeOK, InStep, ~isRunning, NEW i \in DOMAIN requests
  PROVE  /\ agent[requests[i].thread] = "ended"
         /\ requests[i].from >= Len(log[requests[i].thread])
  <1>1. CASE requests[i].thread = thread
    <2>1. polling /\ requests[i].from = lastSeen
      BY <1>1 DEF InStep, RequestIsNext
    <2>2. thread # 0
      BY <2>1, Types
    <2>3. agent[thread] = "ended" /\ lastSeen = Len(log[thread])
      BY <2>1, <2>2 DEF InStep, IdleIsOver
    <2> QED
      BY <1>1, <2>1, <2>3, Types
  <1>2. CASE requests[i].thread # thread
    BY <1>2 DEF InStep, RequestIsNext
  <1> QED
    BY <1>1, <1>2

\* What a step of the server does to the list and the state of its run.
LEMMA ServerStep ==
  ASSUME TypeOK, NEW t \in Thread, Progress(t) \/ Ask(t) \/ Finish(t)
  PROVE  /\ agent[t] = "running"
         /\ agent'[t] \in {"running", "waiting", "ended"}
         /\ \A u \in Thread \ {t} : log'[u] = log[u] /\ agent'[u] = agent[u]
         /\ \E kind \in Kind :
              /\ log'[t] = log[t] \/ log'[t] = Append(log[t], kind)
              /\ kind \in {"done", "error"} => agent'[t] = "ended"
              /\ kind = "interrupt" => agent'[t] = "waiting"
         /\ UNCHANGED <<browser, history>>
  <1>1. /\ log \in [Thread -> Seq(Kind)]
        /\ agent \in [Thread -> {"none", "lost", "running", "waiting", "ended"}]
    BY DEF TypeOK
  <1>2. PICK kind \in Kind :
          /\ Publish(t, kind)
          /\ \/ kind \in {"node", "report"} /\ agent' = agent
             \/ kind = "interrupt" /\ agent' = [agent EXCEPT ![t] = "waiting"]
             \/ /\ kind \in {"done", "error"}
                /\ agent' = [agent EXCEPT ![t] = "ended"]
    BY DEF Progress, Ask, Finish, Kind
  <1>3. agent[t] = "running" /\ UNCHANGED <<browser, history>>
    BY Zenon DEF Progress, Ask, Finish
  <1>4. log' = log \/ log' = [log EXCEPT ![t] = Append(log[t], kind)]
    BY <1>2 DEF Publish
  <1>5. /\ \A u \in Thread \ {t} : log'[u] = log[u]
        /\ log'[t] = log[t] \/ log'[t] = Append(log[t], kind)
    BY <1>1, <1>4
  <1>6. /\ \A u \in Thread \ {t} : agent'[u] = agent[u]
        /\ agent'[t] \in {"running", "waiting", "ended"}
        /\ kind \in {"done", "error"} => agent'[t] = "ended"
        /\ kind = "interrupt" => agent'[t] = "waiting"
    BY <1>1, <1>2, <1>3
  <1> QED
    BY <1>3, <1>5, <1>6

\* A question that was not seen yet stays the last event: its run waits.
LEMMA QuestionStays ==
  ASSUME TypeOK, NEW t \in Thread, Progress(t) \/ Ask(t) \/ Finish(t),
         NEW u \in Thread, NEW from \in Nat, QuestionIsLast(u, from)
  PROVE  QuestionIsLast(u, from)'
  <1>1. CASE u # t
    BY <1>1, ServerStep DEF QuestionIsLast
  <1>2. CASE u = t
    <2>1. PICK kind \in Kind :
            /\ log'[t] = log[t] \/ log'[t] = Append(log[t], kind)
            /\ kind = "interrupt" => agent'[t] = "waiting"
      BY ServerStep
    <2>2. log[t] \in Seq(Kind) /\ agent[t] = "running"
      BY Types, ServerStep
    <2>3. \A k \in DOMAIN log[t] : ~(k > from /\ log[t][k] = "interrupt")
      BY <1>2, <2>2 DEF QuestionIsLast
    <2>4. CASE log'[t] = log[t]
      BY <1>2, <2>3, <2>4 DEF QuestionIsLast
    <2>5. CASE log'[t] = Append(log[t], kind)
      <3> SUFFICES ASSUME NEW k \in DOMAIN log'[t], k > from,
                          log'[t][k] = "interrupt"
                   PROVE  agent'[t] = "waiting" /\ k = Len(log'[t])
        BY <1>2 DEF QuestionIsLast
      <3>1. k \in 1 .. Len(log[t]) + 1 /\ Len(log'[t]) = Len(log[t]) + 1
        BY <2>2, <2>5
      <3>2. k # Len(log[t]) + 1 => k \in DOMAIN log[t] /\ log[t][k] = "interrupt"
        BY <2>2, <2>5, <3>1
      <3>3. k = Len(log[t]) + 1
        BY <2>3, <3>2
      <3>4. log'[t][k] = kind
        BY <2>2, <2>5, <3>3
      <3> QED
        BY <2>1, <3>1, <3>3, <3>4
    <2> QED
      BY <2>1, <2>4, <2>5
  <1> QED
    BY <1>1, <1>2

\* The server's steps preserve the invariant.
LEMMA ServerInv ==
  ASSUME TypeOK, InStep, NEW t \in Thread, Progress(t) \/ Ask(t) \/ Finish(t)
  PROVE  InStep'
  <1>1. /\ agent[t] = "running"
        /\ agent'[t] \in {"running", "waiting", "ended"}
        /\ \A u \in Thread \ {t} : log'[u] = log[u] /\ agent'[u] = agent[u]
    BY ServerStep
  <1>2. /\ UNCHANGED <<thread, sending, target, isRunning, asking, polling>>
        /\ UNCHANGED <<lastSeen, quiet, requests, seen, foreign, late>>
    BY ServerStep DEF browser, history
  <1>3. log[t] \in Seq(Kind) /\ Len(log[t]) \in Nat
    BY Types
  <1>4. PICK kind \in Kind :
          /\ log'[t] = log[t] \/ log'[t] = Append(log[t], kind)
          /\ kind \in {"done", "error"} => agent'[t] = "ended"
    BY ServerStep
  <1>5. Len(log'[t]) \in Nat /\ Len(log'[t]) >= Len(log[t])
    BY <1>3, <1>4
  <1>6. EndIsLast'
    <2> SUFFICES ASSUME NEW u \in Thread
                 PROVE  /\ agent'[u] = "none" => log'[u] = <<>>
                        /\ \A k \in DOMAIN log'[u] :
                             log'[u][k] \in {"done", "error"} =>
                               agent'[u] = "ended" /\ k = Len(log'[u])
      BY DEF EndIsLast
    <2>1. CASE u # t
      BY <1>1, <2>1 DEF InStep, EndIsLast
    <2>2. CASE u = t
      <3>1. \A k \in DOMAIN log[t] : log[t][k] \notin {"done", "error"}
        BY <1>1 DEF InStep, EndIsLast
      <3> SUFFICES ASSUME NEW k \in DOMAIN log'[t],
                          log'[t][k] \in {"done", "error"}
                   PROVE  agent'[t] = "ended" /\ k = Len(log'[t])
        BY <1>1, <2>2
      <3>2. log'[t] = Append(log[t], kind)
        BY <1>4, <3>1
      <3>3. k \in 1 .. Len(log[t]) + 1 /\ Len(log'[t]) = Len(log[t]) + 1
        BY <1>3, <3>2
      <3>4. k # Len(log[t]) + 1 => k \in DOMAIN log[t] /\ log'[t][k] = log[t][k]
        BY <1>3, <3>2, <3>3
      <3>5. k = Len(log[t]) + 1
        BY <3>1, <3>4
      <3>6. log'[t][k] = kind
        BY <1>3, <3>2, <3>5
      <3> QED
        BY <1>4, <3>3, <3>5, <3>6
    <2> QED
      BY <2>1, <2>2
  <1>7. RequestIsNext'
    <2>1. \A i \in DOMAIN requests :
            /\ requests[i].thread \in Thread
            /\ agent[requests[i].thread] = "ended" => requests[i].thread # t
      BY <1>1, Types
    <2> QED
      BY <1>1, <1>2, <2>1 DEF InStep, RequestIsNext
  <1>8. PollingIsCurrent'
    <2> SUFFICES ASSUME polling
                 PROVE  /\ lastSeen <= Len(log'[thread])
                        /\ Len(seen) = lastSeen
                        /\ QuestionIsLast(thread, lastSeen)'
      BY <1>2 DEF PollingIsCurrent
    <2>1. /\ lastSeen <= Len(log[thread]) /\ Len(seen) = lastSeen
          /\ QuestionIsLast(thread, lastSeen)
      BY DEF InStep, PollingIsCurrent
    <2>2. thread \in Thread /\ lastSeen \in Nat /\ Len(log[thread]) \in Nat
      BY Types
    <2>3. lastSeen <= Len(log'[thread])
      BY <1>1, <1>5, <2>1, <2>2
    <2>4. QuestionIsLast(thread, lastSeen)'
      BY <1>2, <2>1, <2>2, QuestionStays DEF QuestionIsLast
    <2> QED
      BY <2>1, <2>3, <2>4
  <1>9. IdleIsOver' /\ AskingIsWaiting'
    <2>1. ~isRunning /\ polling => thread \in Thread \ {t}
      BY <1>1, Types DEF InStep, IdleIsOver
    <2>2. asking => thread \in Thread \ {t}
      BY <1>1, Types DEF InStep, AskingIsWaiting
    <2>3. IdleIsOver'
      BY <1>1, <1>2, <2>1 DEF InStep, IdleIsOver
    <2>4. AskingIsWaiting'
      BY <1>1, <1>2, <2>2 DEF InStep, AskingIsWaiting
    <2> QED
      BY <2>3, <2>4
  <1>10. InvokeIsFirst'
    <2> SUFFICES ASSUME sending = "invoke"
                 PROVE  /\ thread = 0 /\ isRunning /\ seen = <<>>
                        /\ QuestionIsLast(target, 0)'
      BY <1>2 DEF InvokeIsFirst
    <2>1. /\ thread = 0 /\ isRunning /\ seen = <<>>
          /\ QuestionIsLast(target, 0)
      BY DEF InStep, InvokeIsFirst
    <2>2. target \in Thread /\ 0 \in Nat
      BY Types
    <2>3. QuestionIsLast(target, 0)'
      BY <1>2, <2>1, <2>2, QuestionStays DEF QuestionIsLast
    <2> QED
      BY <2>1, <2>3
  <1>11. OneRequest' /\ HandledInOrder'
    BY <1>2 DEF InStep, OneRequest, HandledInOrder
  <1> QED
    BY <1>6, <1>7, <1>8, <1>9, <1>10, <1>11 DEF InStep

\* A step that changes neither lists nor runs leaves what is said of them.
LEMMA ServerIdle ==
  ASSUME InStep, UNCHANGED server
  PROVE  /\ EndIsLast'
         /\ \A t, from : QuestionIsLast(t, from) => QuestionIsLast(t, from)'
  BY DEF server, InStep, EndIsLast, QuestionIsLast

\* A tick asks for what follows the last event seen.
LEMMA TickInv ==
  ASSUME TypeOK, InStep, ~late', Tick
  PROVE  InStep'
  <1>1. requests = <<>> /\ polling /\ thread \in Thread
    BY Types DEF Tick, Send
  <1>2. requests' = <<NewRequest(thread, lastSeen)>> /\ ~late
    <2>1. requests' = Append(requests, NewRequest(thread, lastSeen)) /\ ~late
      BY Zenon DEF Tick, Send
    <2> QED
      BY <1>1, <2>1
  <1>3. OneRequest' /\ RequestIsNext'
    BY <1>1, <1>2 DEF Tick, OneRequest, RequestIsNext, NewRequest
  <1>4. EndIsLast' /\ HandledInOrder'
    BY <1>2, ServerIdle DEF Tick, InStep, HandledInOrder
  <1>5. PollingIsCurrent'
    BY DEF Tick, server, history, InStep, PollingIsCurrent, QuestionIsLast
  <1>6. IdleIsOver' /\ AskingIsWaiting'
    BY DEF Tick, server, InStep, IdleIsOver, AskingIsWaiting
  <1>7. InvokeIsFirst'
    BY DEF Tick, server, history, InStep, InvokeIsFirst, QuestionIsLast
  <1> QED
    BY <1>3, <1>4, <1>5, <1>6, <1>7 DEF InStep

\* There is one request: once it is answered there is none.
LEMMA LastRequest ==
  ASSUME TypeOK, InStep, NEW i \in DOMAIN requests
  PROVE  Drop(i) = <<>>
  <1>1. i = 1 /\ Len(requests) = 1
    <2>1. i \in 1 .. Len(requests) /\ Len(requests) \in Nat
      BY Types, LenProperties
    <2>2. Len(requests) <= 1
      BY DEF InStep, OneRequest
    <2>3. ASSUME NEW n \in Nat, n <= 1, NEW k \in 1 .. n PROVE k = 1 /\ n = 1
      BY <2>3
    <2> QED
      BY ONLY <2>1, <2>2, <2>3
  <1>2. SubSeq(requests, 1, 0) = <<>> /\ SubSeq(requests, 2, 1) = <<>>
    BY SubSeqEmpty
  <1> QED
    BY <1>1, <1>2 DEF Drop

\* A failing request only makes room for the next one.
LEMMA AnswerLostInv ==
  ASSUME TypeOK, InStep, NEW i \in DOMAIN requests, AnswerLost(i)
  PROVE  InStep'
  <1>1. requests' = <<>>
    BY LastRequest DEF AnswerLost
  <1>2. OneRequest' /\ RequestIsNext'
    BY <1>1 DEF OneRequest, RequestIsNext
  <1>3. EndIsLast' /\ HandledInOrder'
    BY ServerIdle DEF AnswerLost, history, InStep, HandledInOrder
  <1>4. PollingIsCurrent'
    BY DEF AnswerLost, server, history, InStep, PollingIsCurrent,
           QuestionIsLast
  <1>5. IdleIsOver' /\ AskingIsWaiting'
    BY DEF AnswerLost, server, InStep, IdleIsOver, AskingIsWaiting
  <1>6. InvokeIsFirst'
    BY DEF AnswerLost, server, history, InStep, InvokeIsFirst, QuestionIsLast
  <1> QED
    BY <1>2, <1>3, <1>4, <1>5, <1>6 DEF InStep

\* An answer is handled to its end: nothing follows a `done`.
LEMMA AllHandled ==
  ASSUME TypeOK, EndIsLast, NEW t \in Thread, NEW from \in Nat,
         NEW upto \in Nat, from < upto, upto <= Len(log[t])
  PROVE  /\ Handled(t, from, upto) = from + 1 .. upto
         /\ Cardinality(Handled(t, from, upto)) = upto - from
  <1>1. log[t] \in Seq(Kind) /\ Len(log[t]) \in Nat
    BY Types
  <1>2. \A j \in 1 .. Len(log[t]) - 1 : log[t][j] # "done"
    BY <1>1 DEF EndIsLast
  <1>3. Handled(t, from, upto) = from + 1 .. upto
    BY <1>1, <1>2 DEF Handled
  <1>4. Cardinality(from + 1 .. upto) = upto - from
    <2>1. from + 1 \in Int /\ upto \in Int /\ ~(from + 1 > upto)
      OBVIOUS
    <2>2. Cardinality(from + 1 .. upto) = upto - (from + 1) + 1
      BY <2>1, FS_Interval
    <2> QED
      BY <2>2
  <1> QED
    BY <1>3, <1>4

\* What is done with the events of an answer, if it is for the thread shown.
LEMMA ShowInv ==
  ASSUME TypeOK, InStep, ~late, UNCHANGED <<log, agent, thread>>, polling,
         NEW upto \in Nat, lastSeen < upto, upto <= Len(log[thread]),
         Show(thread, lastSeen, upto)
  PROVE  /\ PollingIsCurrent' /\ IdleIsOver' /\ AskingIsWaiting'
         /\ HandledInOrder'
         /\ isRunning
  <1> DEFINE t     == thread
             from  == lastSeen
             batch == from + 1 .. upto
             done  == \E k \in batch : log[t][k] = "done"
             more  == [i \in 1 .. upto - from |-> from + i]
  <1>1. /\ t \in Thread /\ t # 0 /\ from \in Nat
        /\ log[t] \in Seq(Kind) /\ Len(log[t]) \in Nat
        /\ seen \in Seq(Nat)
    BY Types
  <1>2. /\ EndIsLast /\ HandledInOrder
        /\ Len(seen) = from /\ QuestionIsLast(t, from)
    BY DEF InStep, PollingIsCurrent
  <1>3. Handled(t, from, upto) = batch /\ Cardinality(batch) = upto - from
    BY <1>1, <1>2, AllHandled
  <1>4. isRunning /\ ~asking
    BY <1>1 DEF InStep, IdleIsOver, AskingIsWaiting
  <1>5. /\ isRunning' = RunningAfter(t, batch)
        /\ asking' = AskingAfter(t, batch)
        /\ polling' = (polling /\ ~(done /\ t = thread))
        /\ lastSeen' = IF done THEN lastSeen ELSE lastSeen + (upto - from)
        /\ quiet' = IF done THEN quiet ELSE [quiet EXCEPT ![t] = 0]
        /\ seen' = seen \o more
        /\ foreign' = foreign
    BY <1>3, Zenon DEF Show, Record
  <1>6. \A k \in batch : k \in DOMAIN log[t]
    BY <1>1
  <1>7. \A k \in batch : log[t][k] \in {"done", "error"} =>
                           agent[t] = "ended" /\ k = Len(log[t])
    BY <1>1, <1>2, <1>6 DEF EndIsLast
  <1>8. \A k \in batch : log[t][k] = "interrupt" =>
                           agent[t] = "waiting" /\ k = Len(log[t])
    BY <1>1, <1>2, <1>6 DEF QuestionIsLast
  <1>9. /\ seen' \in Seq(Nat) /\ Len(seen') = upto
        /\ \A i \in 1 .. upto : seen'[i] = i
    <2>1. more \in Seq(Nat) /\ Len(more) = upto - from
      BY <1>1
    <2>2. \A i \in 1 .. upto - from : more[i] = from + i
      OBVIOUS
    <2>3. seen' = seen \o more
      BY <1>5
    <2>4. \A i \in 1 .. from : seen[i] = i
      BY <1>1, <1>2 DEF HandledInOrder
    <2> HIDE DEF more
    <2>5. /\ seen \o more \in Seq(Nat)
          /\ Len(seen \o more) = Len(seen) + Len(more)
          /\ \A i \in 1 .. Len(seen) + Len(more) :
               (seen \o more)[i] = IF i <= Len(seen) THEN seen[i]
                                                     ELSE more[i - Len(seen)]
      BY <1>1, <2>1, ConcatProperties
    <2>6. /\ seen' \in Seq(Nat) /\ Len(seen') = upto
          /\ \A i \in 1 .. upto :
               seen'[i] = IF i <= from THEN seen[i] ELSE more[i - from]
      <3>1. Len(seen) + Len(more) = upto
        BY <1>1, <1>2, <2>1
      <3>2. Len(seen) = from
        BY <1>2
      <3> QED
        BY ONLY <2>3, <2>5, <3>1, <3>2
    <2>7. ASSUME NEW i \in 1 .. upto PROVE seen'[i] = i
      <3>1. CASE i <= from
        <4>1. i \in 1 .. from
          BY <1>1, <3>1
        <4> QED
          BY <2>4, <2>6, <3>1, <4>1
      <3>2. CASE ~(i <= from)
        <4>1. i - from \in 1 .. upto - from /\ from + (i - from) = i
          BY <1>1, <3>2
        <4> QED
          BY <2>2, <2>6, <3>2, <4>1
      <3> QED
        BY <3>1, <3>2
    <2> QED
      BY <2>6, <2>7
  <1>10. HandledInOrder'
    <2>1. DOMAIN seen' = 1 .. upto
      BY <1>9, LenProperties
    <2> QED
      BY <1>2, <1>5, <1>9, <2>1 DEF HandledInOrder
  <1>11. CASE done
    <2>1. ~polling' /\ agent[t] = "ended"
      BY <1>5, <1>7, <1>11
    <2>2. \A k \in batch : log[t][k] # "interrupt"
      BY <1>8, <2>1
    <2>3. ~asking'
      BY <1>4, <1>5, <2>2 DEF AskingAfter
    <2>4. PollingIsCurrent' /\ IdleIsOver' /\ AskingIsWaiting'
      BY <2>1, <2>3 DEF PollingIsCurrent, IdleIsOver, AskingIsWaiting
    <2> QED
      BY <1>4, <1>10, <2>4
  <1>12. CASE ~done
    <2>1. lastSeen' = upto /\ polling'
      <3>1. lastSeen' = from + (upto - from)
        BY <1>5, <1>12
      <3>2. polling'
        BY <1>5, <1>12, Zenon
      <3> QED
        BY <1>1, <3>1, <3>2
    <2>2. PollingIsCurrent'
      BY <1>1, <1>2, <1>9, <2>1 DEF PollingIsCurrent, QuestionIsLast
    <2>3. ~isRunning' => \E k \in batch : log[t][k] = "error"
      BY <1>4, <1>5, <1>12 DEF RunningAfter
    <2>4. IdleIsOver'
      BY <1>1, <1>7, <2>1, <2>3 DEF IdleIsOver
    <2>5. asking' => \E k \in batch : log[t][k] = "interrupt"
      BY <1>4, <1>5 DEF AskingAfter
    <2>6. AskingIsWaiting'
      BY <1>1, <1>8, <2>1, <2>5 DEF AskingIsWaiting
    <2> QED
      BY <1>4, <1>10, <2>2, <2>4, <2>6
  <1> QED
    BY <1>11, <1>12

\* Whatever an answer brings, it preserves the invariant.
LEMMA AnswerInv ==
  ASSUME TypeOK, InStep, ~late, ~late', NEW i \in DOMAIN requests, Answer(i)
  PROVE  InStep'
  <1> DEFINE r == requests[i]
             t == r.thread
  <1>1. t \in Thread /\ r.from \in Nat /\ r.known \in Nat /\ Len(log[t]) \in Nat
    BY Types
  <1>2. PICK upto \in r.known .. Len(log[t]) :
          \/ upto > r.from /\ Show(t, r.from, upto)
          \/ upto <= r.from /\ quiet[t] < StaleAfter  /\ StillQuiet(t)
          \/ upto <= r.from /\ quiet[t] >= StaleAfter /\ GiveUp(t)
    BY DEF Answer
  <1>3. UNCHANGED server /\ UNCHANGED <<thread, sending, target>>
    BY Zenon DEF Answer
  <1>4. requests' = <<>>
    BY LastRequest DEF Answer
  <1>5. EndIsLast'
    BY <1>3, ServerIdle
  <1>6. OneRequest' /\ RequestIsNext'
    BY <1>4 DEF OneRequest, RequestIsNext
  <1>7. CASE GiveUp(t)
    <2>1. t = thread
      BY <1>7, Zenon DEF GiveUp
    <2>2. ~polling' /\ ~asking' /\ UNCHANGED <<seen, foreign>>
      BY <1>7, <2>1, Zenon DEF GiveUp
    <2>3. PollingIsCurrent' /\ IdleIsOver' /\ AskingIsWaiting'
      BY <2>2 DEF PollingIsCurrent, IdleIsOver, AskingIsWaiting
    <2>4. thread # 0
      BY <1>1, <2>1, Types
    <2>5. InvokeIsFirst'
      BY <1>3, <2>4 DEF InStep, InvokeIsFirst
    <2>6. HandledInOrder'
      BY <2>2 DEF InStep, HandledInOrder
    <2> QED
      BY <1>5, <1>6, <2>3, <2>5, <2>6 DEF InStep
  <1>8. CASE StillQuiet(t)
    <2>1. UNCHANGED <<isRunning, asking, polling, lastSeen, seen, foreign>>
      BY <1>8 DEF StillQuiet
    <2>2. PollingIsCurrent' /\ InvokeIsFirst'
      BY <1>3, <2>1
         DEF server, InStep, PollingIsCurrent, InvokeIsFirst, QuestionIsLast
    <2>3. IdleIsOver' /\ AskingIsWaiting'
      BY <1>3, <2>1 DEF server, InStep, IdleIsOver, AskingIsWaiting
    <2>4. HandledInOrder'
      BY <2>1 DEF InStep, HandledInOrder
    <2> QED
      BY <1>5, <1>6, <2>2, <2>3, <2>4 DEF InStep
  <1>9. CASE upto > r.from /\ Show(t, r.from, upto)
    <2>1. ~(r.from >= Len(log[t])) /\ upto \in Nat /\ upto <= Len(log[t])
      BY <1>1, <1>2, <1>9
    <2>2. t = thread /\ polling /\ r.from = lastSeen
      BY <2>1 DEF InStep, RequestIsNext
    <2>3. Show(thread, lastSeen, upto) /\ lastSeen < upto
      <3>1. Show(thread, lastSeen, upto) /\ upto > lastSeen
        BY <1>9, <2>2
      <3> QED
        BY <3>1, <2>1, <2>2, <1>1
    <2>4. UNCHANGED <<log, agent, thread>>
      BY <1>3 DEF server
    <2>5. upto <= Len(log[thread])
      BY <2>1, <2>2
    <2> HIDE DEF r, t
    <2>6. /\ PollingIsCurrent' /\ IdleIsOver' /\ AskingIsWaiting'
          /\ HandledInOrder'
      BY <2>1, <2>2, <2>3, <2>4, <2>5, ShowInv
    <2>7. InvokeIsFirst'
      <3>1. thread # 0
        BY <2>2, Types
      <3> QED
        BY <1>3, <3>1 DEF InStep, InvokeIsFirst
    <2> QED
      BY <1>5, <1>6, <2>6, <2>7 DEF InStep
  <1> QED
    BY <1>2, <1>7, <1>8, <1>9

\* A reply preserves the invariant: its question is the last thing that was seen.
LEMMA SendReplyInv ==
  ASSUME TypeOK, InStep, SendReply
  PROVE  InStep'
  <1>1. /\ thread \in Thread /\ polling /\ agent[thread] = "waiting"
        /\ lastSeen = Len(log[thread])
        /\ log[thread] \in Seq(Kind)
    BY Types DEF SendReply, InStep, AskingIsWaiting
  <1>2. /\ \A u \in Thread : u # thread => agent'[u] = agent[u]
        /\ agent'[thread] \in {"running", "waiting"}
    BY <1>1, Types DEF SendReply
  <1>3. EndIsLast'
    <2>1. \A k \in DOMAIN log[thread] : log[thread][k] \notin {"done", "error"}
      BY <1>1 DEF InStep, EndIsLast
    <2> QED
      BY <1>1, <1>2, <2>1 DEF SendReply, InStep, EndIsLast
  <1>4. RequestIsNext'
    BY <1>2, Types DEF SendReply, InStep, RequestIsNext
  <1>5. PollingIsCurrent'
    <2>1. QuestionIsLast(thread, lastSeen)'
      <3>1. \A k \in DOMAIN log[thread] : ~(k > lastSeen)
        BY <1>1
      <3> QED
        BY <3>1 DEF SendReply, QuestionIsLast
    <2> QED
      BY <1>1, <2>1 DEF SendReply, InStep, PollingIsCurrent
  <1>6. IdleIsOver' /\ AskingIsWaiting' /\ InvokeIsFirst'
    BY DEF SendReply, IdleIsOver, AskingIsWaiting, InvokeIsFirst
  <1>7. OneRequest' /\ HandledInOrder'
    BY DEF SendReply, InStep, OneRequest, HandledInOrder
  <1> QED
    BY <1>3, <1>4, <1>5, <1>6, <1>7 DEF InStep

\* A message that starts a session: what is under way is left over.
LEMMA SendNewInv ==
  ASSUME TypeOK, InStep, NEW t \in Thread, SendNew(t)
  PROVE  InStep'
  <1>1. ~isRunning /\ ~asking
    BY Types DEF SendNew, CanSend, Active, InStep, AskingIsWaiting
  <1>2. log[t] = <<>> /\ agent[t] = "none"
    BY DEF SendNew, InStep, EndIsLast
  <1>3. /\ \A u \in Thread : u # t => agent'[u] = agent[u]
        /\ agent'[t] \in {"running", "lost"}
    BY Types DEF SendNew
  <1>4. EndIsLast'
    BY <1>2, <1>3 DEF SendNew, InStep, EndIsLast
  <1>5. RequestIsNext'
    <2>1. \A i \in DOMAIN requests :
            LET r == requests[i] IN
            /\ r.thread \in Thread /\ r.thread # 0 /\ r.thread # t
            /\ agent[r.thread] = "ended"
            /\ r.from >= Len(log[r.thread])
      BY <1>1, <1>2, NothingMore, Types
    <2> QED
      BY <1>3, <2>1 DEF SendNew, RequestIsNext
  <1>6. PollingIsCurrent' /\ AskingIsWaiting' /\ IdleIsOver'
    BY DEF SendNew, PollingIsCurrent, AskingIsWaiting, IdleIsOver
  <1>7. InvokeIsFirst'
    BY <1>2 DEF SendNew, InvokeIsFirst, QuestionIsLast
  <1>8. OneRequest' /\ HandledInOrder'
    BY DEF SendNew, InStep, OneRequest, HandledInOrder
  <1> QED
    BY <1>4, <1>5, <1>6, <1>7, <1>8 DEF InStep

\* The return of its invoke: a new polling that has seen nothing.
LEMMA InvokeReturnsInv ==
  ASSUME TypeOK, InStep, ~late', InvokeReturns
  PROVE  InStep'
  <1>1. /\ thread = 0 /\ isRunning /\ seen = <<>> /\ QuestionIsLast(target, 0)
        /\ target \in Thread /\ Len(log[target]) \in Nat
        /\ requests = <<>>
    BY Types DEF InvokeReturns, Send, InStep, InvokeIsFirst
  <1>2. requests' = <<NewRequest(target, 0)>> /\ ~late
    <2>1. requests' = Append(requests, NewRequest(target, 0)) /\ ~late
      BY Zenon DEF InvokeReturns, Send
    <2> QED
      BY <1>1, <2>1
  <1>3. OneRequest' /\ RequestIsNext'
    <2>1. thread' = target /\ lastSeen' = 0 /\ polling'
      BY DEF InvokeReturns
    <2>2. NewRequest(target, 0).thread = target /\ NewRequest(target, 0).from = 0
      BY DEF NewRequest
    <2> HIDE DEF NewRequest
    <2> QED
      BY <1>2, <2>1, <2>2 DEF OneRequest, RequestIsNext
  <1>4. EndIsLast'
    BY ServerIdle DEF InvokeReturns
  <1>5. ~asking
    BY <1>1, Types DEF InStep, AskingIsWaiting
  <1>6. PollingIsCurrent'
    <2>1. QuestionIsLast(target, 0)'
      BY <1>1 DEF InvokeReturns, server, QuestionIsLast
    <2> QED
      BY <1>1, <2>1
         DEF InvokeReturns, server, history, PollingIsCurrent, QuestionIsLast
  <1>7. IdleIsOver' /\ AskingIsWaiting' /\ InvokeIsFirst'
    BY <1>1, <1>5 DEF InvokeReturns, IdleIsOver, AskingIsWaiting, InvokeIsFirst
  <1>8. HandledInOrder'
    BY <1>2 DEF InvokeReturns, InStep, HandledInOrder
  <1> QED
    BY <1>3, <1>4, <1>6, <1>7, <1>8 DEF InStep

\* The end of send().
LEMMA SendEndsInv ==
  ASSUME InStep, SendEnds
  PROVE  InStep'
  <1>1. EndIsLast' /\ OneRequest' /\ RequestIsNext'
    BY ServerIdle
       DEF SendEnds, server, InStep, OneRequest, RequestIsNext
  <1>2. PollingIsCurrent' /\ HandledInOrder'
    BY DEF SendEnds, server, history, InStep, PollingIsCurrent, QuestionIsLast,
           HandledInOrder
  <1>3. IdleIsOver' /\ AskingIsWaiting' /\ InvokeIsFirst'
    BY DEF SendEnds, server, InStep, IdleIsOver, AskingIsWaiting, InvokeIsFirst
  <1> QED
    BY <1>1, <1>2, <1>3 DEF InStep

\* A new chat: again what is under way is left over.
LEMMA ResetInv ==
  ASSUME TypeOK, InStep, Reset
  PROVE  InStep'
  <1>1. EndIsLast' /\ OneRequest' /\ HandledInOrder'
    BY ServerIdle DEF Reset, InStep, OneRequest, HandledInOrder
  <1>2. RequestIsNext'
    <2>1. \A i \in DOMAIN requests :
            LET r == requests[i] IN
            /\ r.thread # 0
            /\ agent[r.thread] = "ended"
            /\ r.from >= Len(log[r.thread])
      BY NothingMore, Types DEF Reset
    <2> QED
      BY <2>1 DEF Reset, server, RequestIsNext
  <1>3. PollingIsCurrent' /\ IdleIsOver' /\ AskingIsWaiting' /\ InvokeIsFirst'
    BY DEF Reset, InStep, PollingIsCurrent, IdleIsOver, AskingIsWaiting,
           InvokeIsFirst
  <1> QED
    BY <1>1, <1>2, <1>3 DEF InStep

\* An answer that has been late stays so.
LEMMA LateStays ==
  ASSUME late, [Next]_vars
  PROVE  late'
  <1>1. ASSUME NEW i \in DOMAIN requests, Answer(i) PROVE late'
    <2>1. PICK t, from, upto : Show(t, from, upto) \/ StillQuiet(t) \/ GiveUp(t)
      BY <1>1, Zenon DEF Answer
    <2> QED
      BY <2>1, Zenon DEF Show, Record, StillQuiet, GiveUp
  <1> QED
    BY <1>1, NextCases, Zenon
       DEF Progress, Ask, Finish, SendNew, Tick, Send, AnswerLost, SendReply,
           InvokeReturns, SendEnds, Reset, vars, history

\* Every step preserves the invariant.
LEMMA StreamStep == TypeOK /\ StreamInv /\ [Next]_vars => StreamInv'
  <1> SUFFICES ASSUME TypeOK, StreamInv, [Next]_vars, ~late' PROVE InStep'
    BY DEF StreamInv
  <1>1. ~late /\ InStep
    BY LateStays DEF StreamInv
  <1>2. CASE UNCHANGED vars
    <2>1. EndIsLast' /\ OneRequest' /\ RequestIsNext'
      BY <1>1, <1>2, ServerIdle
         DEF vars, server, browser, InStep, OneRequest, RequestIsNext
    <2>2. PollingIsCurrent' /\ HandledInOrder'
      BY <1>1, <1>2 DEF vars, server, browser, history, InStep, PollingIsCurrent,
                        QuestionIsLast, HandledInOrder
    <2>3. IdleIsOver' /\ AskingIsWaiting' /\ InvokeIsFirst'
      BY <1>1, <1>2 DEF vars, server, browser, history, InStep, IdleIsOver,
                        AskingIsWaiting, InvokeIsFirst, QuestionIsLast
    <2> QED
      BY <2>1, <2>2, <2>3 DEF InStep
  <1> QED
    BY Zenon, <1>1, <1>2, NextCases, ServerInv, TickInv, AnswerInv, AnswerLostInv,
       SendReplyInv, SendNewInv, InvokeReturnsInv, SendEndsInv, ResetInv

\* The inductive invariant: until an answer is late, the polling, the bar and the
\* runs agree, whatever fails and however long the user or the agent is idle.
THEOREM StreamCorrect == Spec => []StreamInv
  BY StreamInit, StreamStep, TypeCorrect, PTL DEF Spec

\* Until then every event of the thread shown is handled once and in order, and none
\* of another thread.
THEOREM EventsInOrder == Spec => []HandledInOrder
  <1>1. StreamInv => HandledInOrder
    BY DEF StreamInv, InStep, HandledInOrder
  <1> QED
    BY <1>1, StreamCorrect, PTL

\* Until then a message is sent as a reply only to a run that waits for one.
THEOREM RepliesGoToQuestions == Spec => RepliesAnswerQuestions
  <1>1. TypeOK /\ StreamInv /\ [Next]_vars
          => [~late /\ sending # "resume" /\ sending' = "resume"
                => agent[thread] = "waiting"]_vars
    <2> SUFFICES ASSUME TypeOK, InStep, [Next]_vars,
                        sending # "resume", sending' = "resume"
                 PROVE  agent[thread] = "waiting"
      BY DEF StreamInv
    <2>1. CASE SendReply
      BY <2>1 DEF SendReply, InStep, AskingIsWaiting
    <2>2. CASE sending' = sending \/ sending' \in {"no", "invoke"}
      BY <2>2
    <2> QED
      BY <2>1, <2>2, NextCases
         DEF Progress, Ask, Finish, SendNew, Tick, Answer, AnswerLost,
             InvokeReturns, SendEnds, Reset, vars, browser
  <1> QED
    BY <1>1, StreamCorrect, TypeCorrect, PTL DEF Spec, RepliesAnswerQuestions
=============================================================================

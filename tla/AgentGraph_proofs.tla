-------------------------- MODULE AgentGraph_proofs --------------------------
(***************************************************************************)
(* Proofs about AgentGraph: type correctness, and that no tool and no       *)
(* remediation is run without an answer of its own, for any set of replies, *)
(* any auto_approve, any recursion limit and any number of calls.           *)
(***************************************************************************)
EXTENDS AgentGraph, TLAPS

-----------------------------------------------------------------------------
(* Type correctness.                                                       *)

\* The conjuncts of TypeOK that the runtime's part of a step decides, in groups
\* small enough for the provers.
Asks(c) == c.task = "interrupted" => c.next \in Asking

ThreadOK == ch \in Channels /\ ckpt \in Channels /\ Asks(ch) /\ Asks(ckpt)
ModeOK   == live \in BOOLEAN /\ auto \in BOOLEAN
WordsOK  == reply \in Reply \union {"none"} /\ metrics \in Metrics
StepsOK  == steps \in 0 .. RecursionLimit
IdleOK   == ~live => ch = ckpt /\ reply = "none" /\ steps = 0

CallTypeOK == ThreadOK /\ ModeOK /\ WordsOK /\ StepsOK /\ IdleOK

\* The other ones.
RestTypeOK ==
  /\ fresh \in Nat
  /\ calls \in Nat
  /\ verdict \in Verdict
  /\ acts \in Nat
  /\ chains \in Nat
  /\ crashed \in BOOLEAN
  /\ failures \in Nat

\* The parts make up the type invariant.
LEMMA TypeParts == TypeOK <=> CallTypeOK /\ RestTypeOK
  BY Zenon DEF TypeOK, CallTypeOK, RestTypeOK, ThreadOK, Asks, ModeOK, WordsOK,
               StepsOK, IdleOK

\* Moving the channels on to a next node keeps them channels.
LEMMA MovedChannels ==
  ASSUME NEW c \in Channels, NEW n \in Node \union {"end"},
         NEW b \in {"ready", "interrupted"}, NEW text \in Nat
  PROVE  [c EXCEPT !.next = n, !.task = b, !.shown = text] \in Channels
  BY DEF Channels

\* The initial state is well typed.
LEMMA TypeInit == Init => TypeOK
  <1> SUFFICES ASSUME Init PROVE CallTypeOK /\ RestTypeOK
    BY TypeParts
  <1>1. NewThread \in Channels /\ NewThread.task = "ready"
    BY DEF NewThread, Channels, Thought
  <1>2. ThreadOK
    BY <1>1 DEF Init, ThreadOK, Asks
  <1>3. ModeOK /\ WordsOK /\ IdleOK
    BY DEF Init, ModeOK, WordsOK, IdleOK, Metrics
  <1>4. StepsOK
    BY GraphAssumption DEF Init, StepsOK
  <1>5. RestTypeOK
    BY DEF Init, RestTypeOK, Verdict, Answer
  <1> QED
    BY <1>2, <1>3, <1>4, <1>5 DEF CallTypeOK

\* A completed node leaves the runtime's part well typed.
LEMMA CommitType ==
  ASSUME CallTypeOK, NEW c \in Channels, NEW n \in Node \union {"end"},
         NEW m \in Metrics, live, steps < RecursionLimit, Commit(c, n, m)
  PROVE  CallTypeOK'
  <1> DEFINE d == [c EXCEPT !.next = n, !.task = "ready", !.shown = 0]
  <1>1. d \in Channels
    BY MovedChannels
  <1>2. d.task = "ready"
    BY DEF Channels
  <1>3. ch' = d
    BY DEF Commit
  <1>4. metrics' \in Metrics
    BY DEF Commit, Metrics
  <1> HIDE DEF d
  <1>5. ThreadOK'
    BY <1>1, <1>2, <1>3 DEF Commit, EndCall, CallTypeOK, ThreadOK, Asks
  <1>6. ModeOK'
    BY DEF Commit, EndCall, CallTypeOK, ModeOK
  <1>7. WordsOK'
    BY <1>4 DEF Commit, EndCall, CallTypeOK, WordsOK
  <1>8. StepsOK'
    <2>1. steps' = 0 \/ steps' = steps + 1
      BY DEF Commit, EndCall
    <2> QED
      BY <2>1, GraphAssumption DEF CallTypeOK, StepsOK
  <1>9. IdleOK'
    BY DEF Commit, EndCall, CallTypeOK, IdleOK
  <1> QED
    BY <1>5, <1>6, <1>7, <1>8, <1>9 DEF CallTypeOK

\* So does a node that stops at interrupt().
LEMMA InterruptType ==
  ASSUME CallTypeOK, NEW text \in Nat, ch.next \in Asking, Interrupt(text)
  PROVE  CallTypeOK'
  <1> DEFINE d == [ch EXCEPT !.task = "interrupted", !.shown = text]
  <1>1. d \in Channels /\ d.next = ch.next
    BY DEF CallTypeOK, ThreadOK, Channels
  <1>2. ch' = d
    BY DEF Interrupt
  <1> HIDE DEF d
  <1>3. ThreadOK'
    BY <1>1, <1>2 DEF Interrupt, EndCall, CallTypeOK, ThreadOK, Asks
  <1>4. ModeOK' /\ IdleOK'
    BY DEF Interrupt, EndCall, CallTypeOK, ModeOK, IdleOK
  <1>5. WordsOK'
    BY DEF Interrupt, EndCall, CallTypeOK, WordsOK
  <1>6. StepsOK'
    BY GraphAssumption DEF Interrupt, EndCall, StepsOK
  <1> QED
    BY <1>3, <1>4, <1>5, <1>6 DEF CallTypeOK

\* And a call that fails, after its node may have made a call of its own.
LEMMA FailsType ==
  ASSUME CallTypeOK, RestTypeOK, Fails,
         CutShort \/ UNCHANGED <<acts, chains, verdict>>
  PROVE  CallTypeOK' /\ RestTypeOK'
  <1>1. ThreadOK'
    BY DEF Fails, EndCall, CallTypeOK, ThreadOK, Asks
  <1>2. ModeOK' /\ IdleOK'
    BY DEF Fails, EndCall, CallTypeOK, ModeOK, IdleOK
  <1>3. WordsOK'
    BY DEF Fails, EndCall, WordsOK, Metrics
  <1>4. StepsOK'
    BY GraphAssumption DEF Fails, EndCall, StepsOK
  <1>5. RestTypeOK'
    BY DEF Fails, CutShort, RestTypeOK, Verdict
  <1> QED
    BY <1>1, <1>2, <1>3, <1>4, <1>5 DEF CallTypeOK

\* The routes lead to nodes.
LEMMA RouteTypes ==
  ASSUME NEW c, NEW resp, NEW vague
  PROVE  /\ RouteIntent(c, vague) \in Node
         /\ RouteCache(c) \in Node
         /\ RouteReview(c, resp) \in Node \union {"end"}
         /\ RouteSummary(resp) \in Node \union {"end"}
         /\ RouteProposal(c, resp) \in Node \union {"end"}
  BY DEF RouteIntent, RouteCache, RouteReview, RouteSummary, RouteProposal, Node

\* Every step preserves the type invariant; one case per action.
LEMMA TypeStep == TypeOK /\ [Next]_vars => TypeOK'
  <1> SUFFICES ASSUME CallTypeOK, RestTypeOK, [Next]_vars
               PROVE  CallTypeOK' /\ RestTypeOK'
    <2>1. TypeOK' <=> CallTypeOK' /\ RestTypeOK'
      BY Zenon DEF TypeOK, CallTypeOK, RestTypeOK, ThreadOK, Asks, ModeOK, WordsOK,
                   StepsOK, IdleOK
    <2> QED
      BY <2>1, TypeParts
  <1> USE GraphAssumption
  <1>0. /\ ch \in Channels /\ metrics \in Metrics
        /\ fresh + 1 \in Nat
        /\ "open" \in Metrics /\ "escalated" \in Metrics /\ "resolved" \in Metrics
    BY DEF CallTypeOK, RestTypeOK, ThreadOK, WordsOK, Metrics
  <1>1. CASE ManageContext
    <2>1. CallTypeOK'
      BY <1>0, <1>1, CommitType DEF ManageContext, Ready, Node
    <2> QED
      BY <2>1, <1>1 DEF ManageContext, history, RestTypeOK
  <1>2. CASE ExtractIntent
    <2>1. PICK vague \in BOOLEAN :
            Commit([ch EXCEPT !.intent = "set"], RouteIntent(ch, vague), "open")
      BY <1>2 DEF ExtractIntent
    <2>2. [ch EXCEPT !.intent = "set"] \in Channels
      BY <1>0 DEF Channels
    <2>3. CallTypeOK'
      BY <1>0, <1>2, <2>1, <2>2, RouteTypes, CommitType DEF ExtractIntent, Ready
    <2> QED
      BY <2>3, <1>2 DEF ExtractIntent, history, RestTypeOK
  <1>3. CASE Clarify
    <2>1. ASSUME Interrupt(0) PROVE CallTypeOK'
      BY <1>3, <2>1, InterruptType DEF Clarify, Ready, Asking
    <2>2. ASSUME Commit([ch EXCEPT !.clar = ch.clar + 1], "extract_intent", metrics)
          PROVE  CallTypeOK'
      <3>1. [ch EXCEPT !.clar = ch.clar + 1] \in Channels
        BY <1>0 DEF Channels
      <3> QED
        BY <1>0, <1>3, <2>2, <3>1, CommitType DEF Clarify, Ready, Node
    <2> QED
      BY <1>3, <2>1, <2>2 DEF Clarify, history, RestTypeOK
  <1>4. CASE CheckPlanCache
    <2>1. CASE Commit(ch, RouteCache(ch), metrics) /\ UNCHANGED fresh
      <3>1. CallTypeOK'
        BY <1>0, <1>4, <2>1, RouteTypes, CommitType DEF CheckPlanCache, Ready
      <3> QED
        BY <1>4, <2>1, <3>1 DEF CheckPlanCache, history, RestTypeOK
    <2>2. CASE /\ fresh' = fresh + 1
               /\ Commit([ch EXCEPT !.cacheHit = "true", !.cached = fresh + 1],
                         "propose_fix", metrics)
      <3>1. [ch EXCEPT !.cacheHit = "true", !.cached = fresh + 1] \in Channels
        BY <1>0 DEF Channels
      <3>2. CallTypeOK'
        BY <1>0, <1>4, <2>2, <3>1, CommitType DEF CheckPlanCache, Ready, Node
      <3> QED
        BY <1>4, <2>2, <3>2 DEF CheckPlanCache, history, RestTypeOK
    <2> QED
      BY <1>4, <2>1, <2>2 DEF CheckPlanCache
  <1>5. CASE Think
    <2>1. PICK sig \in Signal :
            Commit([ch EXCEPT !.thought = [id |-> fresh + 1, sig |-> sig],
                              !.feedback = "none"], "hitl_step_review", metrics)
      BY <1>5 DEF Think
    <2>2. [ch EXCEPT !.thought = [id |-> fresh + 1, sig |-> sig],
                     !.feedback = "none"] \in Channels
      BY <1>0 DEF Channels, Thought
    <2>3. CallTypeOK'
      BY <1>0, <1>5, <2>1, <2>2, CommitType DEF Think, Ready, Node
    <2> QED
      BY <1>5, <2>3 DEF Think, history, RestTypeOK
  <1>6. CASE AutoApprove
    <2>1. [ch EXCEPT !.feedback = "none"] \in Channels
      BY <1>0 DEF Channels
    <2>2. CallTypeOK'
      BY <1>0, <1>6, <2>1, RouteTypes, CommitType DEF AutoApprove, Ready
    <2>3. ch.thought.id \in Nat /\ ch.thought.sig \in Signal \union {"none"}
      BY <1>0 DEF Channels, Thought
    <2>4. verdict' \in Verdict
      BY <1>6, <2>3 DEF AutoApprove, Verdict, Answer, RestTypeOK
    <2> QED
      BY <1>6, <2>2, <2>4 DEF AutoApprove, RestTypeOK
  <1>7. CASE Review
    <2>1. ASSUME Interrupt(ch.thought.id) PROVE CallTypeOK'
      <3>1. ch.thought.id \in Nat
        BY <1>0 DEF Channels, Thought
      <3> QED
        BY <1>7, <2>1, <3>1, InterruptType DEF Review, Ready, Asking
    <2> DEFINE c == [ch EXCEPT !.feedback = IF reply = "text" THEN "text"
                                                             ELSE "none"]
    <2>2. ASSUME Commit(c, RouteReview(c, reply),
                        IF reply = "no" THEN "escalated" ELSE metrics)
          PROVE  CallTypeOK'
      <3>1. c \in Channels
        BY <1>0 DEF Channels
      <3> HIDE DEF c
      <3> QED
        BY <1>0, <1>7, <2>2, <3>1, RouteTypes, CommitType DEF Review, Ready
    <2> QED
      BY <1>7, <2>1, <2>2 DEF Review, history, RestTypeOK
  <1>8. CASE Act
    <2>1. CallTypeOK'
      BY <1>0, <1>8, CommitType DEF Act, Ready, Node
    <2> QED
      BY <1>8, <2>1 DEF Act, RestTypeOK, Verdict
  <1>9. CASE Observe
    <2>1. [ch EXCEPT !.hist = ch.hist + 1] \in Channels
      BY <1>0 DEF Channels
    <2>2. CallTypeOK'
      BY <1>0, <1>9, <2>1, CommitType DEF Observe, Ready, Node
    <2> QED
      BY <1>9, <2>2 DEF Observe, history, RestTypeOK
  <1>10. CASE AnalysisSummary
    <2>1. ASSUME Interrupt(0) PROVE CallTypeOK'
      BY <1>10, <2>1, InterruptType DEF AnalysisSummary, Ready, Asking
    <2>2. ASSUME Commit(ch, RouteSummary(reply), metrics) PROVE CallTypeOK'
      BY <1>0, <1>10, <2>2, RouteTypes, CommitType DEF AnalysisSummary, Ready
    <2> QED
      BY <1>10, <2>1, <2>2 DEF AnalysisSummary, history, RestTypeOK
  <1>11. CASE ProposeFix
    <2>1. Draft \in Nat
      BY <1>0 DEF Draft, Channels, RestTypeOK
    <2>2. ASSUME Interrupt(Draft) PROVE CallTypeOK'
      BY <1>11, <2>1, <2>2, InterruptType DEF ProposeFix, Ready, Asking
    <2>3. ASSUME Commit(Proposed(Draft), RouteProposal(Proposed(Draft), reply),
                        IF reply = "no" /\ ch.cacheHit # "true" THEN "escalated"
                                                                ELSE metrics)
          PROVE  CallTypeOK'
      <3>1. Proposed(Draft) \in Channels
        <4> DEFINE c == [ch EXCEPT !.plan = Draft]
        <4>1. c \in Channels
          BY <1>0, <2>1 DEF Channels
        <4> HIDE DEF c
        <4>2. \A b \in {"none", "text"} : /\ [c EXCEPT !.feedback = b] \in Channels
                                 /\ [c EXCEPT !.feedback = b, !.cacheHit = "false",
                                              !.cached = 0] \in Channels
          BY <4>1 DEF Channels
        <4> QED
          BY <4>2 DEF Proposed, c
      <3> QED
        BY <1>0, <1>11, <2>3, <3>1, RouteTypes, CommitType DEF ProposeFix, Ready
    <2> QED
      BY <1>11, <2>2, <2>3 DEF ProposeFix, history, RestTypeOK
  <1>12. CASE Report
    <2>1. CallTypeOK'
      BY <1>0, <1>12, CommitType DEF Report, Ready, Node
    <2> QED
      BY <1>12, <2>1 DEF Report, history, RestTypeOK
  <1>13. CASE ChainRemediate
    <2>1. CallTypeOK'
      BY <1>0, <1>13, CommitType DEF ChainRemediate, Ready
    <2> QED
      BY <1>13, <2>1 DEF ChainRemediate, RestTypeOK, Verdict
  <1>14. CASE NodeRaises \/ RecursionError
    BY <1>14, FailsType DEF NodeRaises, RecursionError
  <1>15. CASE Invoke
    <2>1. [ch EXCEPT !.next = "manage_context", !.task = "ready", !.shown = 0]
            \in Channels
      BY <1>0, MovedChannels DEF Node
    <2>2. [ch EXCEPT !.next = "manage_context", !.task = "ready",
                     !.shown = 0].task = "ready"
      BY <1>0 DEF Channels
    <2>3. CallTypeOK'
      <3>1. ThreadOK'
        BY <1>15, <2>1, <2>2 DEF Invoke, CallTypeOK, ThreadOK, Asks
      <3>2. ModeOK'
        BY <1>15 DEF Invoke, CallTypeOK, ModeOK
      <3>3. WordsOK' /\ StepsOK' /\ IdleOK'
        BY <1>15 DEF Invoke, CallTypeOK, WordsOK, StepsOK, IdleOK
      <3> QED
        BY <3>1, <3>2, <3>3 DEF CallTypeOK
    <2> QED
      BY <1>15, <2>3 DEF Invoke, history, RestTypeOK
  <1>16. ASSUME NEW r \in Replies, Resume(r) PROVE CallTypeOK' /\ RestTypeOK'
    <2>1. CallTypeOK'
      <3>1. ThreadOK'
        BY <1>16 DEF Resume, CallTypeOK, ThreadOK, Asks
      <3>2. ModeOK' /\ IdleOK'
        BY <1>16 DEF Resume, CallTypeOK, ModeOK, IdleOK
      <3>3. WordsOK'
        BY <1>0, <1>16 DEF Resume, CallTypeOK, WordsOK
      <3>4. StepsOK'
        BY <1>16 DEF Resume, CallTypeOK, StepsOK
      <3> QED
        BY <3>1, <3>2, <3>3, <3>4 DEF CallTypeOK
    <2>2. ch.shown \in Nat /\ ch.thought.sig \in Signal \union {"none"}
      BY <1>0 DEF Channels, Thought
    <2>3. KindShown \in Signal \union {"none", "clarify", "summary", "fix"}
      BY <2>2 DEF KindShown
    <2>4. verdict' \in Verdict
      BY <1>16, <2>2, <2>3 DEF Resume, Verdict, Answer
    <2> QED
      BY <1>16, <2>1, <2>4 DEF Resume, RestTypeOK
  <1>17. CASE Persist
    <2>1. ThreadOK'
      BY <1>17 DEF Persist, CallTypeOK, ThreadOK, Asks
    <2>2. ModeOK' /\ IdleOK'
      BY <1>17 DEF Persist, call, CallTypeOK, ModeOK, IdleOK
    <2>3. WordsOK' /\ StepsOK'
      BY <1>17 DEF Persist, call, CallTypeOK, WordsOK, StepsOK
    <2> QED
      BY <1>17, <2>1, <2>2, <2>3 DEF Persist, history, CallTypeOK, RestTypeOK
  <1>18. CASE Crash
    <2>1. CallTypeOK'
      <3>1. ThreadOK'
        BY <1>18 DEF Crash, CallTypeOK, ThreadOK, Asks
      <3>2. ModeOK' /\ IdleOK'
        BY <1>18 DEF Crash, CallTypeOK, ModeOK, IdleOK
      <3>3. WordsOK'
        BY <1>18 DEF Crash, WordsOK, Metrics
      <3>4. StepsOK'
        BY <1>18 DEF Crash, StepsOK
      <3> QED
        BY <3>1, <3>2, <3>3, <3>4 DEF CallTypeOK
    <2> QED
      BY <1>18, <2>1 DEF Crash, CutShort, RestTypeOK, Verdict
  <1>19. CASE UNCHANGED vars
    <2>1. ThreadOK'
      BY <1>19 DEF vars, CallTypeOK, ThreadOK, Asks
    <2>2. ModeOK' /\ IdleOK' /\ WordsOK' /\ StepsOK'
      BY <1>19 DEF vars, call, CallTypeOK, ModeOK, IdleOK, WordsOK, StepsOK
    <2> QED
      BY <1>19, <2>1, <2>2 DEF vars, history, CallTypeOK, RestTypeOK
  <1> QED
    BY <1>1, <1>2, <1>3, <1>4, <1>5, <1>6, <1>7, <1>8, <1>9, <1>10, <1>11, <1>12,
       <1>13, <1>14, <1>15, <1>16, <1>17, <1>18, <1>19 DEF Next, Execute

\* Type correctness, for every instance of the specification.
THEOREM TypeCorrect == Spec => []TypeOK
  BY TypeInit, TypeStep, PTL DEF Spec

-----------------------------------------------------------------------------
(* Permission.                                                             *)

\* What a completed node makes of the channels and the call.
LEMMA CommitFacts ==
  ASSUME NEW c \in Channels, NEW n, NEW m, Commit(c, n, m)
  PROVE  /\ ch'.next = n
         /\ ch'.task = "ready"
         /\ ch'.thought = c.thought
         /\ reply' = "none"
         /\ auto' = auto
         /\ ckpt' = ckpt \/ ckpt' = ch'
  BY DEF Commit, EndCall, Channels

\* A completed node preserves the permission invariant, if it goes on to a review
\* with a thought, and to a tool or a remediation with a permission.
LEMMA CommitPermission ==
  ASSUME PermissionInv, NEW c \in Channels, NEW n, NEW m, Commit(c, n, m),
         n = "hitl_step_review" => c.thought.sig \in Signal,
         n = "act" =>
           /\ verdict'.id = c.thought.id
           /\ verdict'.kind = "tool"
           /\ verdict'.uses = 0
           /\ verdict'.reply \in {"yes", "go", "modify", "auto"} \/ auto,
         n \in {"report", "chain_remediate"} =>
           /\ verdict'.uses = 0
           /\ \/ verdict'.kind = "fix" /\ verdict'.reply \in {"yes", "modify"}
              \/ /\ verdict'.kind = "remediation_done"
                 /\ verdict'.id = c.thought.id
                 /\ verdict'.reply \in {"yes", "go", "modify", "auto"} \/ auto
  PROVE  PermissionInv'
  <1>1. /\ ch'.next = n
        /\ ch'.task = "ready"
        /\ ch'.thought = c.thought
        /\ reply' = "none"
        /\ auto' = auto
        /\ ckpt' = ckpt \/ ckpt' = ch'
    BY CommitFacts
  <1>2. ReplyIsVerdict'
    BY <1>1 DEF ReplyIsVerdict
  <1>3. ReviewShowsThought'
    BY <1>1 DEF PermissionInv, ReviewShowsThought, ShowsThought
  <1>4. ActIsPermitted'
    BY <1>1 DEF ActIsPermitted, Permits
  <1>5. ChainIsPermitted'
    BY <1>1 DEF ChainIsPermitted, PermitsChain
  <1> QED
    BY <1>2, <1>3, <1>4, <1>5 DEF PermissionInv

\* A call that ends preserves it, if what it leaves shows its thought.
LEMMA EndPermission ==
  ASSUME EndCall, ShowsThought(ch)'
  PROVE  PermissionInv'
  BY DEF EndCall, PermissionInv, ReplyIsVerdict, ReviewShowsThought, ShowsThought,
         ActIsPermitted, ChainIsPermitted

\* An interrupt shows the thought when it is a review that asks.
LEMMA InterruptPermission ==
  ASSUME PermissionInv, ch \in Channels, NEW text, Interrupt(text),
         ch.next = "hitl_step_review" => text = ch.thought.id
  PROVE  PermissionInv'
  <1>1. /\ ch'.next = ch.next
        /\ ch'.thought = ch.thought
        /\ ch'.shown = text
    BY DEF Interrupt, Channels
  <1>2. ShowsThought(ch)'
    BY <1>1 DEF PermissionInv, ReviewShowsThought, ShowsThought
  <1> QED
    BY <1>2, EndPermission DEF Interrupt

\* The initial state has nothing to permit.
LEMMA PermissionInit == Init => PermissionInv
  BY DEF Init, NewThread, PermissionInv, ReplyIsVerdict, ReviewShowsThought,
         ShowsThought, ActIsPermitted, ChainIsPermitted

\* Every step preserves the permission invariant; one case per action.
LEMMA PermissionStep == TypeOK /\ PermissionInv /\ [Next]_vars => PermissionInv'
  <1> SUFFICES ASSUME TypeOK, PermissionInv, [Next]_vars PROVE PermissionInv'
    OBVIOUS
  <1>0. /\ ch \in Channels
        /\ ~live => ch = ckpt /\ reply = "none"
        /\ ch.task = "interrupted" => ch.next \in Asking
    BY Zenon DEF TypeOK
  <1>1. CASE ManageContext
    BY <1>0, <1>1, CommitPermission DEF ManageContext
  <1>2. CASE ExtractIntent
    <2>1. PICK vague \in BOOLEAN :
            Commit([ch EXCEPT !.intent = "set"], RouteIntent(ch, vague), "open")
      BY <1>2 DEF ExtractIntent
    <2>2. [ch EXCEPT !.intent = "set"] \in Channels
      BY <1>0 DEF Channels
    <2>3. RouteIntent(ch, vague) \in {"clarify", "check_plan_cache"}
      BY DEF RouteIntent
    <2> QED
      BY <2>1, <2>2, <2>3, CommitPermission
  <1>3. CASE Clarify
    <2>1. CASE Interrupt(0)
      BY <1>0, <1>3, <2>1, InterruptPermission DEF Clarify, Ready
    <2>2. CASE Commit([ch EXCEPT !.clar = ch.clar + 1], "extract_intent", metrics)
      <3>1. [ch EXCEPT !.clar = ch.clar + 1] \in Channels
        BY <1>0 DEF Channels
      <3> QED
        BY <2>2, <3>1, CommitPermission
    <2> QED
      BY <1>3, <2>1, <2>2 DEF Clarify
  <1>4. CASE CheckPlanCache
    <2>1. CASE Commit(ch, RouteCache(ch), metrics)
      <3>1. RouteCache(ch) \in {"propose_fix", "think"}
        BY DEF RouteCache
      <3> QED
        BY <1>0, <2>1, <3>1, CommitPermission
    <2>2. CASE Commit([ch EXCEPT !.cacheHit = "true", !.cached = fresh + 1],
                      "propose_fix", metrics)
      <3>0. fresh + 1 \in Nat
        BY DEF TypeOK
      <3>1. [ch EXCEPT !.cacheHit = "true", !.cached = fresh + 1] \in Channels
        BY <1>0, <3>0 DEF Channels
      <3> QED
        BY <2>2, <3>1, CommitPermission
    <2> QED
      BY <1>4, <2>1, <2>2 DEF CheckPlanCache
  <1>5. CASE Think
    <2>1. PICK sig \in Signal :
            Commit([ch EXCEPT !.thought = [id |-> fresh + 1, sig |-> sig],
                              !.feedback = "none"], "hitl_step_review", metrics)
      BY <1>5 DEF Think
    <2> DEFINE c == [ch EXCEPT !.thought = [id |-> fresh + 1, sig |-> sig],
                               !.feedback = "none"]
    <2>0. fresh + 1 \in Nat
      BY DEF TypeOK
    <2>2. c \in Channels /\ c.thought.sig = sig
      BY <1>0, <2>0 DEF Channels, Thought
    <2> HIDE DEF c
    <2>3. Commit(c, "hitl_step_review", metrics)
      BY <2>1 DEF c
    <2> QED
      BY <2>2, <2>3, CommitPermission
  <1>6. CASE AutoApprove
    <2> DEFINE c == [ch EXCEPT !.feedback = "none"]
               n == RouteReview(c, "yes")
    <2>1. /\ c \in Channels
          /\ c.thought = ch.thought
          /\ c.feedback = "none"
      BY <1>0 DEF Channels
    <2> HIDE DEF c
    <2>2. /\ n # "hitl_step_review"
          /\ n # "chain_remediate"
          /\ n = "act" => ch.thought.sig \notin {"analysis_done", "remediation_done"}
          /\ n = "report" => ch.thought.sig = "remediation_done"
      BY <2>1 DEF RouteReview
    <2>3. ch.thought.sig \in Signal
      BY <1>6 DEF AutoApprove, Ready, PermissionInv, ReviewShowsThought, ShowsThought
    <2>4. /\ verdict'.id = ch.thought.id
          /\ verdict'.kind = ch.thought.sig
          /\ verdict'.uses = 0
      <3>1. CASE reply # "none"
        <4>1. verdict = [id |-> ch.shown, kind |-> KindShown, reply |-> reply,
                         uses |-> 0]
              /\ ch.task = "interrupted"
          BY <3>1 DEF PermissionInv, ReplyIsVerdict
        <4>2. ch.shown = ch.thought.id /\ KindShown = ch.thought.sig
          BY <1>6, <4>1
          DEF AutoApprove, Ready, PermissionInv, ReviewShowsThought, ShowsThought,
              KindShown
        <4> QED
          BY <1>6, <3>1, <4>1, <4>2 DEF AutoApprove
      <3>2. CASE reply = "none"
        BY <1>6, <3>2 DEF AutoApprove
      <3> QED
        BY <3>1, <3>2
    <2>5. auto /\ Commit(c, n, metrics)
      BY <1>6 DEF AutoApprove, c
    <2> HIDE DEF n
    <2> QED
      BY <2>1, <2>2, <2>3, <2>4, <2>5, CommitPermission DEF Signal
  <1>7. CASE Review
    <2>1. CASE Interrupt(ch.thought.id)
      BY <1>0, <2>1, InterruptPermission
    <2>2. CASE reply # "none" /\ ~Interrupt(ch.thought.id)
      <3> DEFINE c == [ch EXCEPT !.feedback = IF reply = "text" THEN "text"
                                                               ELSE "none"]
                 n == RouteReview(c, reply)
                 m == IF reply = "no" THEN "escalated" ELSE metrics
      <3>1. /\ c \in Channels
            /\ c.thought = ch.thought
            /\ c.feedback = IF reply = "text" THEN "text" ELSE "none"
        BY <1>0 DEF Channels
      <3>2. Commit(c, n, m)
        BY <1>7, <2>2 DEF Review
      <3> HIDE DEF c, m
      <3>3. /\ n # "hitl_step_review"
            /\ n # "chain_remediate"
            /\ n = "act" => /\ reply \notin {"text", "no"}
                           /\ ch.thought.sig \notin {"analysis_done",
                                                    "remediation_done"}
            /\ n = "report" => /\ reply \notin {"text", "no"}
                              /\ ch.thought.sig = "remediation_done"
        BY <3>1 DEF RouteReview
      <3> HIDE DEF n
      <3>4. /\ verdict = [id |-> ch.shown, kind |-> KindShown, reply |-> reply,
                          uses |-> 0]
            /\ ch.task = "interrupted"
        BY <2>2 DEF PermissionInv, ReplyIsVerdict
      <3>5. /\ ch.shown = ch.thought.id
            /\ KindShown = ch.thought.sig
            /\ ch.thought.sig \in Signal
        BY <1>7, <3>4
        DEF Review, Ready, PermissionInv, ReviewShowsThought, ShowsThought, KindShown
      <3>6. verdict' = verdict
        BY <1>7 DEF Review, history
      <3>7. reply \in Reply
        BY <2>2, Zenon DEF TypeOK
      <3>8. reply \notin {"text", "no"} => reply \in {"yes", "go", "modify", "auto"}
        BY <3>7 DEF Reply
      <3> QED
        BY <3>1, <3>2, <3>3, <3>4, <3>5, <3>6, <3>8, CommitPermission DEF Signal
    <2> QED
      BY <1>7, <2>1, <2>2 DEF Review, Interrupt
  <1>8. CASE Act
    BY <1>0, <1>8, CommitPermission DEF Act
  <1>9. CASE Observe
    <2>1. [ch EXCEPT !.hist = ch.hist + 1] \in Channels
      BY <1>0 DEF Channels
    <2> QED
      BY <1>9, <2>1, CommitPermission DEF Observe
  <1>10. CASE AnalysisSummary
    <2>1. CASE Interrupt(0)
      BY <1>0, <1>10, <2>1, InterruptPermission DEF AnalysisSummary, Ready
    <2>2. CASE Commit(ch, RouteSummary(reply), metrics)
      <3>1. RouteSummary(reply) \in {"propose_fix", "end"}
        BY DEF RouteSummary
      <3> QED
        BY <1>0, <2>2, <3>1, CommitPermission
    <2> QED
      BY <1>10, <2>1, <2>2 DEF AnalysisSummary
  <1>11. CASE ProposeFix
    <2>1. CASE Interrupt(Draft)
      BY <1>0, <1>11, <2>1, InterruptPermission DEF ProposeFix, Ready
    <2>2. CASE reply # "none" /\ ~Interrupt(Draft)
      <3> DEFINE c == Proposed(Draft)
                 n == RouteProposal(c, reply)
                 m == IF reply = "no" /\ ch.cacheHit # "true" THEN "escalated"
                                                             ELSE metrics
      <3>1. Draft \in Nat
        <4>1. fresh \in Nat
          BY DEF TypeOK
        <4> QED
          BY <1>0, <4>1 DEF Draft, Channels
      <3>2. /\ c \in Channels
            /\ c.feedback = IF reply \in {"text", "go"} THEN "text" ELSE "none"
        <4> DEFINE d == [ch EXCEPT !.plan = Draft]
        <4>1. d \in Channels
          BY <1>0, <3>1 DEF Channels
        <4> HIDE DEF d
        <4>2. \A b \in {"none", "text"} :
                /\ [d EXCEPT !.feedback = b] \in Channels
                /\ [d EXCEPT !.feedback = b].feedback = b
                /\ [d EXCEPT !.feedback = b, !.cacheHit = "false",
                             !.cached = 0] \in Channels
                /\ [d EXCEPT !.feedback = b, !.cacheHit = "false",
                             !.cached = 0].feedback = b
          BY <4>1 DEF Channels
        <4> QED
          BY <4>2 DEF Proposed, d
      <3>3. Commit(c, n, m)
        BY <1>11, <2>2 DEF ProposeFix
      <3> HIDE DEF c, m
      <3>4. /\ n \in {"propose_fix", "think", "end", "report"}
            /\ n = "report" => reply \notin {"text", "go", "no"}
        BY <3>2 DEF RouteProposal
      <3> HIDE DEF n
      <3>5. /\ verdict = [id |-> ch.shown, kind |-> KindShown, reply |-> reply,
                          uses |-> 0]
        BY <2>2 DEF PermissionInv, ReplyIsVerdict
      <3>6. KindShown = "fix"
        BY <1>11 DEF ProposeFix, Ready, KindShown
      <3>7. verdict' = verdict
        BY <1>11 DEF ProposeFix, history
      <3>8. reply \in Reply
        BY <2>2, Zenon DEF TypeOK
      <3>9. reply \notin {"text", "go", "no"} => reply \in {"yes", "modify"}
        BY <3>8 DEF Reply
      <3> QED
        BY <3>2, <3>3, <3>4, <3>5, <3>6, <3>7, <3>9, CommitPermission
    <2> QED
      BY <1>11, <2>1, <2>2 DEF ProposeFix, Interrupt
  <1>12. CASE Report
    <2>1. PermitsChain(verdict) /\ verdict' = verdict
      BY <1>12 DEF Report, Ready, PermissionInv, ChainIsPermitted, history
    <2> QED
      BY <1>0, <1>12, <2>1, CommitPermission DEF Report, PermitsChain
  <1>13. CASE ChainRemediate
    BY <1>0, <1>13, CommitPermission DEF ChainRemediate
  <1>14. CASE Fails
    <2>1. ShowsThought(ch)'
      BY <1>14 DEF Fails, PermissionInv, ReviewShowsThought, ShowsThought
    <2> QED
      BY <1>14, <2>1, EndPermission DEF Fails
  <1>15. CASE Invoke
    <2>1. ch'.next = "manage_context" /\ ckpt' = ckpt /\ reply' = "none"
      BY <1>0, <1>15 DEF Invoke, Channels
    <2> QED
      BY <2>1 DEF PermissionInv, ReplyIsVerdict, ReviewShowsThought, ShowsThought,
                  ActIsPermitted, ChainIsPermitted
  <1>16. ASSUME NEW r \in Replies, Resume(r) PROVE PermissionInv'
    <2>1. /\ ch' = ch
          /\ ckpt' = ckpt
          /\ ch.task = "interrupted"
          /\ ch.next \in Asking
          /\ live'
          /\ verdict' = [id |-> ch.shown, kind |-> KindShown, reply |-> reply',
                         uses |-> 0]
      BY <1>0, <1>16 DEF Resume
    <2>2. ReplyIsVerdict'
      BY <2>1 DEF ReplyIsVerdict, KindShown
    <2>3. ReviewShowsThought'
      BY <2>1 DEF PermissionInv, ReviewShowsThought, ShowsThought
    <2>4. ActIsPermitted' /\ ChainIsPermitted'
      BY <2>1 DEF ActIsPermitted, ChainIsPermitted, Asking
    <2> QED
      BY <2>2, <2>3, <2>4 DEF PermissionInv
  <1>17. CASE Persist
    <2>1. ch' = ch /\ ckpt' = ch /\ call' = call /\ verdict' = verdict
      BY <1>17 DEF Persist, history
    <2> QED
      BY <2>1 DEF call, PermissionInv, ReplyIsVerdict, KindShown, ReviewShowsThought,
                  ShowsThought, ActIsPermitted, Permits, ChainIsPermitted,
                  PermitsChain
  <1>18. CASE Crash
    <2>1. ch' = ckpt /\ ckpt' = ckpt /\ ~live' /\ reply' = "none"
      BY <1>18 DEF Crash
    <2> QED
      BY <2>1 DEF PermissionInv, ReplyIsVerdict, ReviewShowsThought, ShowsThought,
                  ActIsPermitted, ChainIsPermitted
  <1>19. CASE UNCHANGED vars
    <2>1. ch' = ch /\ ckpt' = ckpt /\ call' = call /\ verdict' = verdict
      BY <1>19 DEF vars, history
    <2> QED
      BY <2>1 DEF call, PermissionInv, ReplyIsVerdict, KindShown, ReviewShowsThought,
                  ShowsThought, ActIsPermitted, Permits, ChainIsPermitted,
                  PermitsChain
  <1> QED
    BY <1>1, <1>2, <1>3, <1>4, <1>5, <1>6, <1>7, <1>8, <1>9, <1>10, <1>11, <1>12,
       <1>13, <1>14, <1>15, <1>16, <1>17, <1>18, <1>19
    DEF Next, Execute, NodeRaises, RecursionError

\* The permission invariant, for every instance of the specification.
THEOREM PermissionCorrect == Spec => []PermissionInv
  BY PermissionInit, PermissionStep, TypeCorrect, PTL DEF Spec

\* Where the two counters can grow: the call stands at the node, alive.
LEMMA EffectsAtNodes ==
  ASSUME TypeOK, [Next]_vars
  PROVE  /\ acts' > acts => live /\ ch.next = "act"
         /\ chains' > chains => live /\ ch.next = "chain_remediate"
  <1>1. acts \in Nat /\ chains \in Nat
    BY DEF TypeOK
  <1>2. CASE Act
    BY <1>1, <1>2 DEF Act, Ready
  <1>3. CASE ChainRemediate
    BY <1>1, <1>3 DEF ChainRemediate, Ready
  <1>4. CASE Crash
    BY <1>1, <1>4 DEF Crash, CutShort
  <1>7. CASE NodeRaises
    BY <1>1, <1>7 DEF NodeRaises, CutShort
  <1>5. CASE UNCHANGED <<acts, chains>>
    BY <1>1, <1>5
  <1>6. [Next]_vars => \/ Act \/ ChainRemediate \/ Crash \/ NodeRaises
                       \/ UNCHANGED <<acts, chains>>
    BY DEF Next, Execute, vars, history, ManageContext, ExtractIntent, Clarify,
           CheckPlanCache, Think, AutoApprove, Review, Observe, AnalysisSummary,
           ProposeFix, Report, RecursionError, Invoke, Resume, Persist
  <1> QED
    BY <1>2, <1>3, <1>4, <1>5, <1>6, <1>7

\* Every tool call has an answer of its own that permits it, crashes or not.
THEOREM ToolCallsNeedPermission == Spec => ToolCallsPermitted
  <1>1. TypeOK /\ PermissionInv /\ [Next]_vars
          => [acts' > acts => Permits(verdict)]_vars
    BY EffectsAtNodes DEF PermissionInv, ActIsPermitted
  <1> QED
    BY <1>1, TypeCorrect, PermissionCorrect, PTL DEF Spec, ToolCallsPermitted

\* Every call of the remediation agent has one.
THEOREM ChainNeedsPermission == Spec => ChainPermitted
  <1>1. TypeOK /\ PermissionInv /\ [Next]_vars
          => [chains' > chains => PermitsChain(verdict)]_vars
    BY EffectsAtNodes DEF PermissionInv, ChainIsPermitted
  <1> QED
    BY <1>1, TypeCorrect, PermissionCorrect, PTL DEF Spec, ChainPermitted
-----------------------------------------------------------------------------
(* Memory of tool calls.                                                   *)

\* A completed node that leaves the step history alone does not lose a call.
LEMMA CommitRemembers ==
  ASSUME TypeOK, ToolCallsRemembered, NEW c \in Channels, NEW n, NEW m, Commit(c, n, m),
         c.hist = ch.hist, ch.next # "observe", UNCHANGED <<acts, crashed, failures>>
  PROVE  ToolCallsRemembered'
  <1>1. ch'.hist = ch.hist
    BY DEF Commit, Channels
  <1>2. ch.hist \in Nat /\ acts \in Nat /\ failures \in Nat
    BY DEF TypeOK, Channels
  <1> QED
    BY <1>1, <1>2 DEF ToolCallsRemembered

\* Nor does a node that stops to ask.
LEMMA InterruptRemembers ==
  ASSUME TypeOK, ToolCallsRemembered, NEW text, Interrupt(text), ch.next # "observe",
         UNCHANGED <<acts, crashed, failures>>
  PROVE  ToolCallsRemembered'
  <1>1. ch'.hist = ch.hist
    BY DEF TypeOK, Interrupt, Channels
  <1>2. ch.hist \in Nat /\ acts \in Nat /\ failures \in Nat
    BY DEF TypeOK, Channels
  <1> QED
    BY <1>1, <1>2 DEF ToolCallsRemembered

\* Every step remembers the calls; only act makes one, and the node it goes on to
\* records it, unless the call fails there.
LEMMA RememberStep ==
  ASSUME TypeOK, ToolCallsRemembered, [Next]_vars
  PROVE  ToolCallsRemembered'
  <1>0. /\ ch \in Channels /\ ch.hist \in Nat
        /\ fresh + 1 \in Nat /\ acts \in Nat /\ failures \in Nat
    BY DEF TypeOK, Channels
  <1>1. CASE ManageContext
    BY <1>0, <1>1, CommitRemembers DEF ManageContext, Ready, history
  <1>2. CASE ExtractIntent
    <2>1. [ch EXCEPT !.intent = "set"] \in Channels
           /\ [ch EXCEPT !.intent = "set"].hist = ch.hist
      BY <1>0 DEF Channels
    <2> QED
      BY <1>2, <2>1, CommitRemembers DEF ExtractIntent, Ready, history
  <1>3. CASE Clarify
    <2>1. [ch EXCEPT !.clar = ch.clar + 1] \in Channels
           /\ [ch EXCEPT !.clar = ch.clar + 1].hist = ch.hist
      BY <1>0 DEF Channels
    <2> QED
      BY <1>3, <2>1, CommitRemembers, InterruptRemembers DEF Clarify, Ready, history
  <1>4. CASE CheckPlanCache
    <2>1. [ch EXCEPT !.cacheHit = "true", !.cached = fresh + 1] \in Channels
           /\ [ch EXCEPT !.cacheHit = "true", !.cached = fresh + 1].hist = ch.hist
      BY <1>0 DEF Channels
    <2> QED
      BY <1>0, <1>4, <2>1, CommitRemembers DEF CheckPlanCache, Ready, history
  <1>5. CASE Think
    <2>1. PICK sig \in Signal :
            Commit([ch EXCEPT !.thought = [id |-> fresh + 1, sig |-> sig],
                              !.feedback = "none"], "hitl_step_review", metrics)
      BY <1>5 DEF Think
    <2> DEFINE c == [ch EXCEPT !.thought = [id |-> fresh + 1, sig |-> sig],
                               !.feedback = "none"]
    <2>2. c \in Channels /\ c.hist = ch.hist
      BY <1>0 DEF Channels, Thought
    <2> HIDE DEF c
    <2> QED
      BY <1>5, <2>1, <2>2, CommitRemembers DEF Think, Ready, history, c
  <1>6. CASE AutoApprove
    <2>1. [ch EXCEPT !.feedback = "none"] \in Channels
           /\ [ch EXCEPT !.feedback = "none"].hist = ch.hist
      BY <1>0 DEF Channels
    <2> QED
      BY <1>6, <2>1, CommitRemembers DEF AutoApprove, Ready
  <1>7. CASE Review
    <2> DEFINE c == [ch EXCEPT !.feedback = IF reply = "text" THEN "text" ELSE "none"]
    <2>1. c \in Channels /\ c.hist = ch.hist
      BY <1>0 DEF Channels
    <2>2. \/ Interrupt(ch.thought.id)
          \/ Commit(c, RouteReview(c, reply),
                    IF reply = "no" THEN "escalated" ELSE metrics)
      BY <1>7 DEF Review
    <2> HIDE DEF c
    <2> QED
      BY <1>7, <2>1, <2>2, CommitRemembers, InterruptRemembers DEF Review, Ready, history
  <1>8. CASE Act
    <2>1. Commit(ch, "observe", metrics) /\ live /\ ch.next = "act"
      BY <1>8 DEF Act, Ready
    <2>2. ch'.hist = ch.hist /\ ch'.next = "observe" /\ live'
      BY <1>0, <2>1 DEF Commit, Channels
    <2>3. acts' \in {acts, acts + 1} /\ UNCHANGED <<crashed, failures>>
      BY <1>8 DEF Act
    <2> QED
      BY <1>0, <2>1, <2>2, <2>3 DEF ToolCallsRemembered
  <1>9. CASE Observe
    <2>1. ch'.hist = ch.hist + 1 /\ ch'.next = "think"
      BY <1>0, <1>9 DEF Observe, Commit, Channels
    <2> QED
      BY <1>0, <1>9, <2>1 DEF Observe, history, ToolCallsRemembered
  <1>10. CASE AnalysisSummary
    BY <1>0, <1>10, CommitRemembers, InterruptRemembers DEF AnalysisSummary, Ready, history
  <1>11. CASE ProposeFix
    <2>1. Proposed(Draft) \in Channels /\ Proposed(Draft).hist = ch.hist
      <3>1. Draft \in Nat
        BY <1>0 DEF TypeOK, Draft, Channels
      <3> DEFINE c == [ch EXCEPT !.plan = Draft]
      <3>2. c \in Channels /\ c.hist = ch.hist
        BY <1>0, <3>1 DEF Channels
      <3> HIDE DEF c
      <3>3. \A b \in {"none", "text"} :
              /\ [c EXCEPT !.feedback = b] \in Channels
              /\ [c EXCEPT !.feedback = b].hist = c.hist
              /\ [c EXCEPT !.feedback = b, !.cacheHit = "false", !.cached = 0] \in Channels
              /\ [c EXCEPT !.feedback = b, !.cacheHit = "false", !.cached = 0].hist = c.hist
        BY <3>2 DEF Channels
      <3> QED
        BY <3>2, <3>3 DEF Proposed, c
    <2> QED
      BY <1>11, <2>1, CommitRemembers, InterruptRemembers DEF ProposeFix, Ready, history
  <1>12. CASE Report
    BY <1>0, <1>12, CommitRemembers DEF Report, Ready, history
  <1>13. CASE ChainRemediate
    BY <1>0, <1>13, CommitRemembers DEF ChainRemediate, Ready
  <1>14. CASE NodeRaises \/ RecursionError
    <2>1. /\ ch' = ch /\ ~live' /\ crashed' = crashed /\ failures' = failures + 1
          /\ acts' = acts \/ (acts' = acts + 1 /\ ch.next = "act")
      BY <1>14 DEF NodeRaises, RecursionError, CutShort, Fails, EndCall
    <2> QED
      BY <1>0, <2>1 DEF ToolCallsRemembered
  <1>15. CASE Invoke
    <2>1. ch'.hist = ch.hist /\ ~live
      BY <1>0, <1>15 DEF Invoke, Channels
    <2> QED
      BY <1>0, <1>15, <2>1 DEF Invoke, history, ToolCallsRemembered
  <1>16. CASE \E r \in Replies : Resume(r)
    BY <1>0, <1>16 DEF Resume, ToolCallsRemembered
  <1>17. CASE Persist \/ UNCHANGED vars
    BY <1>0, <1>17 DEF Persist, call, vars, history, ToolCallsRemembered
  <1>18. CASE Crash
    BY <1>18 DEF Crash, ToolCallsRemembered
  <1> QED
    BY <1>1, <1>2, <1>3, <1>4, <1>5, <1>6, <1>7, <1>8, <1>9, <1>10, <1>11, <1>12,
       <1>13, <1>14, <1>15, <1>16, <1>17, <1>18 DEF Next, Execute

\* While no process dies, the agent's step history misses no tool call but those of
\* calls that failed, for any recursion limit and any number of calls.
THEOREM CallsRemembered == Spec => []ToolCallsRemembered
  <1>1. Init => ToolCallsRemembered
    BY DEF Init, NewThread, ToolCallsRemembered
  <1>2. TypeOK /\ ToolCallsRemembered /\ [Next]_vars => ToolCallsRemembered'
    BY RememberStep
  <1> QED
    BY <1>1, <1>2, TypeCorrect, PTL DEF Spec
=============================================================================

----------------------------- MODULE AgentGraph -----------------------------
(***************************************************************************)
(* One conversation thread of the SRE agent: the LangGraph graph of         *)
(* agent/graph/builder.py with its nodes (agent/nodes/) and routing         *)
(* functions (agent/graph/routes.py), run by calls of /graph/invoke/stream  *)
(* and /graph/resume/stream (worker_agent/main.py).                         *)
(*                                                                         *)
(* A node is one action: it reads the channels and its updates are applied  *)
(* together with the choice of the next node.  A node that calls            *)
(* interrupt() ends the call there, and is executed again FROM ITS FIRST    *)
(* LINE when a reply comes; only then do its updates take effect.  The      *)
(* checkpointer writes behind the execution, and catches up when a call     *)
(* ends: a crash takes the thread back to the last channels it wrote.       *)
(*                                                                         *)
(* What an LLM writes is a number, new for each text (fresh); what it and   *)
(* the tools decide is a choice.  The channels that only feed prompts       *)
(* (messages, phase, findings, last_act_result, report) are left out, and   *)
(* so is hitl_response: every node that is followed by a route that reads   *)
(* it sets it, so that the routes have it as their argument.               *)
(*                                                                         *)
(* History variables: verdict, acts, chains, crashed, failures.  No action  *)
(* reads them.                                                             *)
(***************************************************************************)
EXTENDS Naturals

CONSTANTS
  Replies,         \* what the user may answer, a subset of Reply
  AutoModes,       \* values of auto_approve in requests, a subset of BOOLEAN
  CacheWired,      \* whether the config names a session_factory
  RecursionLimit,  \* recursion_limit: supersteps of one call
  MaxCalls         \* bound: calls of invoke and resume

\* Classes of replies:
\*   yes      an approval in the lists of all nodes
\*   go       an approval in the lists of routes.py and hitl_step_review.py, but
\*            not in that of propose_fix.py
\*   no       a rejection
\*   modify   the word "modify" and nothing else
\*   text     feedback: "modify" with a text, or any other text
Reply == {"yes", "go", "no", "modify", "text"}

ASSUME GraphAssumption ==
  /\ Replies \subseteq Reply
  /\ AutoModes \subseteq BOOLEAN
  /\ CacheWired \in BOOLEAN
  /\ RecursionLimit \in Nat
  /\ MaxCalls \in Nat

VARIABLES
  ch,        \* the channels of the thread, as the running call sees them
  ckpt,      \* the same, as the checkpointer has them
  live,      \* a call is executing the graph
  auto,      \* its auto_approve
  reply,     \* the reply it was resumed with, until interrupt() returns it
  steps,     \* supersteps it has made
  fresh,     \* texts written by the LLM so far
  metrics,   \* the thread's metrics collector: none, open, escalated, resolved
  calls,     \* calls so far
  \* history
  verdict,   \* the last answer to something the graph proposed
  acts,      \* tool calls dispatched
  chains,    \* calls of the remediation agent
  crashed,   \* a call has died with its process
  failures   \* calls that ended with an exception

call    == <<live, auto, reply, steps>>
history == <<verdict, acts, chains, crashed, failures>>
vars    == <<ch, ckpt, call, fresh, metrics, calls, history>>

Metrics == {"none", "open", "escalated", "resolved"}
Signal  == {"tool", "analysis_done", "remediation_done"}
Node    == {"manage_context", "extract_intent", "clarify", "check_plan_cache",
            "think", "hitl_step_review", "act", "observe", "analysis_summary",
            "propose_fix", "report", "chain_remediate"}
Asking  == {"clarify", "hitl_step_review", "analysis_summary", "propose_fix"}
Answer  == Reply \union {"none", "auto"}
Thought == [id : Nat, sig : Signal \union {"none"}]

Channels == [intent    : {"none", "set"},
             clar      : Nat,       \* clarification_attempts
             cacheHit  : {"unset", "true", "false"},  \* plan_cache_hit
             cached    : Nat,       \* cached_plan_proposal
             feedback  : {"none", "text"},  \* hitl_feedback; "none": None or ""
             thought   : Thought,   \* current_thought
             plan      : Nat,       \* remediation_plan
             hist      : Nat,       \* length of step_history
             next      : Node \union {"end"},         \* the node to execute
             task      : {"ready", "interrupted"},    \* how far it is
             shown     : Nat]       \* the text in the payload of the interrupt

\* What was answered, of which kind, how, and how often it was acted upon.
Verdict == [id : Nat, kind : Signal \union {"none", "clarify", "summary", "fix"},
            reply : Answer, uses : Nat]

NewThread == [intent |-> "none", clar |-> 0, cacheHit |-> "unset", cached |-> 0,
              feedback |-> "none",
              thought |-> [id |-> 0, sig |-> "none"], plan |-> 0, hist |-> 0,
              next |-> "end", task |-> "ready", shown |-> 0]

Init ==
  /\ ch = NewThread
  /\ ckpt = NewThread
  /\ live = FALSE
  /\ auto = FALSE
  /\ reply = "none"
  /\ steps = 0
  /\ fresh = 0
  /\ metrics = "none"
  /\ calls = 0
  /\ verdict = [id |-> 0, kind |-> "none", reply |-> "none", uses |-> 0]
  /\ acts = 0
  /\ chains = 0
  /\ crashed = FALSE
  /\ failures = 0

-----------------------------------------------------------------------------
(* The runtime of the graph.                                               *)

\* The call ends, after the checkpointer caught up with it.
EndCall ==
  /\ live' = FALSE
  /\ reply' = "none"
  /\ steps' = 0
  /\ ckpt' = ch'

Ready(n) == live /\ ch.next = n /\ steps < RecursionLimit

\* The node's updates make the channels c, and n is the next node; the collector
\* is then m, or dropped by publish_stream() when the graph is done.
Commit(c, n, m) ==
  /\ ch' = [c EXCEPT !.next = n, !.task = "ready", !.shown = 0]
  /\ metrics' = IF n = "end" THEN "none" ELSE m
  /\ IF n = "end"
       THEN EndCall
       ELSE reply' = "none" /\ steps' = steps + 1 /\ UNCHANGED <<live, ckpt>>
  /\ UNCHANGED auto

\* The node calls interrupt() and there is no reply for it: the call ends.
Interrupt(text) ==
  /\ reply = "none"
  /\ ch' = [ch EXCEPT !.task = "interrupted", !.shown = text]
  /\ EndCall
  /\ UNCHANGED <<auto, metrics>>

-----------------------------------------------------------------------------
(* Routing (routes.py).                                                    *)

\* vague: the intent is ambiguous, or of a confidence below 0.7.
RouteIntent(c, vague) ==
  IF vague /\ c.clar < 2 THEN "clarify" ELSE "check_plan_cache"

RouteCache(c) == IF c.cacheHit = "true" THEN "propose_fix" ELSE "think"

\* Faulty variant: the signal is looked at before the feedback.
RouteReviewBySignal(c, resp) ==
  IF resp = "no" THEN "end"
  ELSE CASE c.thought.sig = "analysis_done"    -> "analysis_summary"
         [] c.thought.sig = "remediation_done" -> "report"
         [] OTHER                              -> "act"

RouteReview(c, resp) ==
  CASE c.feedback = "text"                  -> "think"
    [] c.feedback = "none" /\ resp = "no"   -> "end"
    [] OTHER -> CASE c.thought.sig = "analysis_done"    -> "analysis_summary"
                  [] c.thought.sig = "remediation_done" -> "report"
                  [] OTHER                              -> "act"

RouteSummary(resp) == IF resp \in {"yes", "go"} THEN "propose_fix" ELSE "end"

\* Faulty variant: what is not feedback is taken for an approval.
RouteProposalNoReject(c, resp) ==
  IF c.feedback = "text" THEN "propose_fix" ELSE "report"

RouteProposal(c, resp) ==
  CASE c.feedback = "text"                  -> "propose_fix"
    [] c.feedback = "none" /\ resp = "no"   ->
         IF c.cacheHit = "false" THEN "think" ELSE "end"
    [] OTHER                                -> "report"

-----------------------------------------------------------------------------
(* The nodes.                                                              *)

ManageContext ==
  /\ Ready("manage_context")
  /\ Commit(ch, "extract_intent", metrics)
  /\ UNCHANGED <<fresh, calls, history>>

\* The collector of the thread starts (again) each time the intent is extracted.
ExtractIntent ==
  /\ Ready("extract_intent")
  /\ \E vague \in BOOLEAN :
       Commit([ch EXCEPT !.intent = "set"], RouteIntent(ch, vague), "open")
  /\ UNCHANGED <<fresh, calls, history>>

Clarify ==
  /\ Ready("clarify")
  /\ \/ Interrupt(0)
     \/ reply # "none" /\ Commit([ch EXCEPT !.clar = ch.clar + 1],
                                 "extract_intent", metrics)
  /\ UNCHANGED <<fresh, calls, history>>

\* A miss updates no channel: plan_cache_hit keeps the value it had.
CheckPlanCache ==
  /\ Ready("check_plan_cache")
  /\ \/ Commit(ch, RouteCache(ch), metrics) /\ UNCHANGED fresh
     \/ /\ CacheWired
        /\ fresh' = fresh + 1
        /\ Commit([ch EXCEPT !.cacheHit = "true", !.cached = fresh + 1],
                  "propose_fix", metrics)
  /\ UNCHANGED <<calls, history>>

Think ==
  /\ Ready("think")
  /\ fresh' = fresh + 1
  /\ \E sig \in Signal :
       Commit([ch EXCEPT !.thought = [id |-> fresh + 1, sig |-> sig],
                         !.feedback = "none"],
              "hitl_step_review", metrics)
  /\ UNCHANGED <<calls, history>>

\* hitl_step_review with auto_approve: it approves without asking, and without
\* reading the reply the call may have been resumed with.
AutoApprove ==
  /\ Ready("hitl_step_review")
  /\ auto
  /\ LET c == [ch EXCEPT !.feedback = "none"]
     IN Commit(c, RouteReview(c, "yes"), metrics)
  /\ verdict' = IF reply # "none" THEN verdict
                ELSE [id |-> ch.thought.id, kind |-> ch.thought.sig,
                      reply |-> "auto", uses |-> 0]
  /\ UNCHANGED <<fresh, calls, acts, chains, crashed, failures>>

\* hitl_step_review: the feedback of a bare "modify" is the empty string.
Review ==
  /\ Ready("hitl_step_review")
  /\ ~auto
  /\ \/ Interrupt(ch.thought.id)
     \/ /\ reply # "none"
        /\ LET given == IF reply = "text" THEN "text" ELSE "none"
               c     == [ch EXCEPT !.feedback = given]
           IN Commit(c, RouteReview(c, reply),
                     IF reply = "no" THEN "escalated" ELSE metrics)
  /\ UNCHANGED <<fresh, calls, history>>

\* act: the tool is dispatched, or the policy gate, a missing dispatcher or a
\* tool that is not registered keeps it from being called.
Act ==
  /\ Ready("act")
  /\ Commit(ch, "observe", metrics)
  /\ \/ /\ acts' = acts + 1
        /\ verdict' = [verdict EXCEPT !.uses = verdict.uses + 1]
     \/ UNCHANGED <<acts, verdict>>
  /\ UNCHANGED <<fresh, calls, chains, crashed, failures>>

Observe ==
  /\ Ready("observe")
  /\ Commit([ch EXCEPT !.hist = ch.hist + 1], "think", metrics)
  /\ UNCHANGED <<fresh, calls, history>>

AnalysisSummary ==
  /\ Ready("analysis_summary")
  /\ \/ Interrupt(0)
     \/ reply # "none" /\ Commit(ch, RouteSummary(reply), metrics)
  /\ UNCHANGED <<fresh, calls, history>>

\* The plan propose_fix has in hand: the cached one, or a text the LLM writes, a
\* new one each time the node is executed.
Draft ==
  IF ch.cacheHit = "true" /\ ch.feedback = "none" THEN ch.cached ELSE fresh + 1

\* propose_fix when the reply came: only the lists of propose_fix itself count
\* here, and "go" is in none of them.
Proposed(draft) ==
  LET c == [ch EXCEPT !.plan = draft] IN
  CASE reply \in {"modify", "text", "go"} ->
         [c EXCEPT !.feedback = IF reply = "modify" THEN "none" ELSE "text",
                   !.cacheHit = "false",
                   !.cached = 0]
    [] reply = "no" /\ ch.cacheHit = "true" ->
         [c EXCEPT !.feedback = "none", !.cacheHit = "false", !.cached = 0]
    [] OTHER -> [c EXCEPT !.feedback = "none"]

ProposeFix ==
  /\ Ready("propose_fix")
  /\ fresh' = IF Draft = fresh + 1 THEN fresh + 1 ELSE fresh
  /\ \/ Interrupt(Draft)
     \/ /\ reply # "none"
        /\ Commit(Proposed(Draft), RouteProposal(Proposed(Draft), reply),
                  IF reply = "no" /\ ch.cacheHit # "true" THEN "escalated"
                                                          ELSE metrics)
  /\ UNCHANGED <<calls, history>>

Report ==
  /\ Ready("report")
  /\ Commit(ch, "chain_remediate", "resolved")
  /\ UNCHANGED <<fresh, calls, history>>

\* The findings and the plan go to the remediation agent, unless the token
\* exchange or the call fails, which the node swallows.
ChainRemediate ==
  /\ Ready("chain_remediate")
  /\ Commit(ch, "end", metrics)
  /\ \/ /\ chains' = chains + 1
        /\ verdict' = [verdict EXCEPT !.uses = verdict.uses + 1]
     \/ UNCHANGED <<chains, verdict>>
  /\ UNCHANGED <<fresh, calls, acts, crashed, failures>>

-----------------------------------------------------------------------------
(* Calls and their failures.                                               *)

\* Faulty variants: a new message starts from empty channels; a new message leaves
\* the interrupt of the thread pending.
InvokeEmpty ==
  /\ ~live
  /\ calls < MaxCalls
  /\ calls' = calls + 1
  /\ live' = TRUE
  /\ auto' \in AutoModes
  /\ ch' = [NewThread EXCEPT !.next = "manage_context"]
  /\ UNCHANGED <<ckpt, reply, steps, fresh, metrics, history>>

InvokeKeepingInterrupt ==
  /\ ~live
  /\ calls < MaxCalls
  /\ calls' = calls + 1
  /\ live' = TRUE
  /\ auto' \in AutoModes
  /\ ch' = [ch EXCEPT !.next = "manage_context"]
  /\ UNCHANGED <<ckpt, reply, steps, fresh, metrics, history>>

\* /graph/invoke/stream: the message is put into the channels of the thread, the
\* others keep their values, and the graph starts from its entry point.
Invoke ==
  /\ ~live
  /\ calls < MaxCalls
  /\ calls' = calls + 1
  /\ live' = TRUE
  /\ auto' \in AutoModes
  /\ ch' = [ch EXCEPT !.next = "manage_context", !.task = "ready", !.shown = 0]
  /\ UNCHANGED <<ckpt, reply, steps, fresh, metrics, history>>

KindShown == CASE ch.next = "clarify"          -> "clarify"
               [] ch.next = "hitl_step_review" -> ch.thought.sig
               [] ch.next = "analysis_summary" -> "summary"
               [] OTHER                        -> "fix"

\* /graph/resume/stream with a reply.  A collector that was lost is started
\* again, once the thread has an intent.
Resume(r) ==
  /\ ~live
  /\ ch.task = "interrupted"
  /\ calls < MaxCalls
  /\ calls' = calls + 1
  /\ live' = TRUE
  /\ auto' \in AutoModes
  /\ reply' = r
  /\ metrics' = IF metrics = "none" /\ ch.intent = "set" THEN "open" ELSE metrics
  /\ verdict' = [id |-> ch.shown, kind |-> KindShown, reply |-> r, uses |-> 0]
  /\ UNCHANGED <<ch, ckpt, steps, fresh, acts, chains, crashed, failures>>

\* The node that is cut short may have called its tool, or the remediation agent.
CutShort ==
  \/ /\ ch.next = "act" /\ steps < RecursionLimit
     /\ acts' = acts + 1
     /\ verdict' = [verdict EXCEPT !.uses = verdict.uses + 1]
     /\ UNCHANGED chains
  \/ /\ ch.next = "chain_remediate" /\ steps < RecursionLimit
     /\ chains' = chains + 1
     /\ verdict' = [verdict EXCEPT !.uses = verdict.uses + 1]
     /\ UNCHANGED acts
  \/ UNCHANGED <<acts, chains, verdict>>

\* An exception ends the call; publish_stream() drops the collector.  The
\* channels stay as the last completed superstep left them.
Fails ==
  /\ ch' = ch
  /\ EndCall
  /\ metrics' = "none"
  /\ failures' = failures + 1
  /\ UNCHANGED <<auto, fresh, calls, crashed>>

\* An LLM or registry call of the node raises, or publish() does for one of the
\* events of the node, whichever it is.
NodeRaises ==
  /\ live
  /\ steps < RecursionLimit
  /\ CutShort
  /\ Fails

\* Faulty variant: the limit is noticed one superstep late.
RecursionErrorLate ==
  live /\ steps > RecursionLimit /\ Fails /\ UNCHANGED <<acts, chains, verdict>>

\* GraphRecursionError: the call has used up its supersteps.
RecursionError ==
  live /\ steps = RecursionLimit /\ Fails /\ UNCHANGED <<acts, chains, verdict>>

\* The checkpointer writes what the running call has reached.
Persist ==
  /\ live
  /\ ckpt # ch
  /\ ckpt' = ch
  /\ UNCHANGED <<ch, call, fresh, metrics, calls, history>>

\* The process dies; the next one has the checkpoint and no collector.
Crash ==
  /\ live
  /\ ch' = ckpt
  /\ live' = FALSE
  /\ reply' = "none"
  /\ steps' = 0
  /\ metrics' = "none"
  /\ crashed' = TRUE
  /\ CutShort
  /\ UNCHANGED <<ckpt, auto, fresh, calls, failures>>

-----------------------------------------------------------------------------
Execute ==
  \/ ManageContext
  \/ ExtractIntent
  \/ Clarify
  \/ CheckPlanCache
  \/ Think
  \/ AutoApprove
  \/ Review
  \/ Act
  \/ Observe
  \/ AnalysisSummary
  \/ ProposeFix
  \/ Report
  \/ ChainRemediate
  \/ NodeRaises
  \/ RecursionError

Next ==
  \/ Invoke
  \/ \E r \in Replies : Resume(r)
  \/ Execute
  \/ Persist
  \/ Crash

Spec == Init /\ [][Next]_vars

\* A process that is up goes on executing the call: LLM and tool calls return or
\* raise.
FairSpec == Spec /\ WF_vars(Execute)

-----------------------------------------------------------------------------
(* Properties.                                                             *)

\* Every variable has its type; between calls the checkpoint is what the last
\* call left, and only the nodes that call interrupt() are ever waiting.
TypeOK ==
  /\ ch \in Channels
  /\ ckpt \in Channels
  /\ live \in BOOLEAN
  /\ auto \in BOOLEAN
  /\ reply \in Reply \union {"none"}
  /\ steps \in 0 .. RecursionLimit
  /\ fresh \in Nat
  /\ metrics \in Metrics
  /\ calls \in Nat
  /\ verdict \in Verdict
  /\ acts \in Nat
  /\ chains \in Nat
  /\ crashed \in BOOLEAN
  /\ failures \in Nat
  /\ ~live => ch = ckpt /\ reply = "none" /\ steps = 0
  /\ ch.task = "interrupted" => ch.next \in Asking
  /\ ckpt.task = "interrupted" => ckpt.next \in Asking

\* What lets a tool run: an answer to the very thought at hand that is neither a
\* rejection nor feedback, not yet spent on another run, or auto_approve.
Permits(v) ==
  /\ v.id = ch.thought.id
  /\ v.kind = "tool"
  /\ v.uses = 0
  /\ v.reply \in {"yes", "go", "modify", "auto"} \/ auto

\* The same for the remediation agent: a fix that was shown and not turned down, or
\* a finished remediation whose review was not.
PermitsChain(v) ==
  /\ v.uses = 0
  /\ \/ v.kind = "fix" /\ v.reply \in {"yes", "modify"}
     \/ /\ v.kind = "remediation_done"
        /\ v.id = ch.thought.id
        /\ v.reply \in {"yes", "go", "modify", "auto"} \/ auto

\* No tool call without an answer of its own, and none is repeated on an old
\* answer: not after feedback led to another thought, not on a thread that was
\* rolled back to its checkpoint by a crash, not when a failed thread is invoked
\* again.
ToolCallsPermitted == [][acts' > acts => Permits(verdict)]_vars

\* The remediation agent is called at most once for each proposed fix, and each
\* review of a finished remediation, that a user was shown and did not turn down.
ChainPermitted == [][chains' > chains => PermitsChain(verdict)]_vars

\* What makes the two action properties inductive.  A reply the call still carries
\* is the verdict on what the thread shows; what a review shows is the thought at
\* hand; and a call that is about to act has been permitted to.
ReplyIsVerdict ==
  reply # "none" =>
    /\ live
    /\ ch.task = "interrupted"
    /\ verdict = [id |-> ch.shown, kind |-> KindShown, reply |-> reply,
                  uses |-> 0]
ShowsThought(c) == c.next = "hitl_step_review" =>
                     /\ c.thought.sig \in Signal
                     /\ c.task = "interrupted" => c.shown = c.thought.id
ReviewShowsThought == ShowsThought(ch) /\ ShowsThought(ckpt)
ActIsPermitted == live /\ ch.next = "act" => Permits(verdict)
ChainIsPermitted ==
  live /\ ch.next \in {"report", "chain_remediate"} => PermitsChain(verdict)
PermissionInv == ReplyIsVerdict /\ ReviewShowsThought /\ ActIsPermitted
                   /\ ChainIsPermitted

\* As long as no process dies, a tool call that was made is in the step history
\* the agent reasons from, or about to be; a call that fails loses at most the
\* one it was about to record, or had just made.
ToolCallsRemembered ==
  ~crashed =>
    acts <= ch.hist + failures + (IF live /\ ch.next = "observe" THEN 1 ELSE 0)

\* A call ends: it stops to ask the user, finishes, or fails, however often the
\* LLM asks for one more tool.
CallsEnd == live ~> ~live

\* What hitl_step_review.py asks: "Approve / Modify <feedback> / Reject".  A tool
\* runs only if its thought was approved.
OnlyApprovedToolsRun ==
  [][acts' > acts => verdict.reply \in {"yes", "go", "auto"}]_vars

\* What propose_fix.py asks: "Proposed fix above. Approve / Modify <feedback> /
\* Reject".  The plan handed on after an approval is the one that was shown.
ApprovedPlanIsShownPlan ==
  live /\ ch.next = "report" /\ verdict.kind = "fix" => ch.plan = verdict.id
=============================================================================

---------------------------- MODULE ToolDispatch ----------------------------
(***************************************************************************)
(* ToolDispatcher.dispatch_with_url() (worker_agent/tools/dispatcher.py),   *)
(* by which the node act makes the calls the user approved: the contract of *)
(* the tool comes from the registry client, the answer maybe from a cache   *)
(* in Redis, otherwise from the tool.                                       *)
(*                                                                         *)
(* All calls here are of one tool with the same inputs, which is what the   *)
(* cache has in its key; which contract the tool had is not in it.  The     *)
(* contract a version of the registry has is given by constants.  Ticks are *)
(* those of RegistryClient: longer than the timeouts of a call.             *)
(*                                                                         *)
(* The fields old are history: how many ticks ago an answer was made.       *)
(***************************************************************************)
EXTENDS RegistryClient

CONSTANTS
  Builtin,   \* the versions with a builtin tool, whose answers are not cached
  Secured,   \* those with a tool that needs a secret
  Canned,    \* those with a synthetic response, while USE_SYNTHETIC_DATA is set
  ToolTtl    \* tool_cache_ttl in ticks

ASSUME DispatchAssumption ==
  /\ Builtin \cup Secured \cup Canned \subseteq Version
  /\ ToolTtl \in Nat \ {0}

VARIABLES
  call,       \* call[c]: the call of a tool c makes
  responses   \* the entry of the cache: the contract it was made by, and the ticks left

toolVars == <<call, responses>>
vars     == <<clientVars, toolVars>>

\* contract: in list_tools(); cache, store: awaits the GET or SET of Redis; hit: the
\* answer of Redis is under way; secret: awaits the credentials; run: awaits the tool.
CallPc == {"none", "contract", "cache", "hit", "secret", "run", "store", "done", "failed"}
Call   == [pc : CallPc, v : Version, old : 0 .. MaxAge, late : BOOLEAN]
NoCall == [pc |-> "none", v |-> 0, old |-> 0, late |-> FALSE]

Response   == [v : Version, left : 0 .. ToolTtl, old : 0 .. MaxAge]
NoResponse == [v |-> 0, left |-> 0, old |-> 0]

Init ==
  /\ InitClient
  /\ call = [c \in Callers |-> NoCall]
  /\ responses = NoResponse

Running(c) == call[c].pc \in {"cache", "hit", "secret", "run", "store"}

-----------------------------------------------------------------------------
Set(c, r, pc) == call' = [call EXCEPT ![c] = [r EXCEPT !.pc = pc]]
End(c, r, pc) == call' = [call EXCEPT ![c] = [r EXCEPT !.pc = pc, !.late = FALSE]]

\* The executors: credentials are resolved first where the contract has a reference.
Execute(c, r) == Set(c, r, IF r.v \in Secured THEN "secret" ELSE "run")

\* act calls the dispatcher, and that the client, for the list of all tools.
Dispatch(c) ==
  /\ call[c].pc = "none"
  /\ LookUp(c, "tools")
  /\ call' = [call EXCEPT ![c].pc = "contract"]
  /\ UNCHANGED responses

\* The list is there: a tool that is not in it, or no list, is an error.
ResolveContract(c) ==
  /\ call[c].pc = "contract"
  /\ Resume(c)
  /\ LET v == lookup[c].ans
         r == [call[c] EXCEPT !.v = v]
     IN IF lookup[c].pc = "failed" \/ v \in Empty THEN Set(c, call[c], "failed")
        ELSE IF v \in Canned THEN Set(c, r, "done")
        ELSE IF v \in Builtin THEN Execute(c, r)
        ELSE Set(c, r, "cache")
  /\ UNCHANGED responses

\* Redis reads what it has, by whatever contract; or it has nothing, or fails.
CacheRead(c) ==
  /\ call[c].pc = "cache"
  /\ \/ /\ responses.left > 0
        /\ Set(c, [call[c] EXCEPT !.v = responses.v, !.old = responses.old], "hit")
     \/ /\ responses.left = 0 \/ Failures
        /\ Execute(c, call[c])
  /\ UNCHANGED <<clientVars, responses>>

\* Its answer is the answer of the tool.
CacheGet(c) ==
  /\ call[c].pc = "hit"
  /\ End(c, call[c], "done")
  /\ UNCHANGED <<clientVars, responses>>

\* CredentialResolver: the secret is read anew for each call.
ResolveSecret(c) ==
  /\ call[c].pc = "secret"
  /\ \/ Set(c, call[c], "run")
     \/ Failures /\ End(c, call[c], "failed")
  /\ UNCHANGED <<clientVars, responses>>

\* Faulty variant: a call that fails is made again.
RunToolRetrying(c) ==
  /\ call[c].pc = "run"
  /\ \/ IF call[c].v \in Builtin THEN End(c, call[c], "done") ELSE Set(c, call[c], "store")
     \/ call' = [call EXCEPT ![c].late = FALSE]
  /\ UNCHANGED <<clientVars, responses>>

\* The tool answers; or the call fails, whatever the tool did, or takes too long.
RunTool(c) ==
  /\ call[c].pc = "run"
  /\ \/ IF call[c].v \in Builtin THEN End(c, call[c], "done") ELSE Set(c, call[c], "store")
     \/ Failures /\ End(c, call[c], "failed")
  /\ UNCHANGED <<clientVars, responses>>

\* Faulty variant: the answer gets the time to live of the registry's documents.
CacheSetForLong(c) ==
  /\ call[c].pc = "store"
  /\ responses' = [v |-> call[c].v, left |-> RagTtl, old |-> call[c].old]
  /\ End(c, call[c], "done")
  /\ UNCHANGED clientVars

\* Faulty variant: if Redis fails it is tried again.
CacheSetRetrying(c) ==
  /\ call[c].pc = "store"
  /\ \/ /\ responses' = [v |-> call[c].v, left |-> ToolTtl, old |-> call[c].old]
        /\ End(c, call[c], "done")
     \/ Failures /\ call' = [call EXCEPT ![c].late = FALSE] /\ UNCHANGED responses
  /\ UNCHANGED clientVars

\* The answer is cached, unless Redis fails.
CacheSet(c) ==
  /\ call[c].pc = "store"
  /\ \/ responses' = [v |-> call[c].v, left |-> ToolTtl, old |-> call[c].old]
     \/ Failures /\ UNCHANGED responses
  /\ End(c, call[c], "done")
  /\ UNCHANGED clientVars

\* act has the answer, or the error.
EndCall(c) ==
  /\ call[c].pc \in {"done", "failed"}
  /\ call' = [call EXCEPT ![c] = NoCall]
  /\ UNCHANGED <<clientVars, responses>>

OlderBy(n) == IF n < MaxAge THEN n + 1 ELSE n

Tick ==
  /\ TickClient
  /\ \A c \in Callers : ~call[c].late
  /\ call' = [c \in Callers |->
                [call[c] EXCEPT !.late = Running(c),
                                !.old = IF call[c].pc \in {"hit", "store"}
                                          THEN OlderBy(@) ELSE @]]
  /\ responses' = IF responses.left <= 1 THEN NoResponse
                  ELSE [responses EXCEPT !.left = @ - 1, !.old = OlderBy(@)]

Next ==
  \/ \E c \in Callers :
       \/ Dispatch(c) \/ ResolveContract(c) \/ CacheRead(c) \/ CacheGet(c)
       \/ ResolveSecret(c) \/ RunTool(c) \/ CacheSet(c) \/ EndCall(c)
       \/ /\ call[c].pc = "none"
          /\ Resume(c) \/ \E m \in Lookups : LookUp(c, m)
          /\ UNCHANGED toolVars
       \/ ClientStep(c) /\ UNCHANGED toolVars
  \/ Environment /\ UNCHANGED toolVars
  \/ Tick

Spec == Init /\ [][Next]_vars

-----------------------------------------------------------------------------
(* Properties.                                                             *)

\* Every variable has its type.
TypeOK ==
  /\ ClientTypeOK
  /\ call \in [Callers -> Call]
  /\ responses \in Response

\* A tool whose contract was changed in the registry, or removed from it, runs in its
\* old form for no longer than the contract is cached and a call takes.
ContractsAreCurrent ==
  [][\A c \in Callers :
       call[c].pc = "run" /\ call'[c].pc # "run" => age[call[c].v] <= Ttl + 1]_vars

\* What is answered instead of making a call that was approved is the answer to the
\* same call, made at most ToolTtl ticks before Redis was asked; the contract it was
\* made by was superseded no longer before that than the times to live of contract
\* and response add up to.  An answer is up to one tick on its way.
AnswersAreCurrent ==
  [][\A c \in Callers :
       call[c].pc = "hit" /\ call'[c].pc = "done"
         => /\ call'[c].old <= ToolTtl + 1
            /\ age[call'[c].v] <= Ttl + ToolTtl + 1]_vars
=============================================================================

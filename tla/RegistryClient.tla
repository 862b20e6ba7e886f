--------------------------- MODULE RegistryClient ---------------------------
(***************************************************************************)
(* ScalableRegistryClient (worker_agent/registry/scalable.py): one client   *)
(* for all coroutines of the agent, with one token and two caches, a        *)
(* dictionary in the process (L1) and, for two of its methods, Redis (L2).  *)
(*                                                                         *)
(* A coroutine (a caller) runs undisturbed from one await to the next.      *)
(* What the registry has changes from version to version; an answer is the  *)
(* version it was read from.  Time passes in ticks, each longer than what   *)
(* the timeouts of ten seconds let a lookup take, so that a lookup sees at  *)
(* most one of them.  Entries of the caches count down the ticks they have  *)
(* left.  What a service answers is read there in one step and arrives in   *)
(* another.                                                                *)
(*                                                                         *)
(* Keys of AuthService are numbered; a token is the number of the key that  *)
(* signed it, and is refused from the moment the keys are rotated.  The     *)
(* client has credentials: without any it asks for no token at all.         *)
(*                                                                         *)
(* History variables: age, and the field trouble of a lookup.               *)
(***************************************************************************)
EXTENDS Integers

CONSTANTS
  Callers,      \* the coroutines
  Lookups,      \* the methods they call, a subset of Method
  Empty,        \* the versions in which the registry has nothing to answer
  Failures,     \* whether calls of services may fail
  Ttl,          \* cache_ttl_seconds in ticks
  RagTtl,       \* rag_cache_ttl in ticks
  MaxVersion,   \* bound: changes of the registry
  MaxKeys,      \* bound: keys of AuthService
  MaxAge        \* bound: age is counted up to this

Method == {"schema", "tools", "playbook", "intents", "rag", "domains", "search"}

\* The methods that send the token and raise when the lookup fails; the others call
\* their endpoints without one, and answer [] then.
Authenticated == {"schema", "tools", "playbook", "intents"}

\* Those with an L2.
Layered == {"rag", "search"}

\* Those whose L1 keeps an answer with nothing in it.  A missing schema raises
\* KeyError; None, which get_playbook() puts into the cache, is read as a miss.
KeepsEmpty == Method \ {"schema", "playbook"}

Version == 0 .. MaxVersion
Key     == 1 .. MaxKeys
NoToken == 0

ASSUME RegistryAssumption ==
  /\ Lookups \subseteq Method
  /\ Empty \subseteq Version
  /\ Failures \in BOOLEAN
  /\ Ttl \in Nat \ {0}
  /\ RagTtl \in Nat \ {0}
  /\ MaxVersion \in Nat
  /\ MaxKeys \in Nat \ {0}
  /\ MaxAge \in Nat

VARIABLES
  version,   \* what the registry has
  age,       \* age[v]: ticks since v was superseded; 0 before
  keys,      \* the key AuthService signs with
  token,     \* _token, or NoToken; one that is about to expire is as good as none
  l1,        \* l1[m]: the version in the cache of m, and the ticks it has left
  l2,        \* the same in Redis
  lookup     \* lookup[c]: the call of the client c is in

services   == <<version, age, keys>>
client     == <<token, l1, l2>>
clientVars == <<services, client, lookup>>

\* An entry that has expired is no entry.
NoEntry == [v |-> 0, left |-> 0]
Entry(ttl) == [v : Version, left : 0 .. ttl]

\* auth: awaits a token; get: awaits the registry; got: its answer is under way;
\* redis, store: awaits the GET or SET of Redis; hit: the answer of Redis is under way;
\* failed: it has raised, or returned [] for want of an answer.
Pc == {"idle", "redis", "hit", "auth", "get", "got", "store", "returned", "failed"}
Lookup == [method : Method, pc : Pc, tok : Key \cup {NoToken}, retried : BOOLEAN,
           ans : Version, late : BOOLEAN, trouble : BOOLEAN]
NoLookup == [method |-> "tools", pc |-> "idle", tok |-> NoToken, retried |-> FALSE,
             ans |-> 0, late |-> FALSE, trouble |-> FALSE]

InitClient ==
  /\ version = 0
  /\ age = [v \in Version |-> 0]
  /\ keys = 1
  /\ token = NoToken
  /\ l1 = [m \in Method |-> NoEntry]
  /\ l2 = [m \in Method |-> NoEntry]
  /\ lookup = [c \in Callers |-> NoLookup]

InFlight(c) == lookup[c].pc \notin {"idle", "returned", "failed"}

-----------------------------------------------------------------------------
(* The services, and time.                                                 *)

\* Another version of the tools, domains and documents is put into the registry.
Publish ==
  /\ version < MaxVersion
  /\ version' = version + 1
  /\ UNCHANGED <<age, keys, client, lookup>>

\* The tokens there are become invalid: AuthService has other keys, or they were
\* shorter-lived than the client assumes.
Rotate ==
  /\ keys < MaxKeys
  /\ keys' = keys + 1
  /\ lookup' = [c \in Callers |->
                  IF InFlight(c) THEN [lookup[c] EXCEPT !.trouble = TRUE] ELSE lookup[c]]
  /\ UNCHANGED <<version, age, client>>

\* The token comes to the last thirty seconds before _token_expires_at.
TokenAges ==
  /\ token # NoToken
  /\ token' = NoToken
  /\ UNCHANGED <<services, l1, l2, lookup>>

Older(entry) == IF entry.left <= 1 THEN NoEntry ELSE [entry EXCEPT !.left = @ - 1]

\* A coroutine whose lookup is over goes on before time passes.
TickClient ==
  /\ \A c \in Callers : ~lookup[c].late /\ (InFlight(c) \/ lookup[c].pc = "idle")
  /\ age' = [v \in Version |->
               IF v < version /\ age[v] < MaxAge THEN age[v] + 1 ELSE age[v]]
  /\ l1' = [m \in Method |-> Older(l1[m])]
  /\ l2' = [m \in Method |-> Older(l2[m])]
  /\ lookup' = [c \in Callers |-> [lookup[c] EXCEPT !.late = InFlight(c)]]
  /\ UNCHANGED <<version, keys, token>>

-----------------------------------------------------------------------------
(* The client.                                                             *)

\* What _get() finds is not None.
Hit(m) == l1[m].left > 0

\* The lookup of c goes on at pc, having made the changes to it that are in r.
Go(c, r, pc) == lookup' = [lookup EXCEPT ![c] = [r EXCEPT !.pc = pc]]
Return(c, r, v) ==
  lookup' = [lookup EXCEPT ![c] = [r EXCEPT !.pc = "returned", !.ans = v,
                                            !.late = FALSE]]

\* _fetch() is at _get_token(): with a token that will do the request is sent at once.
Ask(c, r) ==
  IF r.method \in Authenticated /\ token = NoToken
    THEN Go(c, r, "auth")
    ELSE Go(c, [r EXCEPT !.tok = IF r.method \in Authenticated THEN token ELSE NoToken],
            "get")

\* A method is called: L1 answers, or Redis is asked, or the registry.
LookUp(c, m) ==
  /\ lookup[c].pc = "idle"
  /\ LET r == [NoLookup EXCEPT !.method = m] IN
       IF Hit(m) THEN Return(c, r, l1[m].v)
       ELSE IF m \in Layered THEN Go(c, r, "redis")
       ELSE Ask(c, r)
  /\ UNCHANGED <<services, client>>

\* Redis has nothing, or fails: the registry is asked.
RedisMisses(c) ==
  /\ l2[lookup[c].method].left = 0 \/ Failures
  /\ Ask(c, lookup[c])
  /\ UNCHANGED l2

\* Faulty variant: what is read is kept there for another while.
RedisReadSliding(c) ==
  /\ lookup[c].pc = "redis"
  /\ LET r == lookup[c] IN
       \/ /\ l2[r.method].left > 0
          /\ l2' = [l2 EXCEPT ![r.method].left = RagTtl]
          /\ Go(c, [r EXCEPT !.ans = l2[r.method].v], "hit")
       \/ RedisMisses(c)
  /\ UNCHANGED <<services, token, l1>>

\* Redis reads what it has.
RedisRead(c) ==
  /\ lookup[c].pc = "redis"
  /\ LET r == lookup[c] IN
       \/ /\ l2[r.method].left > 0
          /\ Go(c, [r EXCEPT !.ans = l2[r.method].v], "hit")
          /\ UNCHANGED l2
       \/ RedisMisses(c)
  /\ UNCHANGED <<services, token, l1>>

\* Its answer goes to L1, for as long as anything.
RedisGet(c) ==
  /\ lookup[c].pc = "hit"
  /\ LET r == lookup[c] IN
       /\ l1' = [l1 EXCEPT ![r.method] = [v |-> r.ans, left |-> Ttl]]
       /\ Return(c, r, r.ans)
  /\ UNCHANGED <<services, token, l2>>

\* AuthService issues a token, which becomes that of the client, whoever else has
\* asked for one.
Authenticate(c) ==
  /\ lookup[c].pc = "auth"
  /\ token' = keys
  /\ Go(c, [lookup[c] EXCEPT !.tok = keys], "get")
  /\ UNCHANGED <<services, l1, l2>>

\* The registry answers with what it has.
Answered(c) ==
  /\ lookup[c].pc = "get"
  /\ lookup[c].method \in Authenticated => lookup[c].tok = keys
  /\ Go(c, [lookup[c] EXCEPT !.ans = version, !.tok = NoToken], "got")
  /\ UNCHANGED <<services, client>>

\* Faulty variant: the token that was refused is not forgotten.
UnauthorizedKeepingToken(c) ==
  /\ lookup[c].pc = "get"
  /\ lookup[c].method \in Authenticated
  /\ lookup[c].tok # keys
  /\ IF lookup[c].retried THEN Go(c, lookup[c], "failed")
                          ELSE Ask(c, [lookup[c] EXCEPT !.retried = TRUE])
  /\ UNCHANGED <<services, client>>

\* 401: the token of the client is forgotten, whichever it is by now, and another one
\* is asked for, once.
Unauthorized(c) ==
  /\ lookup[c].pc = "get"
  /\ lookup[c].method \in Authenticated
  /\ lookup[c].tok # keys
  /\ IF lookup[c].retried
       THEN Go(c, [lookup[c] EXCEPT !.late = FALSE], "failed") /\ UNCHANGED token
       ELSE Go(c, [lookup[c] EXCEPT !.retried = TRUE, !.tok = NoToken], "auth") /\ token' = NoToken
  /\ UNCHANGED <<services, l1, l2>>

\* AuthService or the registry fails.
Fails(c) ==
  /\ Failures
  /\ lookup[c].pc \in {"auth", "get"}
  /\ Go(c, [lookup[c] EXCEPT !.late = FALSE, !.trouble = TRUE], "failed")
  /\ UNCHANGED <<services, client>>

\* The answer arrives and goes to L1, whatever is there, and to Redis if it has one
\* and there is something in it.
Receive(c) ==
  /\ lookup[c].pc = "got"
  /\ LET r == lookup[c] IN
       /\ l1' = IF r.ans \in Empty /\ r.method \notin KeepsEmpty THEN l1
                ELSE [l1 EXCEPT ![r.method] = [v |-> r.ans, left |-> Ttl]]
       /\ IF r.method \in Layered /\ r.ans \notin Empty THEN Go(c, r, "store")
                                                        ELSE Return(c, r, r.ans)
  /\ UNCHANGED <<services, token, l2>>

\* Redis has it, or fails.
RedisSet(c) ==
  /\ lookup[c].pc = "store"
  /\ LET r == lookup[c] IN
       /\ \/ l2' = [l2 EXCEPT ![r.method] = [v |-> r.ans, left |-> RagTtl]]
          \/ Failures /\ UNCHANGED l2
       /\ Return(c, r, r.ans)
  /\ UNCHANGED <<services, token, l1>>

\* The lookup is over, and its caller goes on.
Resume(c) ==
  /\ lookup[c].pc \in {"returned", "failed"}
  /\ lookup' = [lookup EXCEPT ![c] = NoLookup]
  /\ UNCHANGED <<services, client>>

ClientStep(c) ==
  \/ RedisRead(c) \/ RedisGet(c) \/ Authenticate(c) \/ Answered(c) \/ Unauthorized(c)
  \/ Fails(c) \/ Receive(c) \/ RedisSet(c)

Environment == Publish \/ Rotate \/ TokenAges

NextClient ==
  \/ \E c \in Callers : (\E m \in Lookups : LookUp(c, m)) \/ ClientStep(c) \/ Resume(c)
  \/ Environment
  \/ TickClient

SpecClient == InitClient /\ [][NextClient]_clientVars

-----------------------------------------------------------------------------
(* Properties.                                                             *)

\* Every variable has its type.
ClientTypeOK ==
  /\ version \in Version
  /\ age \in [Version -> 0 .. MaxAge]
  /\ keys \in Key
  /\ token \in Key \cup {NoToken}
  /\ l1 \in [Method -> Entry(Ttl)]
  /\ l2 \in [Method -> Entry(RagTtl)]
  /\ lookup \in [Callers -> Lookup]

\* How many ticks after it was superseded a lookup may still return a version: an
\* answer is up to one tick on its way, then serves for as long as the caches keep it,
\* of which L1 may be filled with what was read from Redis in the last tick the entry
\* had there, and arrived in the next.
MaxStale(m) == IF m \in Layered THEN RagTtl + Ttl ELSE Ttl

\* However the lookups of several coroutines fill the caches, in whatever order and
\* with answers of whatever age, none returns what was superseded longer ago than
\* the times to live add up to.
BoundedStaleness ==
  [][\A c \in Callers :
       lookup[c].pc # "returned" /\ lookup'[c].pc = "returned"
         => age[lookup'[c].ans] <= MaxStale(lookup'[c].method)]_clientVars

\* "Token may have expired mid-flight - refresh once and retry": a lookup that was
\* not disturbed itself, by a failing service or by keys rotated while it was under
\* way, does not fail, whatever token it started with and whatever the others do to
\* the token meanwhile.
HealthyLookupsSucceed ==
  \A c \in Callers : lookup[c].pc = "failed" => lookup[c].trouble
=============================================================================

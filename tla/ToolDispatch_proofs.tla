-------------------------- MODULE ToolDispatch_proofs --------------------------
(***************************************************************************)
(* Proofs about ToolDispatch and the RegistryClient below it, for any       *)
(* coroutines, methods, times to live and bounds, and any registry.         *)
(*                                                                         *)
(* None of the bounds on staleness is inductive.  What makes them so is a   *)
(* budget for all that is under way or kept: the age of its version and the *)
(* ticks it has left add up to no more than what the last place it was      *)
(* taken from allows (GoodEntry, GoodLookup, GoodCall, GoodResponse).       *)
(***************************************************************************)
EXTENDS ToolDispatch, TLAPS

-----------------------------------------------------------------------------
(* The invariant.                                                          *)

\* What is on its way may be a tick old once it is late.
Lag(late) == IF late THEN 1 ELSE 0

\* An entry of a cache, by ages a: its age and the ticks it has left are within bound.
GoodEntry(a, ttl, bound, e) ==
  /\ e \in Entry(ttl)
  /\ e.left > 0 => a[e.v] + e.left <= bound

\* A lookup: how old its answer may be, and that it fails for a reason only; one that
\* was refused once comes with the latest token, unless it was troubled.
GoodLookup(a, k, r) ==
  /\ r \in Lookup
  /\ r.pc \in {"got", "store"} => a[r.ans] <= Lag(r.late)
  /\ r.pc = "hit" => a[r.ans] <= RagTtl + Lag(r.late)
  /\ r.pc = "returned" => a[r.ans] <= MaxStale(r.method)
  /\ r.pc \in {"redis", "hit", "store"} => r.method \in Layered
  /\ r.pc = "redis" => ~r.retried
  /\ r.pc = "get" /\ r.retried /\ ~r.trouble => r.tok = k
  /\ r.pc = "failed" => r.trouble

\* A call of a tool: how old its contract and its answer may be.
GoodCall(a, r) ==
  /\ r \in Call
  /\ r.pc \in {"cache", "secret", "run", "store"} => a[r.v] <= Ttl + Lag(r.late)
  /\ r.pc \in {"none", "contract", "cache", "secret", "run"} => r.old = 0
  /\ r.pc = "store" => r.old <= Lag(r.late)
  /\ r.pc = "hit" => /\ a[r.v] <= Ttl + ToolTtl + Lag(r.late)
                     /\ r.old <= ToolTtl + Lag(r.late)

\* A response in the cache.
GoodResponse(a, e) ==
  /\ e \in Response
  /\ e.left > 0 => /\ a[e.v] + e.left <= Ttl + ToolTtl + 1
                   /\ e.old + e.left <= ToolTtl + 1

GoodAges(a, n) == /\ a \in [Version -> 0 .. MaxAge]
                  /\ \A v \in Version : v >= n => a[v] = 0

ServicesInv == version \in Version /\ keys \in Key /\ GoodAges(age, version)
CachesInv   == /\ token \in Key \cup {NoToken}
               /\ l1 \in [Method -> Entry(Ttl)]
               /\ l2 \in [Method -> Entry(RagTtl)]
               /\ \A m \in Method : GoodEntry(age, Ttl, MaxStale(m) + 1, l1[m])
               /\ \A m \in Method : GoodEntry(age, RagTtl, RagTtl + 1, l2[m])
LookupsInv  == /\ lookup \in [Callers -> Lookup]
               /\ \A c \in Callers : GoodLookup(age, keys, lookup[c])
CallsInv    == /\ call \in [Callers -> Call]
               /\ \A c \in Callers : GoodCall(age, call[c])
               /\ \A c \in Callers : call[c].pc = "contract" => lookup[c].method = "tools"
               /\ GoodResponse(age, responses)

ClientInv == ServicesInv /\ CachesInv /\ LookupsInv
Inv       == ClientInv /\ CallsInv

-----------------------------------------------------------------------------
(* Constants, entries and records.                                         *)

\* The values of the constants.
LEMMA ConstantValues ==
  /\ Ttl \in Nat /\ Ttl > 0 /\ RagTtl \in Nat /\ RagTtl > 0
  /\ ToolTtl \in Nat /\ ToolTtl > 0 /\ MaxAge \in Nat
  /\ 0 \in Version /\ 1 \in Key /\ NoToken \notin Key
  BY RegistryAssumption, DispatchAssumption DEF Version, Key, NoToken

\* How stale an answer may be.
LEMMA StaleValues ==
  ASSUME NEW m \in Method
  PROVE  /\ MaxStale(m) \in Nat /\ MaxStale(m) >= Ttl
         /\ m \in Layered => MaxStale(m) = RagTtl + Ttl
         /\ m \notin Layered => MaxStale(m) = Ttl
  BY ConstantValues DEF MaxStale

\* Updating a function at one point.
LEMMA UpdateAt ==
  ASSUME NEW S, NEW T, NEW f \in [S -> T], NEW x \in S, NEW y \in T
  PROVE  /\ [f EXCEPT ![x] = y] \in [S -> T]
         /\ [f EXCEPT ![x] = y][x] = y
         /\ \A z \in S : z # x => [f EXCEPT ![x] = y][z] = f[z]
  OBVIOUS

\* An entry that is put into a cache with its whole time to live.
LEMMA NewEntry ==
  ASSUME NEW a \in [Version -> 0 .. MaxAge], NEW ttl \in Nat, NEW bound \in Nat,
         NEW v \in Version, a[v] + ttl <= bound
  PROVE  /\ [v |-> v, left |-> ttl] \in Entry(ttl)
         /\ GoodEntry(a, ttl, bound, [v |-> v, left |-> ttl])
  BY DEF GoodEntry, Entry

\* No entry is a good one.
LEMMA EmptyEntry ==
  ASSUME NEW a, NEW ttl \in Nat, NEW bound \in Nat
  PROVE  NoEntry \in Entry(ttl) /\ GoodEntry(a, ttl, bound, NoEntry)
  BY ConstantValues DEF GoodEntry, NoEntry, Entry

\* An entry grows older by a tick.
LEMMA OlderEntry ==
  ASSUME NEW a \in [Version -> 0 .. MaxAge], NEW b \in [Version -> 0 .. MaxAge],
         \A v \in Version : b[v] <= a[v] + 1,
         NEW ttl \in Nat, NEW bound \in Nat, NEW e, GoodEntry(a, ttl, bound, e)
  PROVE  Older(e) \in Entry(ttl) /\ GoodEntry(b, ttl, bound, Older(e))
  <1>1. e.v \in Version /\ e.left \in 0 .. ttl /\ e \in Entry(ttl)
    BY DEF GoodEntry, Entry
  <1>2. CASE e.left <= 1
    BY <1>2, EmptyEntry DEF Older
  <1>3. CASE ~(e.left <= 1)
    <2>1. Older(e) = [e EXCEPT !.left = e.left - 1]
      BY <1>3 DEF Older
    <2>2. Older(e).v = e.v /\ Older(e).left = e.left - 1 /\ Older(e) \in Entry(ttl)
      BY <1>1, <1>3, <2>1 DEF Entry
    <2>3. b[e.v] \in Nat /\ a[e.v] \in Nat /\ b[e.v] <= a[e.v] + 1
      BY <1>1, ConstantValues
    <2> QED
      BY <1>1, <1>3, <2>2, <2>3 DEF GoodEntry
  <1> QED
    BY <1>2, <1>3

\* The fields of a lookup.
LEMMA LookupFields ==
  ASSUME NEW r \in Lookup
  PROVE  /\ r.method \in Method /\ r.pc \in Pc /\ r.tok \in Key \cup {NoToken}
         /\ r.retried \in BOOLEAN /\ r.ans \in Version /\ r.late \in BOOLEAN
         /\ r.trouble \in BOOLEAN
  BY DEF Lookup

\* The lookup at another place, with other fields as the client sets them.
LEMMA GoesTo ==
  ASSUME NEW r \in Lookup, NEW pc \in Pc
  PROVE  LET q == [r EXCEPT !.pc = pc] IN
           /\ q \in Lookup
           /\ q.pc = pc /\ q.method = r.method /\ q.tok = r.tok /\ q.retried = r.retried
           /\ q.ans = r.ans /\ q.late = r.late /\ q.trouble = r.trouble
  BY DEF Lookup

LEMMA Returns ==
  ASSUME NEW r \in Lookup, NEW v \in Version
  PROVE  LET q == [r EXCEPT !.pc = "returned", !.ans = v, !.late = FALSE] IN
           /\ q \in Lookup
           /\ q.pc = "returned" /\ q.method = r.method /\ q.ans = v
  BY DEF Lookup, Pc

LEMMA TakesToken ==
  ASSUME NEW r \in Lookup, NEW k \in Key \cup {NoToken}
  PROVE  LET q == [r EXCEPT !.tok = k] IN
           /\ q \in Lookup
           /\ q.method = r.method /\ q.tok = k /\ q.retried = r.retried
           /\ q.trouble = r.trouble
  BY DEF Lookup

-----------------------------------------------------------------------------
(* The client.                                                             *)

\* What is kept: a cache is filled with what is young enough for it.
LEMMA CachesKept ==
  ASSUME ServicesInv, CachesInv, UNCHANGED services, NEW m \in Method, NEW v \in Version,
         token' \in Key \cup {NoToken},
         \/ l1' = l1
         \/ /\ l1' = [l1 EXCEPT ![m] = [v |-> v, left |-> Ttl]]
            /\ age[v] + Ttl <= MaxStale(m) + 1,
         \/ l2' = l2
         \/ /\ l2' = [l2 EXCEPT ![m] = [v |-> v, left |-> RagTtl]]
            /\ age[v] <= 1
  PROVE  CachesInv'
  <1>1. age' = age /\ age \in [Version -> 0 .. MaxAge] /\ age[v] \in Nat
    BY ConstantValues DEF services, ServicesInv, GoodAges
  <1>2. /\ l1' \in [Method -> Entry(Ttl)]
        /\ \A n \in Method : GoodEntry(age, Ttl, MaxStale(n) + 1, l1'[n])
    <2>1. CASE l1' = l1
      BY <2>1 DEF CachesInv
    <2>2. CASE /\ l1' = [l1 EXCEPT ![m] = [v |-> v, left |-> Ttl]]
               /\ age[v] + Ttl <= MaxStale(m) + 1
      <3> DEFINE e == [v |-> v, left |-> Ttl]
      <3>1. e \in Entry(Ttl) /\ GoodEntry(age, Ttl, MaxStale(m) + 1, e)
        <4>1. MaxStale(m) + 1 \in Nat /\ Ttl \in Nat
          BY StaleValues, ConstantValues
        <4> QED
          BY <1>1, <2>2, <4>1, NewEntry
      <3>2. l1' = [l1 EXCEPT ![m] = e] /\ l1 \in [Method -> Entry(Ttl)]
        BY <2>2 DEF CachesInv
      <3> HIDE DEF e
      <3> QED
        BY <3>1, <3>2, UpdateAt DEF CachesInv
    <2> QED
      BY <2>1, <2>2
  <1>3. /\ l2' \in [Method -> Entry(RagTtl)]
        /\ \A n \in Method : GoodEntry(age, RagTtl, RagTtl + 1, l2'[n])
    <2>1. CASE l2' = l2
      BY <2>1 DEF CachesInv
    <2>2. CASE l2' = [l2 EXCEPT ![m] = [v |-> v, left |-> RagTtl]] /\ age[v] <= 1
      <3> DEFINE e == [v |-> v, left |-> RagTtl]
      <3>1. e \in Entry(RagTtl) /\ GoodEntry(age, RagTtl, RagTtl + 1, e)
        <4>1. RagTtl + 1 \in Nat /\ RagTtl \in Nat /\ age[v] + RagTtl <= RagTtl + 1
          BY <1>1, <2>2, ConstantValues
        <4> QED
          BY <1>1, <4>1, NewEntry
      <3>2. l2' = [l2 EXCEPT ![m] = e] /\ l2 \in [Method -> Entry(RagTtl)]
        BY <2>2 DEF CachesInv
      <3> HIDE DEF e
      <3> QED
        BY <3>1, <3>2, UpdateAt DEF CachesInv
    <2> QED
      BY <2>1, <2>2
  <1> QED
    BY <1>1, <1>2, <1>3 DEF CachesInv

\* The lookup of c becomes q, and is one of the method m then.
Becomes(c, m, q) == /\ GoodLookup(age, keys, q)
                    /\ q.method = m
                    /\ lookup' = [lookup EXCEPT ![c] = q]

\* The registry, or AuthService first, is asked.
LEMMA AskBecomes ==
  ASSUME ClientInv, NEW c \in Callers, NEW r \in Lookup, ~r.retried, Ask(c, r)
  PROVE  \E q : Becomes(c, r.method, q)
  <1>1. CASE r.method \in Authenticated /\ token = NoToken
    <2> DEFINE q == [r EXCEPT !.pc = "auth"]
    <2>1. q \in Lookup /\ q.pc = "auth" /\ q.method = r.method
      BY GoesTo DEF Pc
    <2>2. lookup' = [lookup EXCEPT ![c] = q]
      BY <1>1 DEF Ask, Go
    <2> HIDE DEF q
    <2> QED
      BY <2>1, <2>2 DEF Becomes, GoodLookup
  <1>2. CASE ~(r.method \in Authenticated /\ token = NoToken)
    <2> DEFINE k == IF r.method \in Authenticated THEN token ELSE NoToken
               s == [r EXCEPT !.tok = k]
               q == [s EXCEPT !.pc = "get"]
    <2>1. k \in Key \cup {NoToken}
      BY DEF ClientInv, CachesInv
    <2>2. lookup' = [lookup EXCEPT ![c] = q]
      BY <1>2 DEF Ask, Go
    <2> HIDE DEF k
    <2>3. s \in Lookup /\ s.method = r.method /\ s.retried = r.retried
      BY <2>1, TakesToken
    <2> HIDE DEF s
    <2>4. q \in Lookup /\ q.pc = "get" /\ q.method = r.method /\ q.retried = r.retried
      BY <2>3, GoesTo DEF Pc
    <2> HIDE DEF q
    <2> QED
      BY <2>2, <2>4 DEF Becomes, GoodLookup
  <1> QED
    BY <1>1, <1>2

\* An answer is returned that is young enough.
LEMMA ReturnBecomes ==
  ASSUME NEW c \in Callers, NEW r \in Lookup, NEW v \in Version,
         age[v] <= MaxStale(r.method), Return(c, r, v)
  PROVE  \E q : Becomes(c, r.method, q)
  <1> DEFINE q == [r EXCEPT !.pc = "returned", !.ans = v, !.late = FALSE]
  <1>1. q \in Lookup /\ q.pc = "returned" /\ q.method = r.method /\ q.ans = v
    BY Returns
  <1>2. lookup' = [lookup EXCEPT ![c] = q]
    BY DEF Return
  <1> HIDE DEF q
  <1> QED
    BY <1>1, <1>2 DEF Becomes, GoodLookup

\* What a new lookup starts from.
LEMMA FreshLookup ==
  ASSUME NEW m \in Method
  PROVE  /\ [NoLookup EXCEPT !.method = m] \in Lookup
         /\ [NoLookup EXCEPT !.method = m].method = m
         /\ ~[NoLookup EXCEPT !.method = m].retried
         /\ NoLookup \in Lookup /\ NoLookup.pc = "idle"
  BY ConstantValues DEF NoLookup, Lookup, Pc, Method

\* What the cache of the process has is young enough to be returned, and what Redis
\* has to be read.
LEMMA EntriesServe ==
  ASSUME ClientInv, NEW m \in Method
  PROVE  /\ l1[m].v \in Version
         /\ l1[m].left > 0 => age[l1[m].v] <= MaxStale(m)
         /\ l2[m].v \in Version
         /\ l2[m].left > 0 => age[l2[m].v] <= RagTtl
  <1>1. /\ l1[m].v \in Version /\ l1[m].left \in Nat
        /\ l2[m].v \in Version /\ l2[m].left \in Nat
    <2>1. l1[m] \in Entry(Ttl) /\ l2[m] \in Entry(RagTtl)
      BY DEF ClientInv, CachesInv
    <2> QED
      BY <2>1, ConstantValues DEF Entry
  <1>2. age[l1[m].v] \in Nat /\ age[l2[m].v] \in Nat
    BY <1>1, ConstantValues DEF ClientInv, ServicesInv, GoodAges
  <1>3. /\ l1[m].left > 0 => age[l1[m].v] + l1[m].left <= MaxStale(m) + 1
        /\ l2[m].left > 0 => age[l2[m].v] + l2[m].left <= RagTtl + 1
    BY DEF ClientInv, CachesInv, GoodEntry
  <1> QED
    BY <1>1, <1>2, <1>3, StaleValues, ConstantValues

\* A method is called.
LEMMA LookUpBecomes ==
  ASSUME ClientInv, NEW c \in Callers, NEW m \in Method, LookUp(c, m)
  PROVE  \E q : Becomes(c, m, q)
  <1> DEFINE r == [NoLookup EXCEPT !.method = m]
  <1>1. r \in Lookup /\ r.method = m /\ ~r.retried
    BY FreshLookup
  <1>2. \/ Hit(m) /\ Return(c, r, l1[m].v)
        \/ m \in Layered /\ Go(c, r, "redis")
        \/ Ask(c, r)
    BY DEF LookUp
  <1> HIDE DEF r
  <1>3. CASE Hit(m) /\ Return(c, r, l1[m].v)
    <2>1. l1[m].v \in Version /\ age[l1[m].v] <= MaxStale(m)
      BY <1>3, EntriesServe DEF Hit
    <2> QED
      BY <1>1, <1>3, <2>1, ReturnBecomes
  <1>4. CASE m \in Layered /\ Go(c, r, "redis")
    <2> DEFINE q == [r EXCEPT !.pc = "redis"]
    <2>1. q \in Lookup /\ q.pc = "redis" /\ q.method = m /\ ~q.retried
      BY <1>1, GoesTo DEF Pc
    <2>2. lookup' = [lookup EXCEPT ![c] = q]
      BY <1>4 DEF Go
    <2> HIDE DEF q
    <2> QED
      BY <1>4, <2>1, <2>2 DEF Becomes, GoodLookup
  <1>5. CASE Ask(c, r)
    BY <1>1, <1>5, AskBecomes
  <1> QED
    BY <1>2, <1>3, <1>4, <1>5

\* The client's own steps.
LEMMA ClientStepBecomes ==
  ASSUME ClientInv, NEW c \in Callers, ClientStep(c)
  PROVE  /\ \E q : Becomes(c, lookup[c].method, q)
         /\ CachesInv'
         /\ UNCHANGED services
  <1> DEFINE r == lookup[c]
             m == r.method
  <1>0. /\ r \in Lookup /\ GoodLookup(age, keys, r)
        /\ ServicesInv /\ CachesInv
    BY DEF ClientInv, LookupsInv
  <1>1. /\ m \in Method /\ r.ans \in Version /\ r.retried \in BOOLEAN
        /\ token \in Key \cup {NoToken} /\ keys \in Key /\ version \in Version
    BY <1>0, LookupFields DEF ServicesInv, CachesInv
  <1>2. age[r.ans] \in Nat /\ age[version] = 0
    <2>1. version >= version
      BY <1>1 DEF Version
    <2> QED
      BY <1>0, <1>1, <2>1, ConstantValues DEF ServicesInv, GoodAges
  <1>3. CASE RedisRead(c)
    <2> DEFINE v == l2[m].v
               s == [r EXCEPT !.ans = v]
               q == [s EXCEPT !.pc = "hit"]
    <2>1. /\ r.pc = "redis" /\ UNCHANGED <<services, token, l1, l2>>
          /\ \/ l2[m].left > 0 /\ lookup' = [lookup EXCEPT ![c] = q]
             \/ Ask(c, r)
      BY <1>3 DEF RedisRead, RedisMisses, Go
    <2>2. m \in Layered /\ ~r.retried
      BY <1>0, <2>1 DEF GoodLookup
    <2>3. v \in Version /\ (l2[m].left > 0 => age[v] <= RagTtl) /\ age[v] \in Nat
      <3>1. v \in Version /\ (l2[m].left > 0 => age[v] <= RagTtl)
        BY <1>1, EntriesServe
      <3> QED
        BY <1>0, <3>1, ConstantValues DEF ServicesInv, GoodAges
    <2>4. CachesInv'
      BY <1>0, <1>1, <2>1, CachesKept
    <2> HIDE DEF v
    <2>5. s \in Lookup /\ s.method = m /\ s.ans = v /\ s.late = r.late
      BY <1>0, <2>3 DEF Lookup
    <2> HIDE DEF s
    <2>6. q \in Lookup /\ q.pc = "hit" /\ q.method = m /\ q.ans = v
      BY <2>5, GoesTo DEF Pc
    <2> HIDE DEF q
    <2>7. ASSUME l2[m].left > 0, lookup' = [lookup EXCEPT ![c] = q]
          PROVE  Becomes(c, m, q)
      <3>1. Lag(q.late) \in {0, 1}
        BY DEF Lag
      <3>2. age[q.ans] <= RagTtl + Lag(q.late)
        BY <2>3, <2>6, <2>7, <3>1, ConstantValues
      <3> QED
        BY <2>2, <2>6, <2>7, <3>2 DEF Becomes, GoodLookup
    <2>8. \E p : Becomes(c, m, p)
      BY <1>0, <2>1, <2>2, <2>7, AskBecomes
    <2> QED
      BY <2>1, <2>4, <2>8
  <1>10. CASE RedisGet(c)
    <2>1. /\ r.pc = "hit" /\ UNCHANGED <<services, token, l2>>
          /\ l1' = [l1 EXCEPT ![m] = [v |-> r.ans, left |-> Ttl]]
          /\ Return(c, r, r.ans)
      BY <1>10 DEF RedisGet
    <2>2. m \in Layered /\ age[r.ans] <= RagTtl + Lag(r.late)
      BY <1>0, <2>1 DEF GoodLookup
    <2>3. age[r.ans] <= RagTtl + 1
      BY <1>2, <2>2, ConstantValues DEF Lag
    <2>4. age[r.ans] <= MaxStale(m) /\ age[r.ans] + Ttl <= MaxStale(m) + 1
      BY <1>1, <1>2, <2>2, <2>3, StaleValues, ConstantValues
    <2>5. CachesInv'
      BY <1>0, <1>1, <2>1, <2>4, CachesKept
    <2> QED
      BY <1>0, <1>1, <2>1, <2>4, <2>5, ReturnBecomes
  <1>4. CASE Authenticate(c)
    <2> DEFINE s == [r EXCEPT !.tok = keys]
               q == [s EXCEPT !.pc = "get"]
    <2>1. /\ r.pc = "auth" /\ token' = keys /\ UNCHANGED <<services, l1, l2>>
          /\ lookup' = [lookup EXCEPT ![c] = q]
      BY <1>4 DEF Authenticate, Go
    <2>2. s \in Lookup /\ s.method = m /\ s.tok = keys
      BY <1>0, <1>1, TakesToken
    <2> HIDE DEF s
    <2>3. q \in Lookup /\ q.pc = "get" /\ q.method = m /\ q.tok = keys
      BY <2>2, GoesTo DEF Pc
    <2> HIDE DEF q
    <2>4. Becomes(c, m, q)
      BY <2>1, <2>3 DEF Becomes, GoodLookup
    <2>5. CachesInv'
      BY <1>0, <1>1, <2>1, CachesKept
    <2> QED
      BY <2>1, <2>4, <2>5
  <1>5. CASE Answered(c)
    <2> DEFINE s == [r EXCEPT !.ans = version, !.tok = NoToken]
               q == [s EXCEPT !.pc = "got"]
    <2>1. UNCHANGED <<services, client>> /\ lookup' = [lookup EXCEPT ![c] = q]
      BY <1>5 DEF Answered, Go
    <2>2. s \in Lookup /\ s.method = m /\ s.ans = version
      BY <1>0, <1>1 DEF Lookup
    <2> HIDE DEF s
    <2>3. q \in Lookup /\ q.pc = "got" /\ q.method = m /\ q.ans = version
      BY <2>2, GoesTo DEF Pc
    <2> HIDE DEF q
    <2>4. Becomes(c, m, q)
      BY <1>2, <2>1, <2>3 DEF Becomes, GoodLookup, Lag
    <2>5. CachesInv'
      BY <1>0, <1>1, <2>1, CachesKept DEF client
    <2> QED
      BY <2>1, <2>4, <2>5
  <1>6. CASE Unauthorized(c)
    <2>1. r.pc = "get" /\ m \in Authenticated /\ r.tok # keys /\ UNCHANGED <<services, l1, l2>>
      BY <1>6 DEF Unauthorized
    <2>2. CASE r.retried
      <3> DEFINE q == [[r EXCEPT !.late = FALSE] EXCEPT !.pc = "failed"]
      <3>1. lookup' = [lookup EXCEPT ![c] = q] /\ token' = token
        BY <1>6, <2>2 DEF Unauthorized, Go
      <3>2. r.trouble
        BY <1>0, <2>1, <2>2 DEF GoodLookup
      <3>3. q \in Lookup /\ q.pc = "failed" /\ q.method = m /\ q.trouble = r.trouble
        BY <1>0 DEF Lookup, Pc
      <3> HIDE DEF q
      <3>4. Becomes(c, m, q)
        BY <3>1, <3>2, <3>3 DEF Becomes, GoodLookup
      <3>5. CachesInv'
        BY <1>0, <1>1, <2>1, <3>1, CachesKept
      <3> QED
        BY <2>1, <3>4, <3>5
    <2>3. CASE ~r.retried
      <3> DEFINE q == [[r EXCEPT !.retried = TRUE, !.tok = NoToken] EXCEPT !.pc = "auth"]
      <3>1. lookup' = [lookup EXCEPT ![c] = q] /\ token' = NoToken
        BY <1>6, <2>3 DEF Unauthorized, Go
      <3>2. q \in Lookup /\ q.pc = "auth" /\ q.method = m
        BY <1>0 DEF Lookup, Pc
      <3> HIDE DEF q
      <3>3. Becomes(c, m, q)
        BY <3>1, <3>2 DEF Becomes, GoodLookup
      <3>4. CachesInv'
        BY <1>0, <1>1, <2>1, <3>1, CachesKept
      <3> QED
        BY <2>1, <3>3, <3>4
    <2> QED
      BY <2>2, <2>3
  <1>7. CASE Fails(c)
    <2> DEFINE q == [[r EXCEPT !.late = FALSE, !.trouble = TRUE] EXCEPT !.pc = "failed"]
    <2>1. UNCHANGED <<services, client>> /\ lookup' = [lookup EXCEPT ![c] = q]
      BY <1>7 DEF Fails, Go
    <2>2. q \in Lookup /\ q.pc = "failed" /\ q.method = m /\ q.trouble
      BY <1>0 DEF Lookup, Pc
    <2> HIDE DEF q
    <2>3. Becomes(c, m, q)
      BY <2>1, <2>2 DEF Becomes, GoodLookup
    <2>4. CachesInv'
      BY <1>0, <1>1, <2>1, CachesKept DEF client
    <2> QED
      BY <2>1, <2>3, <2>4
  <1>8. CASE Receive(c)
    <2>1. /\ r.pc = "got" /\ UNCHANGED <<services, token, l2>>
          /\ l1' = l1 \/ l1' = [l1 EXCEPT ![m] = [v |-> r.ans, left |-> Ttl]]
          /\ (m \in Layered /\ Go(c, r, "store")) \/ Return(c, r, r.ans)
      BY <1>8 DEF Receive
    <2>2. age[r.ans] <= Lag(r.late)
      BY <1>0, <2>1 DEF GoodLookup
    <2>3. age[r.ans] <= 1
      BY <1>2, <2>2 DEF Lag
    <2>4. age[r.ans] <= MaxStale(m) /\ age[r.ans] + Ttl <= MaxStale(m) + 1
      BY <1>1, <1>2, <2>3, StaleValues, ConstantValues
    <2>5. CachesInv'
      BY <1>0, <1>1, <2>1, <2>4, CachesKept
    <2>6. ASSUME m \in Layered, Go(c, r, "store") PROVE \E q : Becomes(c, m, q)
      <3> DEFINE q == [r EXCEPT !.pc = "store"]
      <3>1. /\ q \in Lookup /\ q.pc = "store" /\ q.method = m /\ q.ans = r.ans
            /\ q.late = r.late
        BY <1>0, GoesTo DEF Pc
      <3>2. lookup' = [lookup EXCEPT ![c] = q]
        BY <2>6 DEF Go
      <3> HIDE DEF q
      <3> QED
        BY <2>2, <2>6, <3>1, <3>2 DEF Becomes, GoodLookup
    <2>7. \E q : Becomes(c, m, q)
      BY <1>0, <1>1, <2>1, <2>4, <2>6, ReturnBecomes
    <2> QED
      BY <2>1, <2>5, <2>7
  <1>9. CASE RedisSet(c)
    <2>1. /\ r.pc = "store" /\ UNCHANGED <<services, token, l1>>
          /\ l2' = l2 \/ l2' = [l2 EXCEPT ![m] = [v |-> r.ans, left |-> RagTtl]]
          /\ Return(c, r, r.ans)
      BY <1>9 DEF RedisSet
    <2>2. age[r.ans] <= Lag(r.late)
      BY <1>0, <2>1 DEF GoodLookup
    <2>3. age[r.ans] <= 1
      BY <1>2, <2>2 DEF Lag
    <2>4. age[r.ans] <= MaxStale(m)
      BY <1>1, <1>2, <2>3, StaleValues, ConstantValues
    <2>5. CachesInv'
      BY <1>0, <1>1, <2>1, <2>3, CachesKept
    <2> QED
      BY <1>0, <1>1, <2>1, <2>4, <2>5, ReturnBecomes
  <1> QED
    BY <1>3, <1>4, <1>5, <1>6, <1>7, <1>8, <1>9, <1>10 DEF ClientStep

\* What a lookup becomes keeps the rest as it is.
LEMMA LookupsKept ==
  ASSUME ClientInv, UNCHANGED services, NEW c \in Callers, NEW m, \E q : Becomes(c, m, q)
  PROVE  /\ ServicesInv' /\ LookupsInv'
         /\ lookup'[c].method = m
         /\ \A d \in Callers : d # c => lookup'[d] = lookup[d]
  <1>1. PICK q : Becomes(c, m, q)
    OBVIOUS
  <1>2. q \in Lookup /\ lookup \in [Callers -> Lookup]
    BY <1>1 DEF Becomes, GoodLookup, ClientInv, LookupsInv
  <1>3. /\ lookup' \in [Callers -> Lookup] /\ lookup'[c] = q
        /\ \A d \in Callers : d # c => lookup'[d] = lookup[d]
    BY <1>1, <1>2, UpdateAt DEF Becomes
  <1>4. version' = version /\ age' = age /\ keys' = keys
    BY DEF services
  <1>5. \A d \in Callers : GoodLookup(age, keys, lookup'[d])
    BY <1>1, <1>3 DEF Becomes, ClientInv, LookupsInv
  <1> QED
    BY <1>1, <1>3, <1>4, <1>5 DEF Becomes, ClientInv, ServicesInv, LookupsInv

\* A lookup that is over makes place for another one.
LEMMA ResumeBecomes ==
  ASSUME NEW c \in Callers, Resume(c)
  PROVE  /\ \E q : Becomes(c, NoLookup.method, q)
         /\ UNCHANGED <<services, client>>
  <1>1. NoLookup \in Lookup /\ NoLookup.pc = "idle"
    <2>1. "tools" \in Method
      BY DEF Method
    <2> QED
      BY <2>1, FreshLookup
  <1>2. lookup' = [lookup EXCEPT ![c] = NoLookup] /\ UNCHANGED <<services, client>>
    BY DEF Resume
  <1>3. GoodLookup(age, keys, NoLookup)
    BY <1>1 DEF GoodLookup
  <1> QED
    BY <1>2, <1>3 DEF Becomes

-----------------------------------------------------------------------------
(* The services and time.                                                  *)

\* What the registry and AuthService do by themselves.
LEMMA EnvironmentStep ==
  ASSUME ClientInv, Environment
  PROVE  /\ ClientInv'
         /\ age' = age
         /\ \A c \in Callers : lookup'[c].method = lookup[c].method
  <1>0. ServicesInv /\ CachesInv /\ LookupsInv
    BY DEF ClientInv
  <1>1. CASE Publish
    <2>1. /\ version' \in Version /\ version' > version
          /\ UNCHANGED <<age, keys, token, l1, l2, lookup>>
      BY <1>0, <1>1, RegistryAssumption DEF Publish, ServicesInv, Version, client
    <2>2. ServicesInv'
      <3>1. \A v \in Version : v >= version' => v >= version
        BY <1>0, <2>1 DEF ServicesInv, Version
      <3> QED
        BY <1>0, <2>1, <3>1 DEF ServicesInv, GoodAges
    <2> QED
      BY <1>0, <2>1, <2>2 DEF ClientInv, CachesInv, LookupsInv
  <1>2. CASE Rotate
    <2>1. /\ keys' \in Key /\ UNCHANGED <<version, age, token, l1, l2>>
          /\ lookup' = [c \in Callers |-> IF InFlight(c)
                                            THEN [lookup[c] EXCEPT !.trouble = TRUE]
                                            ELSE lookup[c]]
      BY <1>0, <1>2, RegistryAssumption DEF Rotate, ServicesInv, Key, client
    <2>2. ASSUME NEW c \in Callers
          PROVE  GoodLookup(age, keys', lookup'[c]) /\ lookup'[c].method = lookup[c].method
      <3>1. lookup[c] \in Lookup /\ GoodLookup(age, keys, lookup[c])
        BY <1>0 DEF LookupsInv
      <3>2. CASE InFlight(c)
        <4> DEFINE r == lookup[c]
                   q == [r EXCEPT !.trouble = TRUE]
        <4>1. /\ q \in Lookup /\ q.trouble /\ q.pc = r.pc /\ q.ans = r.ans
              /\ q.late = r.late /\ q.method = r.method /\ q.retried = r.retried
          BY <3>1 DEF Lookup
        <4>2. lookup'[c] = q
          BY <2>1, <3>2
        <4> HIDE DEF q
        <4> QED
          BY <3>1, <4>1, <4>2 DEF GoodLookup
      <3>3. CASE ~InFlight(c)
        BY <2>1, <3>1, <3>3 DEF GoodLookup, InFlight
      <3> QED
        BY <3>2, <3>3
    <2>3. LookupsInv'
      <3>1. \A c \in Callers : lookup'[c] \in Lookup
        BY <2>2 DEF GoodLookup
      <3>2. lookup' \in [Callers -> Lookup]
        BY <2>1, <3>1
      <3> QED
        BY <2>1, <2>2, <3>2 DEF LookupsInv
    <2> QED
      BY <1>0, <2>1, <2>2, <2>3 DEF ClientInv, ServicesInv, CachesInv
  <1>3. CASE TokenAges
    BY <1>0, <1>3 DEF TokenAges, services, ClientInv, ServicesInv, CachesInv, LookupsInv
  <1> QED
    BY <1>1, <1>2, <1>3 DEF Environment

\* A tick: versions that were superseded are a tick older at most, all else has one less
\* to go.
LEMMA TickStep ==
  ASSUME ClientInv, TickClient
  PROVE  /\ ClientInv'
         /\ \A v \in Version : age'[v] <= age[v] + 1
         /\ \A c \in Callers : /\ lookup'[c].method = lookup[c].method
                               /\ lookup'[c].pc = lookup[c].pc
  <1>0. ServicesInv /\ CachesInv /\ LookupsInv
    BY DEF ClientInv
  <1>1. /\ age \in [Version -> 0 .. MaxAge] /\ version \in Version
        /\ UNCHANGED <<version, keys, token>>
        /\ age' = [v \in Version |-> IF v < version /\ age[v] < MaxAge THEN age[v] + 1
                                                                      ELSE age[v]]
    BY <1>0 DEF TickClient, ServicesInv, GoodAges
  <1>2. /\ age' \in [Version -> 0 .. MaxAge]
        /\ \A v \in Version : age'[v] <= age[v] + 1
    <2> SUFFICES ASSUME NEW v \in Version
                 PROVE  age'[v] \in 0 .. MaxAge /\ age'[v] <= age[v] + 1
      BY <1>1
    <2>1. age[v] \in 0 .. MaxAge
      BY <1>1
    <2> QED
      BY <1>1, <2>1, ConstantValues
  <1>3. ServicesInv'
    <2>1. \A v \in Version : v >= version => age'[v] = age[v]
      BY <1>1 DEF Version
    <2> QED
      BY <1>0, <1>1, <1>2, <2>1 DEF ServicesInv, GoodAges
  <1>4. CachesInv'
    <2>1. /\ l1' = [m \in Method |-> Older(l1[m])] /\ l2' = [m \in Method |-> Older(l2[m])]
      BY DEF TickClient
    <2>2. ASSUME NEW m \in Method
          PROVE  /\ Older(l1[m]) \in Entry(Ttl)
                 /\ GoodEntry(age', Ttl, MaxStale(m) + 1, Older(l1[m]))
                 /\ Older(l2[m]) \in Entry(RagTtl)
                 /\ GoodEntry(age', RagTtl, RagTtl + 1, Older(l2[m]))
      <3>1. MaxStale(m) + 1 \in Nat /\ RagTtl + 1 \in Nat /\ Ttl \in Nat /\ RagTtl \in Nat
        BY StaleValues, ConstantValues
      <3>2. /\ GoodEntry(age, Ttl, MaxStale(m) + 1, l1[m])
            /\ GoodEntry(age, RagTtl, RagTtl + 1, l2[m])
        BY <1>0 DEF CachesInv
      <3> QED
        BY <1>1, <1>2, <3>1, <3>2, OlderEntry
    <2> QED
      BY <1>0, <1>1, <2>1, <2>2 DEF CachesInv
  <1>5. ASSUME NEW c \in Callers
        PROVE  /\ GoodLookup(age', keys', lookup'[c])
               /\ lookup'[c].method = lookup[c].method /\ lookup'[c].pc = lookup[c].pc
    <2> DEFINE r == lookup[c]
               q == [r EXCEPT !.late = InFlight(c)]
    <2>1. r \in Lookup /\ GoodLookup(age, keys, r)
      BY <1>0 DEF LookupsInv
    <2>2. ~r.late /\ (InFlight(c) \/ r.pc = "idle")
      BY DEF TickClient
    <2>3. lookup'[c] = q
      BY DEF TickClient
    <2>4. InFlight(c) \in BOOLEAN
      BY DEF InFlight
    <2>5. /\ q \in Lookup /\ q.late = InFlight(c) /\ q.pc = r.pc /\ q.ans = r.ans
          /\ q.trouble = r.trouble /\ q.method = r.method /\ q.retried = r.retried
          /\ q.tok = r.tok
      BY <2>1, <2>4 DEF Lookup
    <2> HIDE DEF q
    <2>6. r.pc \notin {"returned", "failed"}
      BY <2>2 DEF InFlight
    <2>7. r.pc \in {"got", "store"} => age'[r.ans] <= Lag(q.late)
      <3> SUFFICES ASSUME r.pc \in {"got", "store"} PROVE age'[r.ans] <= Lag(q.late)
        OBVIOUS
      <3>1. age[r.ans] <= 0
        BY <2>1, <2>2 DEF GoodLookup, Lag
      <3>2. r.ans \in Version
        BY <2>1, LookupFields
      <3>3. age'[r.ans] <= age[r.ans] + 1 /\ age[r.ans] \in Nat /\ age'[r.ans] \in Nat
        BY <1>1, <1>2, <3>2, ConstantValues
      <3>4. q.late
        BY <2>5 DEF InFlight
      <3>5. Lag(q.late) = 1
        BY <3>4 DEF Lag
      <3> QED
        BY <3>1, <3>3, <3>5
    <2>8. r.pc = "hit" => age'[r.ans] <= RagTtl + Lag(q.late)
      <3> SUFFICES ASSUME r.pc = "hit" PROVE age'[r.ans] <= RagTtl + Lag(q.late)
        OBVIOUS
      <3>1. age[r.ans] <= RagTtl + 0
        BY <2>1, <2>2 DEF GoodLookup, Lag
      <3>2. r.ans \in Version
        BY <2>1, LookupFields
      <3>3. age'[r.ans] <= age[r.ans] + 1 /\ age[r.ans] \in Nat /\ age'[r.ans] \in Nat
        BY <1>1, <1>2, <3>2, ConstantValues
      <3>4. q.late
        BY <2>5 DEF InFlight
      <3>5. Lag(q.late) = 1
        BY <3>4 DEF Lag
      <3> QED
        BY <3>1, <3>3, <3>5, ConstantValues
    <2> QED
      BY <1>1, <2>1, <2>3, <2>5, <2>6, <2>7, <2>8 DEF GoodLookup
  <1>6. LookupsInv'
    <2>1. \A c \in Callers : lookup'[c] \in Lookup
      BY <1>5 DEF GoodLookup
    <2>2. lookup' \in [Callers -> Lookup]
      BY <2>1 DEF TickClient
    <2> QED
      BY <1>5, <2>2 DEF LookupsInv
  <1> QED
    BY <1>2, <1>3, <1>4, <1>5, <1>6 DEF ClientInv

-----------------------------------------------------------------------------
(* The calls of tools.                                                     *)

\* The calls the dispatcher makes out of one.
LEMMA CallGoesTo ==
  ASSUME NEW r \in Call, NEW pc \in CallPc
  PROVE  LET q == [r EXCEPT !.pc = pc] IN
           q \in Call /\ q.pc = pc /\ q.v = r.v /\ q.old = r.old /\ q.late = r.late
  BY DEF Call

LEMMA CallEnds ==
  ASSUME NEW r \in Call, NEW pc \in CallPc
  PROVE  LET q == [r EXCEPT !.pc = pc, !.late = FALSE] IN q \in Call /\ q.pc = pc
  BY DEF Call

\* One call moves, and its lookup alone.
LEMMA CallsKept ==
  ASSUME CallsInv, age' = age, NEW c \in Callers, NEW q, GoodCall(age, q),
         call' = [call EXCEPT ![c] = q],
         q.pc = "contract" => lookup'[c].method = "tools",
         \A d \in Callers : d # c => lookup'[d].method = lookup[d].method,
         GoodResponse(age, responses')
  PROVE  CallsInv'
  <1>1. q \in Call /\ call \in [Callers -> Call]
    BY DEF GoodCall, CallsInv
  <1>2. /\ call' \in [Callers -> Call] /\ call'[c] = q
        /\ \A d \in Callers : d # c => call'[d] = call[d]
    BY <1>1, UpdateAt
  <1> QED
    BY <1>2 DEF CallsInv

\* The call goes to pc, or ends there, with a contract that is young enough.
LEMMA SetGood ==
  ASSUME NEW c \in Callers, NEW r \in Call, NEW pc \in CallPc, Set(c, r, pc),
         pc \in {"cache", "secret", "run", "store"} => age[r.v] <= Ttl + Lag(r.late),
         pc = "hit" => /\ age[r.v] <= Ttl + ToolTtl + Lag(r.late)
                       /\ r.old <= ToolTtl + Lag(r.late),
         pc \notin {"hit", "done", "failed"} => r.old = 0
  PROVE  \E q : GoodCall(age, q) /\ call' = [call EXCEPT ![c] = q] /\ q.pc = pc
  <1> DEFINE q == [r EXCEPT !.pc = pc]
  <1>1. q \in Call /\ q.pc = pc /\ q.v = r.v /\ q.old = r.old /\ q.late = r.late
    BY CallGoesTo
  <1>2. call' = [call EXCEPT ![c] = q]
    BY DEF Set
  <1> HIDE DEF q
  <1>3. 0 <= Lag(q.late)
    BY DEF Lag
  <1>4. GoodCall(age, q)
    BY <1>1, <1>3 DEF GoodCall
  <1> QED
    BY <1>1, <1>2, <1>4

LEMMA EndGood ==
  ASSUME NEW c \in Callers, NEW r \in Call, NEW pc \in {"done", "failed"}, End(c, r, pc)
  PROVE  \E q : GoodCall(age, q) /\ call' = [call EXCEPT ![c] = q] /\ q.pc = pc
  <1> DEFINE q == [r EXCEPT !.pc = pc, !.late = FALSE]
  <1>0. pc \in CallPc
    BY DEF CallPc
  <1>1. q \in Call /\ q.pc = pc
    BY <1>0, CallEnds
  <1>2. call' = [call EXCEPT ![c] = q]
    BY DEF End
  <1> HIDE DEF q
  <1>3. GoodCall(age, q)
    BY <1>1 DEF GoodCall
  <1> QED
    BY <1>1, <1>2, <1>3

\* A call that starts: the client is asked for the tools.
LEMMA DispatchStep ==
  ASSUME Inv, NEW c \in Callers, Dispatch(c)
  PROVE  Inv'
  <1>1. /\ call[c].pc = "none" /\ LookUp(c, "tools") /\ responses' = responses
        /\ call' = [call EXCEPT ![c] = [call[c] EXCEPT !.pc = "contract"]]
    BY DEF Dispatch
  <1>2. "tools" \in Method /\ UNCHANGED <<services, client>>
    BY <1>1 DEF LookUp, Method
  <1>3. \E q : Becomes(c, "tools", q)
    BY <1>1, <1>2, LookUpBecomes DEF Inv
  <1>4. /\ ServicesInv' /\ LookupsInv' /\ lookup'[c].method = "tools"
        /\ \A d \in Callers : d # c => lookup'[d] = lookup[d]
    BY <1>2, <1>3, LookupsKept DEF Inv
  <1>5. age' = age /\ CachesInv'
    BY <1>2 DEF services, client, Inv, ClientInv, CachesInv
  <1>6. CallsInv'
    <2> DEFINE q == [call[c] EXCEPT !.pc = "contract"]
    <2>1. call[c] \in Call /\ GoodCall(age, call[c])
      BY DEF Inv, CallsInv
    <2>2. q \in Call /\ q.pc = "contract" /\ q.old = call[c].old
      BY <2>1, CallGoesTo DEF CallPc
    <2>3. call' = [call EXCEPT ![c] = q]
      BY <1>1
    <2> HIDE DEF q
    <2>4. GoodCall(age, q)
      BY <1>1, <2>1, <2>2 DEF GoodCall
    <2>5. CallsInv /\ GoodResponse(age, responses')
      BY <1>1 DEF Inv, CallsInv
    <2> QED
      BY <1>4, <1>5, <2>3, <2>4, <2>5, CallsKept
  <1> QED
    BY <1>4, <1>5, <1>6 DEF Inv, ClientInv

\* The contract is there, or not.
LEMMA ResolveContractStep ==
  ASSUME Inv, NEW c \in Callers, ResolveContract(c)
  PROVE  Inv'
  <1> DEFINE v == lookup[c].ans
             r == [call[c] EXCEPT !.v = v]
  <1>1. /\ call[c].pc = "contract" /\ Resume(c) /\ responses' = responses
        /\ lookup[c].pc \in {"returned", "failed"}
        /\ \/ Set(c, call[c], "failed")
           \/ /\ lookup[c].pc # "failed"
              /\ \E pc \in {"done", "cache", "secret", "run"} : Set(c, r, pc)
    BY DEF ResolveContract, Resume, Execute
  <1>2. (\E q : Becomes(c, NoLookup.method, q)) /\ UNCHANGED <<services, client>>
    BY <1>1, ResumeBecomes
  <1>3. /\ ServicesInv' /\ LookupsInv'
        /\ \A d \in Callers : d # c => lookup'[d] = lookup[d]
    BY <1>2, LookupsKept DEF Inv
  <1>4. age' = age /\ CachesInv'
    BY <1>2 DEF services, client, Inv, ClientInv, CachesInv
  <1>5. /\ call[c] \in Call /\ call[c].old = 0
        /\ lookup[c].method = "tools" /\ lookup[c] \in Lookup
        /\ GoodLookup(age, keys, lookup[c])
    BY <1>1 DEF Inv, CallsInv, GoodCall, ClientInv, LookupsInv
  <1>6. v \in Version
    BY <1>5, LookupFields
  <1>7. r \in Call /\ r.v = v /\ r.old = 0
    BY <1>5, <1>6 DEF Call
  <1>8. lookup[c].pc = "returned" => age[v] <= Ttl + Lag(r.late)
    <2>1. "tools" \in Method /\ "tools" \notin Layered
      BY DEF Method, Layered
    <2>2. lookup[c].pc = "returned" => age[v] <= Ttl
      BY <1>5, <2>1, StaleValues DEF GoodLookup
    <2>3. age[v] \in Nat
      BY <1>6, ConstantValues DEF Inv, ClientInv, ServicesInv, GoodAges
    <2> QED
      BY <2>2, <2>3, ConstantValues DEF Lag
  <1> HIDE DEF r, v
  <1> DEFINE Moves(q) == /\ GoodCall(age, q) /\ call' = [call EXCEPT ![c] = q]
                         /\ q.pc # "contract"
  <1>9. \E q : Moves(q)
    <2>1. CASE Set(c, call[c], "failed")
      BY <1>5, <2>1, SetGood DEF CallPc
    <2>2. ASSUME NEW pc \in {"done", "cache", "secret", "run"}, Set(c, r, pc),
                 lookup[c].pc # "failed"
          PROVE  \E q : Moves(q)
      BY <1>1, <1>7, <1>8, <2>2, SetGood DEF CallPc
    <2> QED
      BY <1>1, <2>1, <2>2
  <1>10. CallsInv'
    <2>1. CallsInv /\ GoodResponse(age, responses')
      BY <1>1 DEF Inv, CallsInv
    <2> QED
      BY <1>3, <1>4, <1>9, <2>1, CallsKept
  <1> QED
    BY <1>3, <1>4, <1>10 DEF Inv, ClientInv

\* The steps of the dispatcher alone.
LEMMA CallStep ==
  ASSUME Inv, NEW c \in Callers,
         \/ CacheRead(c) \/ CacheGet(c) \/ ResolveSecret(c)
         \/ RunTool(c) \/ CacheSet(c) \/ EndCall(c)
  PROVE  Inv'
  <1> DEFINE r == call[c]
  <1>1. UNCHANGED clientVars
    BY DEF CacheRead, CacheGet, ResolveSecret, RunTool, CacheSet, EndCall
  <1>2. ClientInv' /\ age' = age /\ lookup' = lookup
    BY <1>1 DEF clientVars, services, client, Inv, ClientInv, ServicesInv, CachesInv,
                LookupsInv
  <1>3. r \in Call /\ GoodCall(age, r) /\ CallsInv /\ GoodResponse(age, responses)
    BY DEF Inv, CallsInv
  <1>4. /\ r.v \in Version /\ r.old \in 0 .. MaxAge /\ r.late \in BOOLEAN
        /\ age[r.v] \in Nat
    <2>1. r.v \in Version /\ r.old \in 0 .. MaxAge /\ r.late \in BOOLEAN
      BY <1>3 DEF Call
    <2> QED
      BY <2>1, ConstantValues DEF Inv, ClientInv, ServicesInv, GoodAges
  <1>5. ASSUME r.pc \in {"cache", "secret", "run", "store"},
               NEW pc \in {"secret", "run", "store"}, Set(c, r, pc), r.pc # "store"
        PROVE  \E q : /\ GoodCall(age, q) /\ call' = [call EXCEPT ![c] = q]
                      /\ q.pc # "contract"
    <2>1. age[r.v] <= Ttl + Lag(r.late) /\ r.old = 0
      BY <1>3, <1>5 DEF GoodCall
    <2> QED
      BY <1>3, <1>5, <2>1, SetGood DEF CallPc
  <1>6. ASSUME NEW s \in Call, NEW pc \in {"done", "failed"}, End(c, s, pc)
        PROVE  \E q : /\ GoodCall(age, q) /\ call' = [call EXCEPT ![c] = q]
                      /\ q.pc # "contract"
    BY <1>6, EndGood
  <1>7. \E q : /\ GoodCall(age, q) /\ call' = [call EXCEPT ![c] = q]
               /\ q.pc # "contract"
    <2>1. CASE CacheRead(c)
      <3> DEFINE t == [r EXCEPT !.v = responses.v, !.old = responses.old]
      <3>1. /\ r.pc = "cache"
            /\ \/ responses.left > 0 /\ Set(c, t, "hit")
               \/ Set(c, r, "secret") \/ Set(c, r, "run")
        BY <2>1 DEF CacheRead, Execute
      <3>2. /\ responses.v \in Version /\ responses.left \in Nat
            /\ responses.old \in 0 .. MaxAge
        BY <1>3, ConstantValues DEF GoodResponse, Response
      <3>3. /\ t \in Call /\ t.v = responses.v /\ t.old = responses.old
            /\ t.late = r.late
        BY <1>3, <3>2 DEF Call
      <3> HIDE DEF t
      <3>4. ASSUME responses.left > 0, Set(c, t, "hit")
            PROVE  \E q : /\ GoodCall(age, q) /\ call' = [call EXCEPT ![c] = q]
                          /\ q.pc # "contract"
        <4>1. age[responses.v] \in Nat
          BY <3>2, ConstantValues DEF Inv, ClientInv, ServicesInv, GoodAges
        <4>2. Lag(t.late) \in {0, 1}
          BY DEF Lag
        <4>3. age[t.v] <= Ttl + ToolTtl + Lag(t.late) /\ t.old <= ToolTtl + Lag(t.late)
          BY <1>3, <3>2, <3>3, <3>4, <4>1, <4>2, ConstantValues DEF GoodResponse
        <4> QED
          BY <3>3, <3>4, <4>3, SetGood DEF CallPc
      <3> QED
        BY <1>5, <3>1, <3>4
    <2>6. CASE CacheGet(c)
      BY <1>3, <1>6, <2>6 DEF CacheGet
    <2>2. CASE ResolveSecret(c)
      <3>1. r.pc = "secret" /\ (Set(c, r, "run") \/ End(c, r, "failed"))
        BY <2>2 DEF ResolveSecret
      <3> QED
        BY <1>3, <1>5, <1>6, <3>1
    <2>3. CASE RunTool(c)
      <3>1. r.pc = "run" /\ (Set(c, r, "store") \/ End(c, r, "done") \/ End(c, r, "failed"))
        BY <2>3 DEF RunTool
      <3> QED
        BY <1>3, <1>5, <1>6, <3>1
    <2>4. CASE CacheSet(c)
      BY <1>3, <1>6, <2>4 DEF CacheSet
    <2>5. CASE EndCall(c)
      <3>1. NoCall \in Call /\ NoCall.pc = "none" /\ NoCall.old = 0
        BY ConstantValues DEF NoCall, Call, CallPc
      <3>2. GoodCall(age, NoCall)
        BY <3>1 DEF GoodCall
      <3> QED
        BY <2>5, <3>1, <3>2 DEF EndCall
    <2> QED
      BY <2>1, <2>2, <2>3, <2>4, <2>5, <2>6
  <1>8. GoodResponse(age, responses')
    <2>1. CASE responses' = responses
      BY <1>3, <2>1
    <2>2. CASE r.pc = "store" /\ responses' = [v |-> r.v, left |-> ToolTtl, old |-> r.old]
      <3>1. age[r.v] <= Ttl + Lag(r.late) /\ r.old <= Lag(r.late)
        BY <1>3, <2>2 DEF GoodCall
      <3>2. age[r.v] <= Ttl + 1 /\ r.old <= 1
        BY <1>4, <3>1, ConstantValues DEF Lag
      <3>3. responses' \in Response
        BY <1>4, <2>2, ConstantValues DEF Response
      <3> QED
        BY <1>4, <2>2, <3>2, <3>3, ConstantValues DEF GoodResponse
    <2> QED
      BY <2>1, <2>2 DEF CacheRead, CacheGet, ResolveSecret, RunTool, CacheSet, EndCall
  <1> QED
    BY <1>2, <1>3, <1>7, <1>8, CallsKept DEF Inv

\* Steps of the client alone leave the calls as good as they are.
LEMMA CallsUntouched ==
  ASSUME CallsInv, age' = age, UNCHANGED toolVars,
         \A c \in Callers : call[c].pc = "contract" => lookup'[c].method = lookup[c].method
  PROVE  CallsInv'
  BY DEF CallsInv, toolVars

LEMMA ClientAlone ==
  ASSUME Inv, NEW c \in Callers, UNCHANGED toolVars,
         \/ /\ call[c].pc = "none"
            /\ Resume(c) \/ \E m \in Lookups : LookUp(c, m)
         \/ ClientStep(c)
  PROVE  Inv'
  <1>1. ClientInv /\ CallsInv
    BY DEF Inv
  <1>2. CASE ClientStep(c)
    <2>1. /\ \E q : Becomes(c, lookup[c].method, q)
          /\ CachesInv' /\ UNCHANGED services
      BY <1>1, <1>2, ClientStepBecomes
    <2>2. /\ ServicesInv' /\ LookupsInv' /\ lookup'[c].method = lookup[c].method
          /\ \A d \in Callers : d # c => lookup'[d] = lookup[d]
      BY <1>1, <2>1, LookupsKept
    <2>3. \A d \in Callers : lookup'[d].method = lookup[d].method
      BY <2>2
    <2>4. age' = age
      BY <2>1 DEF services
    <2> QED
      BY <1>1, <2>1, <2>2, <2>3, <2>4, CallsUntouched DEF Inv, ClientInv
  <1>3. CASE /\ call[c].pc = "none"
             /\ Resume(c) \/ \E m \in Lookups : LookUp(c, m)
    <2>1. /\ UNCHANGED <<services, client>>
          /\ \E m : \E q : Becomes(c, m, q)
      <3>1. CASE Resume(c)
        BY <3>1, ResumeBecomes
      <3>2. ASSUME NEW m \in Lookups, LookUp(c, m)
            PROVE  UNCHANGED <<services, client>> /\ \E q : Becomes(c, m, q)
        <4>1. m \in Method
          BY RegistryAssumption
        <4>2. \E q : Becomes(c, m, q)
          BY <1>1, <3>2, <4>1, LookUpBecomes
        <4> QED
          BY <3>2, <4>2 DEF LookUp
      <3> QED
        BY <1>3, <3>1, <3>2
    <2>2. /\ ServicesInv' /\ LookupsInv'
          /\ \A d \in Callers : d # c => lookup'[d] = lookup[d]
      BY <1>1, <2>1, LookupsKept
    <2>3. age' = age /\ CachesInv'
      BY <1>1, <2>1 DEF services, client, ClientInv, CachesInv
    <2>4. \A d \in Callers : call[d].pc = "contract"
            => lookup'[d].method = lookup[d].method
      BY <1>3, <2>2
    <2> QED
      BY <1>1, <2>2, <2>3, <2>4, CallsUntouched DEF Inv, ClientInv
  <1> QED
    BY <1>2, <1>3

\* A tick makes the calls late that are under way, and the responses older.
LEMMA TickKeeps ==
  ASSUME Inv, Tick
  PROVE  Inv'
  <1>1. /\ ClientInv'
        /\ \A v \in Version : age'[v] <= age[v] + 1
        /\ \A c \in Callers : lookup'[c].method = lookup[c].method
    BY TickStep DEF Inv, Tick
  <1>2. /\ age \in [Version -> 0 .. MaxAge] /\ age' \in [Version -> 0 .. MaxAge]
    BY <1>1 DEF Inv, ClientInv, ServicesInv, GoodAges
  <1>3. \A n \in 0 .. MaxAge : /\ OlderBy(n) \in 0 .. MaxAge
                               /\ OlderBy(n) <= n + 1
    BY ConstantValues DEF OlderBy
  <1>4. ASSUME NEW c \in Callers
        PROVE  GoodCall(age', call'[c]) /\ call'[c].pc = call[c].pc
    <2> DEFINE r == call[c]
               old == IF r.pc \in {"hit", "store"} THEN OlderBy(r.old) ELSE r.old
               q == [r EXCEPT !.late = Running(c), !.old = old]
    <2>1. r \in Call /\ GoodCall(age, r) /\ ~r.late /\ call'[c] = q
      BY DEF Inv, CallsInv, Tick
    <2>2. /\ r.v \in Version /\ r.old \in 0 .. MaxAge /\ Running(c) \in BOOLEAN
          /\ r.pc \in CallPc
      BY <2>1 DEF Call, Running
    <2>3. old \in 0 .. MaxAge
      BY <1>3, <2>2
    <2>4. /\ q \in Call /\ q.pc = r.pc /\ q.v = r.v /\ q.late = Running(c) /\ q.old = old
      BY <2>1, <2>2, <2>3 DEF Call
    <2> HIDE DEF q
    <2>5. Running(c) <=> r.pc \in {"cache", "hit", "secret", "run", "store"}
      BY DEF Running
    <2>6. r.pc \in {"cache", "hit", "secret", "run", "store"} => Lag(q.late) = 1
      BY <2>4, <2>5 DEF Lag
    <2>7. Lag(r.late) = 0
      BY <2>1 DEF Lag
    <2>8. r.pc \in {"cache", "secret", "run", "store"} => age'[r.v] <= Ttl + 1
      <3>1. age[r.v] \in Nat /\ age'[r.v] \in Nat /\ age'[r.v] <= age[r.v] + 1
        BY <1>1, <1>2, <2>2, ConstantValues
      <3> QED
        BY <2>1, <2>7, <3>1, ConstantValues DEF GoodCall
    <2>9. r.pc = "store" => old <= 1
      <3> SUFFICES ASSUME r.pc = "store" PROVE OlderBy(r.old) <= 1
        OBVIOUS
      <3>1. r.old <= 0
        BY <2>1, <2>7 DEF GoodCall
      <3>2. OlderBy(r.old) <= r.old + 1 /\ OlderBy(r.old) \in 0 .. MaxAge
        BY <1>3, <2>2
      <3> QED
        BY <2>2, <3>1, <3>2, ConstantValues
    <2>10. r.pc \in {"none", "contract", "cache", "secret", "run"} => old = 0
      BY <2>1 DEF GoodCall
    <2>11. r.pc = "hit" => age'[r.v] <= Ttl + ToolTtl + 1 /\ old <= ToolTtl + 1
      <3> SUFFICES ASSUME r.pc = "hit"
                   PROVE  age'[r.v] <= Ttl + ToolTtl + 1 /\ OlderBy(r.old) <= ToolTtl + 1
        OBVIOUS
      <3>1. age[r.v] <= Ttl + ToolTtl + 0 /\ r.old <= ToolTtl + 0
        BY <2>1, <2>7 DEF GoodCall
      <3>2. age[r.v] \in Nat /\ age'[r.v] \in Nat /\ age'[r.v] <= age[r.v] + 1
        BY <1>1, <1>2, <2>2, ConstantValues
      <3>3. OlderBy(r.old) <= r.old + 1 /\ OlderBy(r.old) \in 0 .. MaxAge
        BY <1>3, <2>2
      <3> QED
        BY <2>2, <3>1, <3>2, <3>3, ConstantValues
    <2> HIDE DEF r, old
    <2>12. GoodCall(age', q)
      BY <2>4, <2>6, <2>8, <2>9, <2>10, <2>11 DEF GoodCall
    <2> QED
      BY <2>1, <2>4, <2>12 DEF r
  <1>5. call' \in [Callers -> Call]
    <2>1. \A c \in Callers : call'[c] \in Call
      BY <1>4 DEF GoodCall
    <2> QED
      BY <2>1 DEF Tick
  <1>6. GoodResponse(age', responses')
    <2> DEFINE e == responses
    <2>1. e \in Response /\ GoodResponse(age, e)
      BY DEF Inv, CallsInv, GoodResponse
    <2>2. e.v \in Version /\ e.left \in 0 .. ToolTtl /\ e.old \in 0 .. MaxAge
      BY <2>1 DEF Response
    <2>3. CASE e.left <= 1
      <3>1. responses' = NoResponse
        BY <2>3 DEF Tick
      <3> QED
        BY <3>1, ConstantValues DEF NoResponse, GoodResponse, Response
    <2>4. CASE ~(e.left <= 1)
      <3>1. responses' = [e EXCEPT !.left = e.left - 1, !.old = OlderBy(e.old)]
        BY <2>4 DEF Tick
      <3>2. e.left - 1 \in 0 .. ToolTtl /\ OlderBy(e.old) \in 0 .. MaxAge
        BY <1>3, <2>2, <2>4, ConstantValues
      <3>3. /\ responses' \in Response /\ responses'.v = e.v
            /\ responses'.left = e.left - 1 /\ responses'.old = OlderBy(e.old)
        BY <2>1, <3>1, <3>2 DEF Response
      <3>4. /\ age[e.v] \in Nat /\ age'[e.v] \in Nat /\ age'[e.v] <= age[e.v] + 1
            /\ OlderBy(e.old) <= e.old + 1
        BY <1>1, <1>2, <1>3, <2>2, ConstantValues
      <3>5. /\ age[e.v] + e.left <= Ttl + ToolTtl + 1
            /\ e.old + e.left <= ToolTtl + 1
        BY <2>1, <2>2, <2>4 DEF GoodResponse
      <3>6. /\ age'[e.v] + (e.left - 1) <= Ttl + ToolTtl + 1
            /\ OlderBy(e.old) + (e.left - 1) <= ToolTtl + 1
        BY <2>2, <3>2, <3>4, <3>5, ConstantValues
      <3> QED
        BY <3>3, <3>6 DEF GoodResponse
    <2> QED
      BY <2>3, <2>4
  <1> QED
    BY <1>1, <1>4, <1>5, <1>6 DEF Inv, CallsInv

-----------------------------------------------------------------------------
(* The invariant, and the properties.                                      *)

LEMMA InvInit == Init => Inv
  <1> SUFFICES ASSUME Init PROVE Inv
    OBVIOUS
  <1> USE DEF Init, InitClient
  <1>1. ServicesInv
    BY ConstantValues DEF ServicesInv, GoodAges
  <1>2. CachesInv
    <2>1. ASSUME NEW m \in Method
          PROVE  /\ NoEntry \in Entry(Ttl) /\ GoodEntry(age, Ttl, MaxStale(m) + 1, NoEntry)
                 /\ NoEntry \in Entry(RagTtl)
                 /\ GoodEntry(age, RagTtl, RagTtl + 1, NoEntry)
      <3>1. MaxStale(m) + 1 \in Nat /\ RagTtl + 1 \in Nat
        BY StaleValues, ConstantValues
      <3> QED
        BY <3>1, EmptyEntry, ConstantValues
    <2> QED
      BY <2>1 DEF CachesInv
  <1>3. LookupsInv
    <2>1. NoLookup \in Lookup /\ NoLookup.pc = "idle"
      BY FreshLookup DEF Method
    <2>2. GoodLookup(age, keys, NoLookup)
      BY <2>1 DEF GoodLookup
    <2> QED
      BY <2>1, <2>2 DEF LookupsInv
  <1>4. CallsInv
    <2>1. NoCall \in Call /\ NoCall.pc = "none" /\ NoCall.old = 0
      BY ConstantValues DEF NoCall, Call, CallPc
    <2>2. GoodCall(age, NoCall)
      BY <2>1 DEF GoodCall
    <2>3. GoodResponse(age, NoResponse)
      BY ConstantValues DEF GoodResponse, NoResponse, Response
    <2> QED
      BY <2>1, <2>2, <2>3 DEF CallsInv
  <1> QED
    BY <1>1, <1>2, <1>3, <1>4 DEF Inv, ClientInv

LEMMA InvStep ==
  ASSUME Inv, [Next]_vars
  PROVE  Inv'
  <1>1. ASSUME NEW c \in Callers,
               \/ Dispatch(c) \/ ResolveContract(c) \/ CacheRead(c) \/ CacheGet(c)
               \/ ResolveSecret(c) \/ RunTool(c) \/ CacheSet(c) \/ EndCall(c)
        PROVE  Inv'
    BY <1>1, DispatchStep, ResolveContractStep, CallStep
  <1>2. ASSUME NEW c \in Callers, UNCHANGED toolVars,
               \/ /\ call[c].pc = "none"
                  /\ Resume(c) \/ \E m \in Lookups : LookUp(c, m)
               \/ ClientStep(c)
        PROVE  Inv'
    BY <1>2, ClientAlone
  <1>3. CASE Environment /\ UNCHANGED toolVars
    <2>1. /\ ClientInv' /\ age' = age
          /\ \A c \in Callers : lookup'[c].method = lookup[c].method
      BY <1>3, EnvironmentStep DEF Inv
    <2> QED
      BY <1>3, <2>1, CallsUntouched DEF Inv
  <1>4. CASE Tick
    BY <1>4, TickKeeps
  <1>5. CASE UNCHANGED vars
    BY <1>5 DEF vars, clientVars, services, client, toolVars, Inv, ClientInv, ServicesInv,
                CachesInv, LookupsInv, CallsInv
  <1> QED
    BY <1>1, <1>2, <1>3, <1>4, <1>5 DEF Next

\* The budgets hold, for any coroutines, times to live, registry and bounds.
THEOREM BudgetsHold == Spec => []Inv
  BY InvInit, InvStep, PTL DEF Spec

\* Every variable has its type.
THEOREM TypeCorrect == Spec => []TypeOK
  <1>1. Inv => TypeOK
    BY DEF Inv, ClientInv, ServicesInv, GoodAges, CachesInv, LookupsInv, CallsInv,
           GoodResponse, TypeOK, ClientTypeOK
  <1> QED
    BY <1>1, BudgetsHold, PTL

\* A lookup that nothing disturbed does not fail: after one refusal it comes with the
\* latest token.
THEOREM HealthySucceed == Spec => []HealthyLookupsSucceed
  <1>1. Inv => HealthyLookupsSucceed
    BY DEF Inv, ClientInv, LookupsInv, GoodLookup, HealthyLookupsSucceed
  <1> QED
    BY <1>1, BudgetsHold, PTL

\* No tool is run by a contract that was superseded for longer than the cache keeps it
\* and a call takes.
THEOREM ContractsCurrent == Spec => ContractsAreCurrent
  <1>1. Inv => [\A c \in Callers :
                  call[c].pc = "run" /\ call'[c].pc # "run" => age[call[c].v] <= Ttl + 1]_vars
    <2> SUFFICES ASSUME Inv, NEW c \in Callers, call[c].pc = "run"
                 PROVE  age[call[c].v] <= Ttl + 1
      OBVIOUS
    <2>1. call[c] \in Call /\ GoodCall(age, call[c])
      BY DEF Inv, CallsInv
    <2>2. age[call[c].v] \in Nat
      BY <2>1, ConstantValues DEF Call, Inv, ClientInv, ServicesInv, GoodAges
    <2>3. Lag(call[c].late) \in {0, 1}
      BY DEF Lag
    <2> QED
      BY <2>1, <2>2, <2>3, ConstantValues DEF GoodCall
  <1> QED
    BY <1>1, BudgetsHold, PTL DEF ContractsAreCurrent

\* Only CacheGet answers a call out of the cache, with what was read there.
LEMMA AnsweredFromCache ==
  ASSUME Inv, [Next]_vars, NEW c \in Callers, call[c].pc = "hit", call'[c].pc = "done"
  PROVE  call'[c].v = call[c].v /\ call'[c].old = call[c].old
  <1>1. call \in [Callers -> Call] /\ call[c] \in Call
    BY DEF Inv, CallsInv
  <1>2. ASSUME NEW d \in Callers, NEW q, call' = [call EXCEPT ![d] = q] PROVE d = c
    BY <1>1, <1>2
  <1>3. CacheGet(c)
    <2>1. ASSUME NEW d \in Callers, Dispatch(d) \/ ResolveContract(d) \/ CacheRead(d)
                                      \/ ResolveSecret(d) \/ RunTool(d) \/ CacheSet(d)
                                      \/ EndCall(d)
          PROVE  FALSE
      <3>1. \E q : call' = [call EXCEPT ![d] = q]
        BY <2>1 DEF Dispatch, ResolveContract, CacheRead, ResolveSecret, RunTool, CacheSet,
                    EndCall, Set, End, Execute
      <3>2. d = c
        BY <1>2, <3>1
      <3>3. call[d].pc # "hit"
        BY <2>1 DEF Dispatch, ResolveContract, CacheRead, ResolveSecret, RunTool, CacheSet,
                    EndCall
      <3> QED
        BY <3>2, <3>3
    <2>2. ASSUME NEW d \in Callers, CacheGet(d) PROVE CacheGet(c)
      <3>1. \E q : call' = [call EXCEPT ![d] = q]
        BY <2>2 DEF CacheGet, End
      <3> QED
        BY <1>2, <2>2, <3>1
    <2>3. UNCHANGED call => FALSE
      OBVIOUS
    <2>4. Tick => FALSE
      <3> SUFFICES ASSUME Tick PROVE call'[c].pc = call[c].pc
        OBVIOUS
      <3> DEFINE old == IF call[c].pc \in {"hit", "store"} THEN OlderBy(call[c].old)
                        ELSE call[c].old
      <3>1. call'[c] = [call[c] EXCEPT !.late = Running(c), !.old = old]
        BY DEF Tick
      <3> HIDE DEF old
      <3> QED
        BY <1>1, <3>1 DEF Call
    <2>5. UNCHANGED toolVars \/ UNCHANGED vars => UNCHANGED call
      BY DEF toolVars, vars
    <2> QED
      BY <2>1, <2>2, <2>3, <2>4, <2>5 DEF Next
  <1>4. call'[c] = [call[c] EXCEPT !.pc = "done", !.late = FALSE]
    BY <1>1, <1>3 DEF CacheGet, End
  <1> QED
    BY <1>1, <1>4 DEF Call

\* What is answered out of the cache is as old as its budget allows.
THEOREM AnswersCurrent == Spec => AnswersAreCurrent
  <1>1. Inv /\ [Next]_vars
          => [\A c \in Callers :
                call[c].pc = "hit" /\ call'[c].pc = "done"
                  => /\ call'[c].old <= ToolTtl + 1
                     /\ age[call'[c].v] <= Ttl + ToolTtl + 1]_vars
    <2> SUFFICES ASSUME Inv, [Next]_vars, NEW c \in Callers,
                        call[c].pc = "hit", call'[c].pc = "done"
                 PROVE  /\ call'[c].old <= ToolTtl + 1
                        /\ age[call'[c].v] <= Ttl + ToolTtl + 1
      OBVIOUS
    <2>1. call'[c].v = call[c].v /\ call'[c].old = call[c].old
      BY AnsweredFromCache
    <2>2. call[c] \in Call /\ GoodCall(age, call[c])
      BY DEF Inv, CallsInv
    <2>3. call[c].v \in Version /\ call[c].old \in Nat
      BY <2>2, ConstantValues DEF Call
    <2>4. age[call[c].v] \in Nat
      BY <2>3, ConstantValues DEF Inv, ClientInv, ServicesInv, GoodAges
    <2>5. Lag(call[c].late) \in {0, 1}
      BY DEF Lag
    <2>6. /\ age[call[c].v] <= Ttl + ToolTtl + Lag(call[c].late)
          /\ call[c].old <= ToolTtl + Lag(call[c].late)
      BY <2>2 DEF GoodCall
    <2> QED
      BY <2>1, <2>3, <2>4, <2>5, <2>6, ConstantValues
  <1> QED
    BY <1>1, BudgetsHold, PTL DEF Spec, AnswersAreCurrent

\* Ages change by ticks alone, and no lookup returns in a tick.
LEMMA ReturnsBetweenTicks ==
  ASSUME Inv, [Next]_vars
  PROVE  age' = age \/ \A c \in Callers : lookup'[c].pc = lookup[c].pc
  <1>1. Tick => \A c \in Callers : lookup'[c].pc = lookup[c].pc
    BY TickStep DEF Inv, Tick
  <1>2. ASSUME NEW c \in Callers, ClientStep(c) PROVE age' = age
    BY <1>2 DEF ClientStep, RedisRead, RedisGet, Authenticate, Answered, Unauthorized,
                Fails, Receive, RedisSet, services
  <1>3. ASSUME NEW c \in Callers PROVE Resume(c) \/ (\E m \in Lookups : LookUp(c, m)) => age' = age
    BY DEF Resume, LookUp, services
  <1>4. ASSUME NEW c \in Callers,
               \/ Dispatch(c) \/ ResolveContract(c) \/ CacheRead(c) \/ CacheGet(c)
               \/ ResolveSecret(c) \/ RunTool(c) \/ CacheSet(c) \/ EndCall(c)
        PROVE  age' = age
    BY <1>4 DEF Dispatch, LookUp, ResolveContract, Resume, CacheRead, CacheGet, ResolveSecret,
                RunTool, CacheSet, EndCall, clientVars, services
  <1>5. Environment => age' = age
    BY DEF Environment, Publish, Rotate, TokenAges, services
  <1>6. UNCHANGED vars => age' = age
    BY DEF vars, clientVars, services
  <1> QED
    BY <1>1, <1>2, <1>3, <1>4, <1>5, <1>6 DEF Next

\* No lookup returns what was superseded for longer than the times to live add up to,
\* in whatever order lookups fill the caches.
THEOREM StalenessBounded == Spec => BoundedStaleness
  <1>1. Inv /\ Inv' /\ [Next]_vars
          => [\A c \in Callers :
                lookup[c].pc # "returned" /\ lookup'[c].pc = "returned"
                  => age[lookup'[c].ans] <= MaxStale(lookup'[c].method)]_clientVars
    <2> SUFFICES ASSUME Inv, Inv', [Next]_vars, NEW c \in Callers,
                        lookup[c].pc # "returned", lookup'[c].pc = "returned"
                 PROVE  age[lookup'[c].ans] <= MaxStale(lookup'[c].method)
      OBVIOUS
    <2>1. age' = age
      BY ReturnsBetweenTicks
    <2>2. GoodLookup(age', keys', lookup'[c])
      BY DEF Inv, ClientInv, LookupsInv
    <2> QED
      BY <2>1, <2>2 DEF GoodLookup
  <1>2. Inv /\ [Next]_vars => Inv'
    BY InvStep
  <1> QED
    BY <1>1, <1>2, BudgetsHold, PTL DEF Spec, BoundedStaleness
=============================================================================

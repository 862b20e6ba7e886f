-------------------------- MODULE EvolutionJob_proofs --------------------------
(***************************************************************************)
(* Proofs about EvolutionJob, for any sessions, plans, batch size and       *)
(* thresholds within its assumptions: that decisions stand, that every      *)
(* variable has its type, that what is suggested was seen, and that no job  *)
(* contradicts itself.  What a window adds up to is in PlanPatterns_proofs. *)
(***************************************************************************)
EXTENDS EvolutionJob, PlanPatterns_proofs

\* The types the proof needs; of the counts, only that they are numbers.
RowsOK    == suggestions \in [Rule -> [pending : Nat, decided : Nat]]
SessionOK == session \in [Sessions -> Session]

\* What makes DecisionsStand inductive: a decision cannot be taken back, so that what was
\* decided when a job read the plans is decided when it checks its candidates; and
\* nothing was added before it read them.
SettledIsDecided == \A s \in Sessions : session[s].settled \subseteq Decided
AddsLast == \A s \in Sessions : session[s].pc \in {"count", "fetch"} => session[s].added = {}

Inv == RowsOK /\ SessionOK /\ SettledIsDecided /\ AddsLast /\ DecisionsStand

\* What is extracted from a window are rules.
LEMMA CandidatesAreRules == \A w : Candidates(w) \in SUBSET Rule
  BY Zenon DEF Candidates

\* A candidate that was decided is found among the rows.
LEMMA DecidedIsFound ==
  ASSUME RowsOK, NEW r \in Rule, r \in Decided
  PROVE  Duplicates(r) # {}
  <1>1. suggestions[r].decided \in Nat /\ suggestions[r].decided > 0
    BY DEF RowsOK, Decided
  <1>2. <<r, 1>> \in {r} \X (1 .. suggestions[r].decided)
    BY <1>1
  <1>3. r \in IF r \in Orderings THEN {r} ELSE Parallels
    BY DEF Rule
  <1> QED
    BY <1>2, <1>3 DEF Duplicates

\* The fields of a session.
LEMMA SessionFields ==
  ASSUME NEW t \in Session
  PROVE  t.todo \subseteq Rule /\ t.added \subseteq Rule /\ t.settled \subseteq Rule
  BY DEF Session

\* A session that is none, one that saves a plan, and one whose pc alone changes.
LEMMA IdleType == Idle \in Session /\ Idle.settled = {} /\ Idle.added = {} /\ Idle.pc = "idle"
  BY DEF Idle, Session

LEMMA Starts ==
  ASSUME NEW p \in Plans
  PROVE  LET t == [Idle EXCEPT !.pc = "count", !.rows[p] = 1]
         IN t \in Session /\ t.settled = {} /\ t.added = {} /\ t.pc = "count"
  <1> DEFINE rows == [q \in Plans |-> IF q = p THEN 1 ELSE 0]
             t == [Idle EXCEPT !.pc = "count", !.rows[p] = 1]
  <1>1. rows \in [Plans -> 0 .. 1]
    OBVIOUS
  <1>2. rows = [Idle.rows EXCEPT ![p] = 1]
    BY DEF Idle
  <1>3. t = [[Idle EXCEPT !.pc = "count"] EXCEPT !.rows = [Idle.rows EXCEPT ![p] = 1]]
    BY DEF Idle
  <1> HIDE DEF rows
  <1>4. t = [[Idle EXCEPT !.pc = "count"] EXCEPT !.rows = rows]
    BY <1>2, <1>3
  <1> HIDE DEF t
  <1>5. \A u \in Session :
          LET v == [[u EXCEPT !.pc = "count"] EXCEPT !.rows = rows]
          IN v \in Session /\ v.settled = u.settled /\ v.added = u.added /\ v.pc = "count"
    BY <1>1 DEF Session
  <1>6. t \in Session /\ t.settled = {} /\ t.added = {} /\ t.pc = "count"
    BY <1>4, <1>5, IdleType
  <1> QED
    BY <1>6 DEF t

LEMMA GoesOn ==
  ASSUME NEW t \in Session, NEW pc \in {"fetch", "commit"}
  PROVE  LET u == [t EXCEPT !.pc = pc]
         IN u \in Session /\ u.settled = t.settled /\ u.added = t.added /\ u.pc = pc
  BY DEF Session

\* A session moves, and no decision is taken back.
LEMMA SessionMoves ==
  ASSUME Inv, NEW s \in Sessions, NEW t \in Session, session' = [session EXCEPT ![s] = t],
         RowsOK', Decided \subseteq Decided',
         t.settled \subseteq Decided', t.added \cap t.settled = {},
         t.pc \in {"count", "fetch"} => t.added = {}
  PROVE  Inv'
  <1>1. /\ SessionOK' /\ session'[s] = t
        /\ \A u \in Sessions : u # s => session'[u] = session[u]
    BY DEF Inv, SessionOK
  <1>2. SettledIsDecided'
    <2> SUFFICES ASSUME NEW u \in Sessions PROVE session'[u].settled \subseteq Decided'
      BY DEF SettledIsDecided
    <2> QED
      BY <1>1 DEF Inv, SettledIsDecided
  <1>3. DecisionsStand' /\ AddsLast'
    BY <1>1 DEF Inv, DecisionsStand, AddsLast
  <1> QED
    BY ONLY <1>1, <1>2, <1>3, RowsOK' DEF Inv

\* A row after a decision.
LEMMA Decides ==
  ASSUME NEW row \in [pending : Nat, decided : Nat], NEW m \in Nat, NEW n \in Nat
  PROVE  LET new == [row EXCEPT !.pending = m, !.decided = n]
         IN new \in [pending : Nat, decided : Nat] /\ new.decided = n
  OBVIOUS

\* What a transaction or a reviewer does to the rows takes no decision back.
LEMMA RowsGrow ==
  ASSUME RowsOK, SessionOK
  PROVE  /\ UNCHANGED suggestions => RowsOK' /\ Decided' = Decided
         /\ \A s \in Sessions : Commit(s) => RowsOK' /\ Decided' = Decided
         /\ \A r \in Rule : Review(r) => RowsOK' /\ Decided \subseteq Decided'
  <1>1. ASSUME UNCHANGED suggestions PROVE RowsOK' /\ Decided' = Decided
    BY <1>1 DEF RowsOK, Decided
  <1>2. ASSUME NEW s \in Sessions, Commit(s) PROVE RowsOK' /\ Decided' = Decided
    <2>1. suggestions' = [r \in Rule |-> IF r \in session[s].added
                                           THEN [suggestions[r] EXCEPT !.pending = @ + 1]
                                           ELSE suggestions[r]]
      BY <1>2 DEF Commit
    <2>2. ASSUME NEW r \in Rule
          PROVE  /\ suggestions'[r] \in [pending : Nat, decided : Nat]
                 /\ suggestions'[r].decided = suggestions[r].decided
      BY <2>1 DEF RowsOK
    <2>3. RowsOK'
      BY <2>1, <2>2 DEF RowsOK
    <2> QED
      BY <2>2, <2>3 DEF Decided
  <1>3. ASSUME NEW r \in Rule, Review(r) PROVE RowsOK' /\ Decided \subseteq Decided'
    <2> DEFINE row == [suggestions[r] EXCEPT !.pending = @ - 1, !.decided = @ + 1]
    <2>1. /\ suggestions[r] \in [pending : Nat, decided : Nat]
          /\ suggestions[r].pending > 0
      BY <1>3 DEF Review, RowsOK
    <2>2. row \in [pending : Nat, decided : Nat] /\ row.decided = suggestions[r].decided + 1
      <3>1. suggestions[r].pending - 1 \in Nat /\ suggestions[r].decided + 1 \in Nat
        BY <2>1
      <3> QED
        BY ONLY <2>1, <3>1, Decides DEF row
    <2>3. suggestions' = [suggestions EXCEPT ![r] = row]
      BY <1>3 DEF Review, RowsOK
    <2> HIDE DEF row
    <2>4. RowsOK'
      BY <2>2, <2>3 DEF RowsOK
    <2>5. \A q \in Rule : suggestions[q].decided > 0 => suggestions'[q].decided > 0
      BY <2>1, <2>2, <2>3 DEF RowsOK
    <2> QED
      BY <2>4, <2>5 DEF Decided
  <1> QED
    BY <1>1, <1>2, <1>3

\* Every step preserves the invariant.
LEMMA InvStep ==
  ASSUME Inv, [Next]_vars
  PROVE  Inv'
  <1>0. /\ RowsOK /\ SessionOK /\ Decided \in SUBSET Rule
        /\ \A s \in Sessions : /\ session[s] \in Session
                               /\ session[s].settled \subseteq Decided
                               /\ session[s].added \cap session[s].settled = {}
                               /\ session[s].pc \in {"count", "fetch"} => session[s].added = {}
    BY DEF Inv, SessionOK, SettledIsDecided, AddsLast, DecisionsStand, Decided
  <1>1. UNCHANGED suggestions => RowsOK' /\ Decided' = Decided
    BY <1>0, RowsGrow
  <1>2. ASSUME NEW s \in Sessions, NEW p \in Plans, Save(s, p) PROVE Inv'
    <2> DEFINE t == [Idle EXCEPT !.pc = "count", !.rows[p] = 1]
    <2>1. t \in Session /\ t.settled = {} /\ t.added = {} /\ t.pc = "count"
      BY Starts
    <2>2. session' = [session EXCEPT ![s] = t] /\ UNCHANGED suggestions
      BY <1>2 DEF Save
    <2> HIDE DEF t
    <2> QED
      BY <1>1, <2>1, <2>2, SessionMoves
  <1>3. ASSUME NEW s \in Sessions, Count(s) \/ Flush(s) PROVE Inv'
    <2>1. PICK pc \in {"fetch", "commit"} :
            /\ session' = [session EXCEPT ![s].pc = pc] /\ UNCHANGED suggestions
            /\ session[s].pc = "count" \/ pc = "commit"
      BY <1>3 DEF Count, Flush
    <2> DEFINE t == [session[s] EXCEPT !.pc = pc]
    <2>2. session' = [session EXCEPT ![s] = t]
      BY <1>0, <2>1 DEF SessionOK
    <2>3. /\ t \in Session /\ t.settled = session[s].settled /\ t.added = session[s].added
          /\ t.pc = pc
      <3>1. session[s] \in Session
        BY <1>0
      <3> QED
        BY <3>1, GoesOn
    <2>4. pc = "fetch" => session[s].added = {}
      BY <1>0, <2>1
    <2> HIDE DEF t
    <2>5. RowsOK' /\ Decided' = Decided
      BY <1>1, <2>1
    <2>6. /\ t.settled \subseteq Decided' /\ t.added \cap t.settled = {}
          /\ t.pc \in {"count", "fetch"} => t.added = {}
      BY <1>0, <2>1, <2>3, <2>4, <2>5
    <2> QED
      BY <2>2, <2>3, <2>5, <2>6, SessionMoves
  <1>4. ASSUME NEW s \in Sessions, Fetch(s) PROVE Inv'
    <2>1. PICK w : /\ session' = [session EXCEPT ![s].pc = "check", ![s].todo = Candidates(w),
                                                 ![s].settled = Decided]
                   /\ UNCHANGED suggestions
      BY <1>4, Zenon DEF Fetch
    <2> DEFINE todo == Candidates(w)
               t == [session[s] EXCEPT !.pc = "check", !.todo = todo, !.settled = Decided]
    <2>2. todo \in SUBSET Rule
      BY CandidatesAreRules
    <2>3. session' = [session EXCEPT ![s] = t]
      BY <1>0, <2>1 DEF SessionOK
    <2>4. session[s].added = {}
      BY <1>0, <1>4 DEF Fetch
    <2> HIDE DEF todo
    <2>5. t \in Session /\ t.settled = Decided /\ t.added = session[s].added /\ t.pc = "check"
      <3>1. session[s] \in Session /\ Decided \in SUBSET Rule
        BY <1>0
      <3> QED
        BY ONLY <3>1, <2>2 DEF t, Session
    <2> HIDE DEF t
    <2> QED
      BY <1>1, <2>1, <2>3, <2>4, <2>5, SessionMoves
  <1>5. ASSUME NEW s \in Sessions, NEW r \in Rule, Check(s, r) PROVE Inv'
    <2> DEFINE todo == IF Cardinality(Duplicates(r)) > 1 THEN {} ELSE session[s].todo \ {r}
               added == IF Duplicates(r) = {} THEN session[s].added \cup {r}
                                              ELSE session[s].added
               t == [session[s] EXCEPT !.todo = todo, !.added = added]
    <2>1. session' = [session EXCEPT ![s] = t] /\ UNCHANGED suggestions
      BY <1>0, <1>5 DEF Check, SessionOK
    <2>2. session[s].pc = "check"
      BY <1>5 DEF Check
    <2>3. todo \in SUBSET Rule /\ added \in SUBSET Rule
      BY <1>0, SessionFields
    <2>4. added \cap session[s].settled = {}
      <3>1. r \in Decided => Duplicates(r) # {}
        BY <1>0, DecidedIsFound
      <3> QED
        BY <1>0, <3>1
    <2> HIDE DEF todo, added
    <2>5. t \in Session /\ t.settled = session[s].settled /\ t.added = added /\ t.pc = "check"
      <3>1. session[s] \in Session
        BY <1>0
      <3>2. /\ t \in Session /\ t.settled = session[s].settled /\ t.added = added
            /\ t.pc = session[s].pc
        BY ONLY <3>1, <2>3 DEF t, Session
      <3> QED
        BY <2>2, <3>2
    <2> HIDE DEF t
    <2> QED
      BY <1>0, <1>1, <2>1, <2>4, <2>5, SessionMoves
  <1>6. ASSUME NEW s \in Sessions, Commit(s) \/ Fails(s) PROVE Inv'
    <2>1. session' = [session EXCEPT ![s] = Idle]
      BY <1>6 DEF Commit, Fails
    <2>2. RowsOK' /\ Decided' = Decided
      BY <1>0, <1>1, <1>6, RowsGrow DEF Fails
    <2> QED
      BY <2>1, <2>2, IdleType, SessionMoves
  <1>7. ASSUME NEW r \in Rule, Review(r) PROVE Inv'
    <2>1. RowsOK' /\ Decided \subseteq Decided' /\ session' = session
      BY <1>0, <1>7, RowsGrow DEF Review
    <2>2. SettledIsDecided'
      BY <1>0, <2>1 DEF SettledIsDecided
    <2>3. SessionOK' /\ AddsLast' /\ DecisionsStand'
      BY <2>1 DEF Inv, SessionOK, AddsLast, DecisionsStand
    <2> QED
      BY ONLY <2>1, <2>2, <2>3 DEF Inv
  <1>8. CASE UNCHANGED vars
    <2>1. RowsOK' /\ Decided' = Decided /\ session' = session
      BY <1>1, <1>8 DEF vars
    <2>2. SettledIsDecided' /\ SessionOK' /\ AddsLast' /\ DecisionsStand'
      BY <2>1 DEF Inv, SettledIsDecided, SessionOK, AddsLast, DecisionsStand
    <2> QED
      BY ONLY <2>1, <2>2 DEF Inv
  <1> QED
    BY <1>2, <1>3, <1>4, <1>5, <1>6, <1>7, <1>8 DEF Next

\* A rule that was decided before a job read the plans is not suggested by it again, for
\* any number of sessions, reviewers and statements that fail.
THEOREM DecidedStaysDecided == Spec => []DecisionsStand
  <1>1. Init => Inv
    <2> SUFFICES ASSUME Init PROVE Inv
      OBVIOUS
    <2>1. RowsOK
      BY DEF Init, RowsOK
    <2>2. SessionOK /\ SettledIsDecided /\ AddsLast /\ DecisionsStand
      BY IdleType DEF Init, SessionOK, SettledIsDecided, AddsLast, DecisionsStand
    <2> QED
      BY <2>1, <2>2 DEF Inv
  <1>2. Inv /\ [Next]_vars => Inv'
    BY InvStep
  <1>3. Inv => DecisionsStand
    BY DEF Inv
  <1> QED
    BY <1>1, <1>2, <1>3, PTL DEF Spec

-----------------------------------------------------------------------------
(* How many rows there are.                                                 *)

\* The sessions with a transaction.
Active == {s \in Sessions : session[s].pc # "idle"}

\* What makes TypeOK inductive: each transaction writes one row, so that every session
\* that has one takes up the room of the row it will commit; and a transaction adds a
\* rule once at most, so that no rule has more suggestions than there are plans.
One(p)     == [q \in Plans |-> IF q = p THEN 1 ELSE 0]
HistoryOK  == history \in [Plans -> Nat]
RowsAreOne == \A s \in Active : \E p \in Plans : session[s].rows = One(p)
Room       == IsFiniteSet(Active) /\ SumFunction(history) + Cardinality(Active) <= MaxPlans
FewRows    == \A r \in Rule : suggestions[r].pending + suggestions[r].decided
                                <= SumFunction(history)

Counts == HistoryOK /\ RowsAreOne /\ Room /\ FewRows

\* What a function of the plans adds up to.
LEMMA SumOfPlans ==
  ASSUME NEW f \in [Plans -> Nat]
  PROVE  /\ SumFunction(f) = SumFunctionOnSet(f, Plans)
         /\ SumFunction(f) \in Nat
         /\ \A p \in Plans : f[p] <= SumFunction(f)
  <1>1. SumFunction(f) = SumFunctionOnSet(f, Plans) /\ \A p \in Plans : f[p] \in Nat
    BY DEF SumFunction
  <1>2. SumFunctionOnSet(f, Plans) \in Nat
    BY <1>1, SumType, PlansAssumption
  <1>3. ASSUME NEW p \in Plans PROVE f[p] <= SumFunctionOnSet(f, Plans)
    <2>1. SumFunctionOnSet(f, Plans) = f[p] + SumFunctionOnSet(f, Plans \ {p})
      BY <1>1, SumRemove, PlansAssumption
    <2>2. SumFunctionOnSet(f, Plans \ {p}) \in Nat
      <3>1. IsFiniteSet(Plans \ {p}) /\ \A q \in Plans \ {p} : f[q] \in Nat
        BY <1>1, PlansAssumption, FS_RemoveElement
      <3> QED
        BY <3>1, SumType
    <2>3. f[p] \in Nat
      BY <1>1
    <2> QED
      BY <2>1, <2>2, <2>3
  <1> QED
    BY <1>1, <1>2, <1>3

\* The rows a session sees are the committed ones and its own.
LEMMA VisibleRows ==
  ASSUME HistoryOK, SessionOK, NEW s \in Sessions
  PROVE  /\ Visible(s) \in [Plans -> Nat]
         /\ \A p \in Plans : history[p] <= Visible(s)[p]
         /\ \A p \in Plans : session[s].rows = One(p)
                               => SumFunction(Visible(s)) = SumFunction(history) + 1
  <1>1. session[s].rows \in [Plans -> 0 .. 1]
    BY DEF SessionOK, Session
  <1>2. ASSUME NEW p \in Plans
        PROVE  /\ history[p] \in Nat /\ session[s].rows[p] \in Nat
               /\ Visible(s)[p] = history[p] + session[s].rows[p]
    BY <1>1 DEF HistoryOK, Visible
  <1>3. Visible(s) \in [Plans -> Nat] /\ \A p \in Plans : history[p] <= Visible(s)[p]
    <2>1. \A p \in Plans : Visible(s)[p] \in Nat /\ history[p] <= Visible(s)[p]
      BY <1>2
    <2> QED
      BY <2>1 DEF Visible
  <1>4. ASSUME NEW p \in Plans, session[s].rows = One(p)
        PROVE  SumFunction(Visible(s)) = SumFunction(history) + 1
    <2> DEFINE rows == session[s].rows
    <2>1. \A q \in Plans : rows[q] = IF q = p THEN 1 ELSE 0
      BY <1>4 DEF One
    <2> HIDE DEF rows
    <2>2. SumFunctionOnSet(rows, Plans) = 1
      BY <2>1, SumOne, PlansAssumption
    <2>3. \A q \in Plans : /\ history[q] \in Nat /\ rows[q] \in Nat
                           /\ Visible(s)[q] = history[q] + rows[q]
      BY <1>2 DEF rows
    <2>4. SumFunctionOnSet(Visible(s), Plans)
            = SumFunctionOnSet(history, Plans) + SumFunctionOnSet(rows, Plans)
      BY <2>3, SumLinear, PlansAssumption
    <2> QED
      BY <1>3, <2>2, <2>4, SumOfPlans DEF HistoryOK
  <1> QED
    BY <1>3, <1>4

\* A transaction goes on: it has no new candidates, or those of a window.
Extracts(s, new) ==
  \E w \in [Plans -> 0 .. BatchSize] :
    /\ SumFunction(w) = BatchSize
    /\ \A p \in Plans : w[p] <= Visible(s)[p]
    /\ new = Candidates(w)

GoesOnTo(s, t) ==
  /\ t \in Session /\ session' = [session EXCEPT ![s] = t] /\ UNCHANGED <<history, suggestions>>
  /\ session[s].pc # "idle" /\ t.pc # "idle" /\ t.rows = session[s].rows
  /\ \/ t.todo \cup t.added \subseteq session[s].todo \cup session[s].added
     \/ Extracts(s, t.todo \cup t.added)

LEMMA GoingOn ==
  ASSUME Inv, NEW s \in Sessions,
         Count(s) \/ Fetch(s) \/ Flush(s) \/ (\E r \in Rule : Check(s, r))
  PROVE  \E t : GoesOnTo(s, t)
  <1>0. session \in [Sessions -> Session] /\ session[s] \in Session
    BY DEF Inv, SessionOK
  <1>1. CASE Count(s) \/ Flush(s)
    <2>1. PICK pc \in {"fetch", "commit"} :
            /\ session' = [session EXCEPT ![s].pc = pc] /\ UNCHANGED <<history, suggestions>>
            /\ session[s].pc # "idle"
      BY <1>1 DEF Count, Flush
    <2> DEFINE t == [session[s] EXCEPT !.pc = pc]
    <2>2. session' = [session EXCEPT ![s] = t]
      BY <1>0, <2>1
    <2>3. /\ t \in Session /\ t.rows = session[s].rows /\ t.pc = pc
          /\ t.todo = session[s].todo /\ t.added = session[s].added
      BY <1>0 DEF Session
    <2> HIDE DEF t
    <2>4. t.pc # "idle"
      BY <2>3
    <2> QED
      BY <2>1, <2>2, <2>3, <2>4 DEF GoesOnTo
  <1>2. CASE Fetch(s)
    <2>1. PICK w \in [Plans -> 0 .. BatchSize] :
            /\ SumFunction(w) = BatchSize
            /\ \A p \in Plans : w[p] <= Visible(s)[p]
            /\ session' = [session EXCEPT ![s].pc = "check", ![s].todo = Candidates(w),
                                          ![s].settled = Decided]
            /\ session[s].pc = "fetch" /\ UNCHANGED <<history, suggestions>>
      BY <1>2, Zenon DEF Fetch
    <2> DEFINE todo == Candidates(w)
               t == [session[s] EXCEPT !.pc = "check", !.todo = todo, !.settled = Decided]
    <2>2. todo \in SUBSET Rule /\ Decided \in SUBSET Rule
      BY CandidatesAreRules DEF Decided
    <2>3. session' = [session EXCEPT ![s] = t]
      BY <1>0, <2>1
    <2>4. session[s].added = {}
      BY <2>1 DEF Inv, AddsLast
    <2> HIDE DEF todo
    <2>5. /\ t \in Session /\ t.rows = session[s].rows /\ t.pc = "check"
          /\ t.todo = todo /\ t.added = session[s].added
      BY ONLY <1>0, <2>2 DEF t, Session
    <2> HIDE DEF t
    <2>6. t.todo \cup t.added = Candidates(w)
      BY <2>4, <2>5 DEF todo
    <2>7. Extracts(s, t.todo \cup t.added)
      BY <2>1, <2>6, Zenon DEF Extracts
    <2>8. t.pc # "idle" /\ session[s].pc # "idle"
      BY <2>1, <2>5
    <2> QED
      BY <2>1, <2>3, <2>5, <2>7, <2>8 DEF GoesOnTo
  <1>3. ASSUME NEW r \in Rule, Check(s, r) PROVE \E t : GoesOnTo(s, t)
    <2> DEFINE todo == IF Cardinality(Duplicates(r)) > 1 THEN {} ELSE session[s].todo \ {r}
               added == IF Duplicates(r) = {} THEN session[s].added \cup {r}
                                              ELSE session[s].added
               t == [session[s] EXCEPT !.todo = todo, !.added = added]
    <2>1. /\ session' = [session EXCEPT ![s] = t] /\ UNCHANGED <<history, suggestions>>
          /\ session[s].pc = "check" /\ r \in session[s].todo
      BY <1>0, <1>3 DEF Check
    <2>2. /\ todo \in SUBSET Rule /\ added \in SUBSET Rule
          /\ todo \cup added \subseteq session[s].todo \cup session[s].added
      BY <1>0, <2>1, SessionFields
    <2> HIDE DEF todo, added
    <2>3. /\ t \in Session /\ t.rows = session[s].rows /\ t.pc = session[s].pc
          /\ t.todo = todo /\ t.added = added
      BY ONLY <1>0, <2>2 DEF t, Session
    <2> HIDE DEF t
    <2>4. t.pc # "idle" /\ session[s].pc # "idle"
      BY <2>1, <2>3
    <2> QED
      BY <2>1, <2>2, <2>3, <2>4 DEF GoesOnTo
  <1> QED
    BY <1>1, <1>2, <1>3

\* The transactions after one began, went on or ended.
LEMMA ActiveMoves ==
  ASSUME SessionOK, NEW s \in Sessions, NEW t, session' = [session EXCEPT ![s] = t]
  PROVE  /\ t.pc # "idle" /\ session[s].pc # "idle" => s \in Active /\ Active' = Active
         /\ t.pc # "idle" /\ session[s].pc = "idle" => s \notin Active /\ Active' = Active \cup {s}
         /\ t.pc = "idle" => Active' = Active \ {s}
         /\ session[s].pc # "idle" => s \in Active
         /\ \A u \in Sessions : u # s => session'[u] = session[u]
         /\ session'[s] = t
  BY DEF SessionOK, Active

LEMMA RowsStay ==
  ASSUME RowsAreOne, NEW s \in Sessions,
         \A u \in Sessions : u # s => session'[u] = session[u],
         Active' \subseteq Active \cup {s},
         s \in Active' => \E p \in Plans : session'[s].rows = One(p)
  PROVE  RowsAreOne'
  <1> SUFFICES ASSUME NEW u \in Active' PROVE \E p \in Plans : session'[u].rows = One(p)
    BY DEF RowsAreOne, One
  <1> QED
    BY DEF RowsAreOne, Active

LEMMA CountsStep ==
  ASSUME Inv, Counts, [Next]_vars
  PROVE  Counts'
  <1>0. /\ SessionOK /\ RowsOK /\ HistoryOK /\ RowsAreOne /\ Room /\ FewRows
        /\ SumFunction(history) \in Nat /\ MaxPlans \in Nat
        /\ IsFiniteSet(Active) /\ Cardinality(Active) \in Nat
    BY SumOfPlans, FS_CardinalityType, JobAssumption DEF Inv, Counts, HistoryOK, Room
  <1>1. ASSUME NEW s \in Sessions, NEW p \in Plans, Save(s, p) PROVE Counts'
    <2> DEFINE t == [Idle EXCEPT !.pc = "count", !.rows[p] = 1]
    <2>1. /\ session' = [session EXCEPT ![s] = t] /\ history' = history
          /\ suggestions' = suggestions /\ session[s].pc = "idle"
          /\ SumFunction(history) + Cardinality(Active) < MaxPlans
      BY <1>1 DEF Save, Active
    <2>2. t.pc = "count" /\ t.rows = One(p)
      BY DEF Idle, One
    <2> HIDE DEF t
    <2>3. /\ s \notin Active /\ Active' = Active \cup {s} /\ session'[s] = t
          /\ \A u \in Sessions : u # s => session'[u] = session[u]
      BY <1>0, <2>1, <2>2, ActiveMoves
    <2>4. IsFiniteSet(Active') /\ Cardinality(Active') = Cardinality(Active) + 1
      BY <1>0, <2>3, FS_AddElement
    <2>5. Room'
      BY <1>0, <2>1, <2>4 DEF Room
    <2>6. RowsAreOne'
      BY <1>0, <2>2, <2>3, RowsStay
    <2>7. HistoryOK' /\ FewRows'
      BY <1>0, <2>1 DEF HistoryOK, FewRows
    <2> QED
      BY <2>5, <2>6, <2>7 DEF Counts
  <1>2. ASSUME NEW s \in Sessions, NEW t, GoesOnTo(s, t) PROVE Counts'
    <2>1. /\ session' = [session EXCEPT ![s] = t] /\ history' = history
          /\ suggestions' = suggestions
          /\ session[s].pc # "idle" /\ t.pc # "idle" /\ t.rows = session[s].rows
      BY <1>2 DEF GoesOnTo
    <2>2. /\ s \in Active /\ Active' = Active /\ session'[s] = t
          /\ \A u \in Sessions : u # s => session'[u] = session[u]
      BY <1>0, <2>1, ActiveMoves
    <2>3. \E p \in Plans : session'[s].rows = One(p)
      BY <1>0, <2>1, <2>2 DEF RowsAreOne
    <2>4. RowsAreOne'
      BY <1>0, <2>2, <2>3, RowsStay
    <2>5. HistoryOK' /\ FewRows' /\ Room'
      BY <1>0, <2>1, <2>2 DEF HistoryOK, FewRows, Room
    <2> QED
      BY <2>4, <2>5 DEF Counts
  <1>3. ASSUME NEW s \in Sessions, session' = [session EXCEPT ![s] = Idle], session[s].pc # "idle"
        PROVE  /\ RowsAreOne' /\ IsFiniteSet(Active')
               /\ Cardinality(Active') = Cardinality(Active) - 1
    <2>1. /\ s \in Active /\ Active' = Active \ {s}
          /\ \A u \in Sessions : u # s => session'[u] = session[u]
      BY <1>0, <1>3, ActiveMoves, IdleType
    <2>2. RowsAreOne'
      BY <1>0, <2>1, RowsStay
    <2> QED
      BY <1>0, <2>1, <2>2, FS_RemoveElement
  <1>4. ASSUME NEW s \in Sessions, Commit(s) PROVE Counts'
    <2>1. /\ session' = [session EXCEPT ![s] = Idle] /\ history' = Visible(s)
          /\ suggestions' = [r \in Rule |-> IF r \in session[s].added
                                              THEN [suggestions[r] EXCEPT !.pending = @ + 1]
                                              ELSE suggestions[r]]
          /\ session[s].pc # "idle"
      BY <1>4 DEF Commit
    <2>2. PICK p \in Plans : session[s].rows = One(p)
      BY <1>0, <2>1 DEF RowsAreOne, Active
    <2>3. SumFunction(history)' = SumFunction(history) + 1 /\ HistoryOK'
      BY <1>0, <2>1, <2>2, VisibleRows DEF HistoryOK
    <2>4. ASSUME NEW r \in Rule
          PROVE  suggestions'[r].pending + suggestions'[r].decided
                   <= suggestions[r].pending + suggestions[r].decided + 1
      <3>1. suggestions[r] \in [pending : Nat, decided : Nat]
        BY <1>0 DEF RowsOK
      <3>2. suggestions'[r] = [suggestions[r] EXCEPT !.pending = @ + 1]
              \/ suggestions'[r] = suggestions[r]
        BY <2>1
      <3> QED
        BY <3>1, <3>2
    <2>5. ASSUME NEW r \in Rule
          PROVE  suggestions'[r].pending + suggestions'[r].decided <= SumFunction(history)'
      <3>1. suggestions[r].pending + suggestions[r].decided <= SumFunction(history)
        BY <1>0 DEF FewRows
      <3>2. RowsOK'
        BY <1>0, <1>4, RowsGrow
      <3>3. /\ suggestions[r].pending \in Nat /\ suggestions[r].decided \in Nat
            /\ suggestions'[r].pending \in Nat /\ suggestions'[r].decided \in Nat
        BY <1>0, <3>2 DEF RowsOK
      <3> QED
        BY <1>0, <2>3, <2>4, <3>1, <3>3
    <2>6. FewRows'
      BY <2>5 DEF FewRows
    <2>7. Room'
      <3>1. IsFiniteSet(Active') /\ Cardinality(Active') = Cardinality(Active) - 1
        BY <1>3, <2>1
      <3>2. SumFunction(history) + Cardinality(Active) <= MaxPlans
        BY <1>0 DEF Room
      <3>3. SumFunction(history)' + Cardinality(Active') <= MaxPlans
        BY <1>0, <2>3, <3>1, <3>2
      <3> QED
        BY <3>1, <3>3 DEF Room
    <2> QED
      BY <1>3, <2>1, <2>3, <2>6, <2>7 DEF Counts
  <1>5. ASSUME NEW s \in Sessions, Fails(s) PROVE Counts'
    <2>1. /\ session' = [session EXCEPT ![s] = Idle] /\ history' = history
          /\ suggestions' = suggestions /\ session[s].pc # "idle"
      BY <1>5 DEF Fails
    <2>2. Room'
      <3>1. IsFiniteSet(Active') /\ Cardinality(Active') = Cardinality(Active) - 1
        BY <1>3, <2>1
      <3>2. SumFunction(history) + Cardinality(Active) <= MaxPlans
        BY <1>0 DEF Room
      <3>3. SumFunction(history)' + Cardinality(Active') <= MaxPlans
        BY <1>0, <2>1, <3>1, <3>2
      <3> QED
        BY <3>1, <3>3 DEF Room
    <2>3. HistoryOK' /\ FewRows'
      BY <1>0, <2>1 DEF HistoryOK, FewRows
    <2> QED
      BY <1>3, <2>1, <2>2, <2>3 DEF Counts
  <1>6. ASSUME NEW r \in Rule, Review(r) PROVE Counts'
    <2>1. /\ suggestions' = [suggestions EXCEPT ![r].pending = @ - 1, ![r].decided = @ + 1]
          /\ history' = history /\ session' = session
      BY <1>6 DEF Review
    <2>2. ASSUME NEW q \in Rule
          PROVE  suggestions'[q].pending + suggestions'[q].decided
                   = suggestions[q].pending + suggestions[q].decided
      <3>1. suggestions \in [Rule -> [pending : Nat, decided : Nat]]
        BY <1>0 DEF RowsOK
      <3> QED
        BY <2>1, <3>1
    <2>3. FewRows'
      BY <1>0, <2>1, <2>2 DEF FewRows
    <2>4. HistoryOK' /\ RowsAreOne' /\ Room'
      BY <1>0, <2>1 DEF HistoryOK, RowsAreOne, Room, Active
    <2> QED
      BY <2>3, <2>4 DEF Counts
  <1>7. CASE UNCHANGED vars
    BY <1>0, <1>7 DEF vars, Counts, HistoryOK, RowsAreOne, Room, FewRows, Active
  <1> QED
    BY <1>1, <1>2, <1>4, <1>5, <1>6, <1>7, GoingOn DEF Next

\* What the actions start from.
LEMMA CountsInit == Init => Inv /\ Counts
  <1> SUFFICES ASSUME Init PROVE Inv /\ Counts
    OBVIOUS
  <1>1. /\ RowsOK /\ SessionOK /\ SettledIsDecided /\ AddsLast /\ DecisionsStand
        /\ Active = {} /\ HistoryOK
    BY IdleType
    DEF Init, RowsOK, SessionOK, SettledIsDecided, AddsLast, DecisionsStand, Active, HistoryOK
  <1>2. SumFunction(history) = 0
    <2>1. /\ \A p \in Plans : history[p] \in Nat
          /\ {} \in SUBSET Plans
          /\ \A p \in Plans \ {} : history[p] = 0
      BY DEF Init
    <2>2. SumFunctionOnSet(history, Plans) = SumFunctionOnSet(history, {})
      BY <2>1, SumPart, PlansAssumption
    <2>3. SumFunction(history) = SumFunctionOnSet(history, Plans)
      BY <1>1, SumOfPlans DEF HistoryOK
    <2> QED
      BY <2>2, <2>3, SumEmpty
  <1>3. Room
    BY <1>1, <1>2, FS_EmptySet, JobAssumption DEF Room
  <1>4. RowsAreOne /\ FewRows
    BY <1>1, <1>2 DEF RowsAreOne, FewRows, Init
  <1> QED
    BY <1>1, <1>3, <1>4 DEF Inv, Counts

\* Every variable has its type: however many sessions save plans and run the job at the
\* same time, and whatever fails, no rule is suggested more often than there are plans.
THEOREM TypeCorrect == Spec => []TypeOK
  <1>1. Inv /\ Counts => TypeOK
    <2> SUFFICES ASSUME Inv, Counts PROVE TypeOK
      OBVIOUS
    <2>1. /\ SumFunction(history) \in Nat /\ MaxPlans \in Nat /\ Cardinality(Active) \in Nat
          /\ SumFunction(history) + Cardinality(Active) <= MaxPlans
          /\ \A p \in Plans : history[p] \in Nat /\ history[p] <= SumFunction(history)
      BY SumOfPlans, JobAssumption, FS_CardinalityType DEF Counts, HistoryOK, Room
    <2>2. history \in [Plans -> 0 .. MaxPlans]
      <3>1. \A p \in Plans : history[p] \in 0 .. MaxPlans
        BY <2>1
      <3> QED
        BY <3>1 DEF Counts, HistoryOK
    <2>3. ASSUME NEW r \in Rule
          PROVE  suggestions[r] \in [pending : 0 .. MaxPlans, decided : 0 .. MaxPlans]
      <3>1. suggestions[r] \in [pending : Nat, decided : Nat]
        BY DEF Inv, RowsOK
      <3>2. suggestions[r].pending + suggestions[r].decided <= SumFunction(history)
        BY DEF Counts, FewRows
      <3>3. suggestions[r].pending \in 0 .. MaxPlans /\ suggestions[r].decided \in 0 .. MaxPlans
        BY <2>1, <3>1, <3>2
      <3> QED
        BY <3>1, <3>3
    <2>4. suggestions \in [Rule -> [pending : 0 .. MaxPlans, decided : 0 .. MaxPlans]]
      BY <2>3 DEF Inv, RowsOK
    <2> QED
      BY <2>2, <2>4 DEF TypeOK, Inv, SessionOK
  <1>2. Inv /\ Counts /\ [Next]_vars => (Inv /\ Counts)'
    BY InvStep, CountsStep
  <1> QED
    BY <1>1, <1>2, CountsInit, PTL DEF Spec

-----------------------------------------------------------------------------
(* What the job suggests.                                                   *)

\* A job extracts the patterns from plans whose dependencies have no cycle, and counts
\* what the docstrings say.
THEOREM PatternsExact == Spec => []PatternsAreExact
  <1>1. PatternsAreExact
    BY CountsAreExact DEF PatternsAreExact
  <1> QED
    BY <1>1, PTL

\* A rule is seen in the required share of a batch of the plans in h.
Enough(h, r) == SumFunctionOnSet(h, PlansOf[r]) * 100 >= MinOf(r) * BatchSize

\* What makes RulesWereSeen inductive: what a transaction may still suggest is seen in
\* enough of the rows it sees, which will be committed together with the suggestion.
CandidatesSeen ==
  \A s \in Sessions : \A r \in session[s].todo \cup session[s].added : Enough(Visible(s), r)

\* The more plans there are, the more a rule is seen in.
LEMMA EnoughGrows ==
  ASSUME NEW f \in [Plans -> Nat], NEW g \in [Plans -> Nat], \A p \in Plans : f[p] <= g[p],
         NEW r \in Rule, Enough(f, r)
  PROVE  Enough(g, r)
  <1> DEFINE T == {p \in Plans : Seen(p, r)}
  <1>1. PlansOf[r] = T /\ T \in SUBSET Plans
    BY DEF PlansOf
  <1>2. IsFiniteSet(T)
    BY <1>1, PlansAssumption, FS_Subset
  <1>3. \A p \in T : f[p] \in Nat /\ g[p] \in Nat /\ f[p] <= g[p]
    BY <1>1
  <1> HIDE DEF T
  <1>4. SumFunctionOnSet(f, T) <= SumFunctionOnSet(g, T)
    BY <1>2, <1>3, SumMonotonic
  <1>5. SumFunctionOnSet(f, T) \in Nat /\ SumFunctionOnSet(g, T) \in Nat
    BY <1>2, <1>3, SumType
  <1>6. MinOf(r) * BatchSize \in Nat
    <2>1. MinOf(r) \in Nat /\ BatchSize \in Nat
      BY PatternsAssumption, JobAssumption DEF MinOf
    <2> QED
      BY ONLY <2>1
  <1>7. SumFunctionOnSet(f, T) * 100 >= MinOf(r) * BatchSize
    BY <1>1 DEF Enough
  <1>8. SumFunctionOnSet(g, T) * 100 >= MinOf(r) * BatchSize
    BY <1>4, <1>5, <1>6, <1>7
  <1> QED
    BY <1>1, <1>8 DEF Enough

\* The candidates of a window are seen in enough of the plans, and no two of them are
\* about the same tools.
LEMMA WindowCandidates ==
  ASSUME HistoryOK, SessionOK, NEW s \in Sessions, NEW new, Extracts(s, new)
  PROVE  /\ new \in SUBSET Rule
         /\ \A r \in new : Enough(Visible(s), r)
         /\ \A r, q \in new : r # q => ~SameTools(r, q)
  <1>1. PICK w \in [Plans -> 0 .. BatchSize] :
          /\ SumFunction(w) = BatchSize
          /\ \A p \in Plans : w[p] <= Visible(s)[p]
          /\ new = Candidates(w)
    BY DEF Extracts
  <1>2. BatchSize \in Nat /\ BatchSize > 0
    BY JobAssumption
  <1>3. w \in [Plans -> Nat] /\ IsWindow(w, Plans) /\ \A p \in Plans : Simple(p)
    BY <1>2, PlansAssumption DEF IsWindow, Simple
  <1>4. new = {r \in Rule : InWindow(w, r) > 0 /\ InWindow(w, r) * 100 >= MinOf(r) * BatchSize}
    BY <1>1, Zenon DEF Candidates
  <1>5. ASSUME NEW r \in new PROVE Enough(Visible(s), r)
    <2>1. r \in Rule /\ InWindow(w, r) * 100 >= MinOf(r) * BatchSize
      BY <1>4
    <2>2. InWindow(w, r) = SumFunctionOnSet(w, {p \in Plans : Seen(p, r)})
      BY <1>3, <2>1, WindowSeen
    <2>3. Enough(w, r)
      BY <2>1, <2>2 DEF Enough, PlansOf
    <2>4. Visible(s) \in [Plans -> Nat]
      BY VisibleRows
    <2> QED
      BY <1>1, <1>3, <2>1, <2>3, <2>4, EnoughGrows
  <1>6. ASSUME NEW r \in new, NEW q \in new, r # q, SameTools(r, q) PROVE FALSE
    <2>1. /\ r \in Rule /\ InWindow(w, r) * 100 >= MinOf(r) * BatchSize
          /\ q \in Rule /\ InWindow(w, q) * 100 >= MinOf(q) * BatchSize
      BY <1>4
    <2>2. /\ InWindow(w, r) + InWindow(w, q) <= BatchSize
          /\ InWindow(w, r) \in Nat /\ InWindow(w, q) \in Nat
      BY <1>1, <1>3, <1>6, <2>1, WindowExcludes, WindowType
    <2>3. /\ MinOf(r) \in Nat /\ MinOf(q) \in Nat
          /\ MinOf(r) + MinOf(q) > 100
      <3>1. OrderingMin \in Nat /\ ParallelMin \in Nat
        BY PatternsAssumption
      <3>2. r \in Orderings \/ q \in Orderings
        BY <1>6, <2>1, SameToolsCases
      <3> QED
        BY <3>1, <3>2, ThresholdsAssumption DEF MinOf
    <2>4. (MinOf(r) + MinOf(q)) * BatchSize = MinOf(r) * BatchSize + MinOf(q) * BatchSize
      BY ONLY <1>2, <2>3
    <2>5. (MinOf(r) + MinOf(q)) * BatchSize >= 101 * BatchSize
      BY ONLY <1>2, <2>3
    <2>6. MinOf(r) * BatchSize \in Nat /\ MinOf(q) * BatchSize \in Nat
      BY ONLY <1>2, <2>3
    <2> QED
      BY <1>2, <2>1, <2>2, <2>4, <2>5, <2>6
  <1> QED
    BY <1>4, <1>5, <1>6

\* What a session sees, and may suggest, stays while the history only grows.
LEMMA SeenStays ==
  ASSUME HistoryOK, SessionOK, HistoryOK', SessionOK', NEW u \in Sessions,
         \A p \in Plans : history[p] <= history'[p], session'[u].rows = session[u].rows,
         NEW r \in Rule, Enough(Visible(u), r)
  PROVE  Enough(Visible(u)', r)
  <1> DEFINE f == Visible(u)
             g == Visible(u)'
  <1>1. f \in [Plans -> Nat]
    BY VisibleRows
  <1>2. \A p \in Plans : /\ history[p] \in Nat /\ history'[p] \in Nat
                         /\ session[u].rows[p] \in Nat
    BY DEF HistoryOK, SessionOK, Session
  <1>3. \A p \in Plans : /\ f[p] = history[p] + session[u].rows[p]
                         /\ g[p] = history'[p] + session[u].rows[p]
    BY DEF Visible
  <1>4. \A p \in Plans : f[p] <= g[p] /\ g[p] \in Nat
    BY <1>2, <1>3
  <1>5. g \in [Plans -> Nat]
    BY <1>4 DEF Visible
  <1> HIDE DEF f, g
  <1>6. Enough(f, r)
    BY DEF f
  <1>7. Enough(g, r)
    BY <1>1, <1>4, <1>5, <1>6, EnoughGrows
  <1> QED
    BY <1>7 DEF g

LEMMA CandidatesStay ==
  ASSUME Inv, Counts, Inv', Counts', CandidatesSeen, NEW s \in Sessions,
         \A p \in Plans : history[p] <= history'[p],
         \A u \in Sessions : u # s => session'[u] = session[u],
         \A r \in session'[s].todo \cup session'[s].added : Enough(Visible(s)', r)
  PROVE  CandidatesSeen'
  <1> SUFFICES ASSUME NEW u \in Sessions, NEW r \in session'[u].todo \cup session'[u].added
               PROVE  Enough(Visible(u)', r)
    BY DEF CandidatesSeen, Enough
  <1>1. CASE u # s
    <2>1. session'[u] = session[u] /\ r \in session[u].todo \cup session[u].added
      BY <1>1
    <2>2. Enough(Visible(u), r)
      BY <2>1 DEF CandidatesSeen
    <2>3. r \in Rule
      BY <2>1, SessionFields DEF Inv, SessionOK
    <2> QED
      BY <2>1, <2>2, <2>3, SeenStays DEF Inv, Counts
  <1> QED
    BY <1>1

\* The rows of a session that goes on are still those it sees.
LEMMA CandidatesGoOn ==
  ASSUME Inv, Counts, Inv', Counts', CandidatesSeen, NEW s \in Sessions, NEW t, GoesOnTo(s, t)
  PROVE  CandidatesSeen'
  <1>1. /\ t \in Session /\ session' = [session EXCEPT ![s] = t] /\ history' = history
        /\ t.rows = session[s].rows
        /\ \/ t.todo \cup t.added \subseteq session[s].todo \cup session[s].added
           \/ Extracts(s, t.todo \cup t.added)
    BY DEF GoesOnTo
  <1>2. session'[s] = t /\ \A u \in Sessions : u # s => session'[u] = session[u]
    BY <1>1 DEF Inv, SessionOK
  <1>3. \A r \in t.todo \cup t.added : r \in Rule /\ Enough(Visible(s), r)
    <2>1. CASE t.todo \cup t.added \subseteq session[s].todo \cup session[s].added
      BY <1>1, <2>1, SessionFields DEF CandidatesSeen
    <2>2. CASE Extracts(s, t.todo \cup t.added)
      BY <2>2, WindowCandidates DEF Inv, Counts
    <2> QED
      BY <1>1, <2>1, <2>2
  <1>4. \A p \in Plans : history[p] <= history'[p]
    BY <1>1 DEF Counts, HistoryOK
  <1>5. ASSUME NEW r \in session'[s].todo \cup session'[s].added PROVE Enough(Visible(s)', r)
    <2>1. r \in Rule /\ Enough(Visible(s), r)
      BY <1>2, <1>3
    <2> QED
      BY <1>1, <1>2, <1>4, <2>1, SeenStays DEF Inv, Counts
  <1> QED
    BY <1>2, <1>4, <1>5, CandidatesStay

LEMMA SuggestedStep ==
  ASSUME Inv, Counts, Inv', Counts', CandidatesSeen, RulesWereSeen, [Next]_vars
  PROVE  CandidatesSeen' /\ RulesWereSeen'
  <1>0. /\ session \in [Sessions -> Session] /\ RowsOK /\ SessionOK
        /\ HistoryOK /\ history \in [Plans -> Nat] /\ HistoryOK'
    BY DEF Inv, Counts, SessionOK, HistoryOK
  <1>1. UNCHANGED <<history, suggestions>> => RulesWereSeen'
    BY DEF RulesWereSeen
  <1>2. UNCHANGED history => \A p \in Plans : history[p] <= history'[p]
    BY <1>0
  <1>3. ASSUME NEW s \in Sessions, NEW t, session' = [session EXCEPT ![s] = t],
               t.todo = {}, t.added = {}, \A p \in Plans : history[p] <= history'[p]
        PROVE  CandidatesSeen'
    <2>1. session'[s] = t /\ \A u \in Sessions : u # s => session'[u] = session[u]
      BY <1>0, <1>3
    <2>2. \A r \in session'[s].todo \cup session'[s].added : Enough(Visible(s)', r)
      BY <1>3, <2>1
    <2> QED
      BY <1>3, <2>1, <2>2, CandidatesStay
  <1>4. ASSUME NEW s \in Sessions, NEW p \in Plans, Save(s, p)
        PROVE  CandidatesSeen' /\ RulesWereSeen'
    <2> DEFINE t == [Idle EXCEPT !.pc = "count", !.rows[p] = 1]
    <2>1. session' = [session EXCEPT ![s] = t] /\ UNCHANGED <<history, suggestions>>
      BY <1>4 DEF Save
    <2>2. t.todo = {} /\ t.added = {}
      BY DEF Idle
    <2> HIDE DEF t
    <2> QED
      BY <1>1, <1>2, <1>3, <2>1, <2>2
  <1>5. ASSUME NEW s \in Sessions, NEW t, GoesOnTo(s, t)
        PROVE  CandidatesSeen' /\ RulesWereSeen'
    BY <1>1, <1>5, CandidatesGoOn DEF GoesOnTo
  <1>6. ASSUME NEW s \in Sessions, Fails(s) PROVE CandidatesSeen' /\ RulesWereSeen'
    <2>1. session' = [session EXCEPT ![s] = Idle] /\ UNCHANGED <<history, suggestions>>
      BY <1>6 DEF Fails
    <2>2. Idle.todo = {} /\ Idle.added = {}
      BY DEF Idle
    <2> QED
      BY <1>1, <1>2, <1>3, <2>1, <2>2
  <1>7. ASSUME NEW s \in Sessions, Commit(s) PROVE CandidatesSeen' /\ RulesWereSeen'
    <2>1. /\ session' = [session EXCEPT ![s] = Idle] /\ history' = Visible(s)
          /\ suggestions' = [r \in Rule |-> IF r \in session[s].added
                                              THEN [suggestions[r] EXCEPT !.pending = @ + 1]
                                              ELSE suggestions[r]]
      BY <1>7 DEF Commit
    <2>2. /\ \A p \in Plans : history[p] <= history'[p]
          /\ history' \in [Plans -> Nat]
      BY <1>0, <2>1, VisibleRows
    <2>3. CandidatesSeen'
      <3>1. Idle.todo = {} /\ Idle.added = {}
        BY DEF Idle
      <3> QED
        BY <1>3, <2>1, <2>2, <3>1
    <2>4. ASSUME NEW r \in Rule, suggestions'[r].pending + suggestions'[r].decided > 0
          PROVE  Enough(history', r)
      <3>1. CASE r \in session[s].added
        <4>1. Enough(Visible(s), r)
          BY <3>1 DEF CandidatesSeen
        <4> QED
          BY <2>1, <4>1
      <3>2. CASE r \notin session[s].added
        <4>1. suggestions'[r] = suggestions[r]
          BY <2>1, <3>2
        <4>2. Enough(history, r)
          BY <2>4, <4>1 DEF RulesWereSeen, Enough
        <4> QED
          BY <1>0, <2>2, <4>2, EnoughGrows
      <3> QED
        BY <3>1, <3>2
    <2>5. RulesWereSeen'
      BY <2>4 DEF RulesWereSeen, Enough
    <2> QED
      BY <2>3, <2>5
  <1>8. ASSUME UNCHANGED session, UNCHANGED history PROVE CandidatesSeen'
    BY <1>8 DEF CandidatesSeen, Enough, Visible
  <1>9. ASSUME NEW r \in Rule, Review(r) PROVE CandidatesSeen' /\ RulesWereSeen'
    <2>1. /\ suggestions' = [suggestions EXCEPT ![r].pending = @ - 1, ![r].decided = @ + 1]
          /\ history' = history /\ session' = session
      BY <1>9 DEF Review
    <2>2. ASSUME NEW q \in Rule
          PROVE  suggestions'[q].pending + suggestions'[q].decided
                   = suggestions[q].pending + suggestions[q].decided
      <3>1. suggestions \in [Rule -> [pending : Nat, decided : Nat]]
        BY <1>0 DEF RowsOK
      <3> QED
        BY <2>1, <3>1
    <2>3. RulesWereSeen'
      BY <2>1, <2>2 DEF RulesWereSeen
    <2> QED
      BY <1>8, <2>1, <2>3
  <1>10. CASE UNCHANGED vars
    BY <1>1, <1>8, <1>10 DEF vars
  <1> QED
    BY <1>4, <1>5, <1>6, <1>7, <1>9, <1>10, GoingOn DEF Next

\* Each rule that was suggested is seen in the required share of a batch of the plans in
\* the history, whatever was rolled back or uncommitted when its job counted.
THEOREM RulesSeen == Spec => []RulesWereSeen
  <1>1. Init => Inv /\ Counts /\ CandidatesSeen /\ RulesWereSeen
    <2> SUFFICES ASSUME Init PROVE CandidatesSeen /\ RulesWereSeen
      BY CountsInit
    <2>1. CandidatesSeen
      BY DEF Init, CandidatesSeen, Idle
    <2>2. RulesWereSeen
      BY DEF Init, RulesWereSeen
    <2> QED
      BY <2>1, <2>2
  <1>2. Inv /\ Counts /\ CandidatesSeen /\ RulesWereSeen /\ [Next]_vars
          => (Inv /\ Counts /\ CandidatesSeen /\ RulesWereSeen)'
    BY InvStep, CountsStep, SuggestedStep
  <1> QED
    BY <1>1, <1>2, PTL DEF Spec

\* No job suggests two tools both in one order and in the other, or ordered and parallel,
\* in the same or in different steps of its checks.
THEOREM NoJobContradictsItself == Spec => []NoContradiction
  <1>1. Init => Inv /\ Counts /\ NoContradiction
    BY CountsInit DEF Init, NoContradiction, Idle
  <1>2. Inv /\ Counts /\ NoContradiction /\ [Next]_vars => (Inv /\ Counts /\ NoContradiction)'
    <2> SUFFICES ASSUME Inv, Counts, NoContradiction, [Next]_vars PROVE NoContradiction'
      BY InvStep, CountsStep
    <2>0. session \in [Sessions -> Session] /\ SessionOK /\ HistoryOK
      BY DEF Inv, SessionOK, Counts
    <2>1. ASSUME NEW s \in Sessions, NEW t, session' = [session EXCEPT ![s] = t],
                 \A r, q \in t.todo \cup t.added : r # q => ~SameTools(r, q)
          PROVE  NoContradiction'
      <3>1. session'[s] = t /\ \A u \in Sessions : u # s => session'[u] = session[u]
        BY <2>0, <2>1
      <3> SUFFICES ASSUME NEW u \in Sessions,
                          NEW r \in session'[u].todo \cup session'[u].added,
                          NEW q \in session'[u].todo \cup session'[u].added, r # q
                   PROVE  {r.tools[1], r.tools[2]} # {q.tools[1], q.tools[2]}
        BY DEF NoContradiction
      <3>2. CASE u = s
        BY <2>1, <3>1, <3>2 DEF SameTools
      <3>3. CASE u # s
        <4>1. session'[u] = session[u]
          BY <3>1, <3>3
        <4>2. /\ r \in session[u].todo \cup session[u].added
              /\ q \in session[u].todo \cup session[u].added
          BY <4>1
        <4> QED
          BY <4>2 DEF NoContradiction
      <3> QED
        BY <3>2, <3>3
    <2>2. ASSUME NEW s \in Sessions, NEW p \in Plans, Save(s, p) PROVE NoContradiction'
      <3> DEFINE t == [Idle EXCEPT !.pc = "count", !.rows[p] = 1]
      <3>1. session' = [session EXCEPT ![s] = t]
        BY <2>2 DEF Save
      <3>2. t.todo = {} /\ t.added = {}
        BY DEF Idle
      <3> HIDE DEF t
      <3> QED
        BY <2>1, <3>1, <3>2
    <2>3. ASSUME NEW s \in Sessions, NEW t, GoesOnTo(s, t) PROVE NoContradiction'
      <3>1. /\ session' = [session EXCEPT ![s] = t]
            /\ \/ t.todo \cup t.added \subseteq session[s].todo \cup session[s].added
               \/ Extracts(s, t.todo \cup t.added)
        BY <2>3 DEF GoesOnTo
      <3>2. CASE t.todo \cup t.added \subseteq session[s].todo \cup session[s].added
        <4>1. \A r, q \in session[s].todo \cup session[s].added : r # q => ~SameTools(r, q)
          BY DEF NoContradiction, SameTools
        <4>2. \A r, q \in t.todo \cup t.added : r # q => ~SameTools(r, q)
          BY <3>2, <4>1
        <4> QED
          BY <2>1, <3>1, <4>2
      <3>3. CASE Extracts(s, t.todo \cup t.added)
        BY <2>0, <2>1, <3>1, <3>3, WindowCandidates
      <3> QED
        BY <3>1, <3>2, <3>3
    <2>4. ASSUME NEW s \in Sessions, Commit(s) \/ Fails(s) PROVE NoContradiction'
      <3>1. session' = [session EXCEPT ![s] = Idle]
        BY <2>4 DEF Commit, Fails
      <3>2. Idle.todo = {} /\ Idle.added = {}
        BY DEF Idle
      <3> QED
        BY <2>1, <3>1, <3>2
    <2>5. ASSUME session' = session PROVE NoContradiction'
      BY <2>5 DEF NoContradiction
    <2> QED
      BY <2>2, <2>3, <2>4, <2>5, GoingOn DEF Next, Review, vars
  <1>3. Inv /\ Counts /\ NoContradiction => NoContradiction
    OBVIOUS
  <1> QED
    BY <1>1, <1>2, <1>3, PTL DEF Spec
=============================================================================

---------------------------- MODULE EvolutionJob ----------------------------
(***************************************************************************)
(* The plan history (worker_agent/persistence/plan_history_repo.py) and the *)
(* job that suggests rules for playbooks from it                            *)
(* (worker_agent/evolution/job.py).                                         *)
(*                                                                         *)
(* A session writes the row of a completed plan and, as the docstring of    *)
(* trigger_evolution_check() has it, runs the check after it; then it       *)
(* commits.  All of it is one transaction of PostgreSQL at READ COMMITTED:  *)
(* a statement sees what was committed before it and what the session has   *)
(* written itself.  Each await of a statement is a step.  What other        *)
(* outcomes, actions and domains have is filtered away by every query.      *)
(*                                                                         *)
(* All rows have the created_at of the moment the table was created, as its *)
(* default is the literal 'now()'; the most recent ones are any.            *)
(*                                                                         *)
(* Reviewers, who accept or reject suggestions, are external.  The field    *)
(* settled of a session is history.                                         *)
(***************************************************************************)
EXTENDS PlanPatterns

CONSTANTS
  Sessions,    \* the sessions that save plans
  Plans,       \* the plans they save
  BatchSize,   \* BATCH_SIZE
  MaxPlans     \* bound: the plans in the history

ASSUME JobAssumption ==
  /\ BatchSize \in Nat \ {0}
  /\ MaxPlans \in Nat

\* report.py writes the plans without their dependencies; those that have some are
\* plans that run no tool twice.
ASSUME PlansAssumption ==
  /\ IsFiniteSet(Plans)
  /\ \A p \in Plans : IsPlan(p) /\ (NoRepeats(p) \/ p.deps = {})

\* What is ordered is not ordered the other way, or parallel, in as many plans: 90% and
\* 80% in the code.
ASSUME ThresholdsAssumption ==
  /\ OrderingMin > 50
  /\ OrderingMin + ParallelMin > 100

VARIABLES
  history,       \* plan_history: how many rows each plan has
  suggestions,   \* playbook_suggestions: the rows of each rule, PENDING and decided
  session        \* the transactions

vars == <<history, suggestions, session>>

\* count: the row is written, SELECT count(*) is next; fetch: the SELECT of the plans is
\* next; check: the SELECTs for the candidates in todo; commit: the COMMIT.
Idle == [pc |-> "idle", rows |-> [p \in Plans |-> 0], todo |-> {}, added |-> {},
         settled |-> {}]
Session == [pc : {"idle", "count", "fetch", "check", "commit"}, rows : [Plans -> 0 .. 1],
            todo : SUBSET Rule, added : SUBSET Rule, settled : SUBSET Rule]

Init ==
  /\ history = [p \in Plans |-> 0]
  /\ suggestions = [r \in Rule |-> [pending |-> 0, decided |-> 0]]
  /\ session = [s \in Sessions |-> Idle]

\* The rows s sees.
Visible(s) == [p \in Plans |-> history[p] + session[s].rows[p]]

\* The rules that are ACCEPTED or REJECTED.
Decided == {r \in Rule : suggestions[r].decided > 0}

\* The rows the SELECT for a candidate finds.  A soft_parallel has neither before_tool
\* nor after_tool, so all of them are alike to it.
Duplicates(r) == UNION {{q} \X (1 .. suggestions[q].decided) :
                        q \in IF r \in Orderings THEN {r} ELSE Parallels}

-----------------------------------------------------------------------------
\* save() has added the row of a plan and flushed it.
Save(s, p) ==
  /\ session[s].pc = "idle"
  /\ SumFunction(history) + Cardinality({t \in Sessions : session[t].pc # "idle"}) < MaxPlans
  /\ session' = [session EXCEPT ![s] = [Idle EXCEPT !.pc = "count", !.rows[p] = 1]]
  /\ UNCHANGED <<history, suggestions>>

\* trigger_evolution_check(): every BATCH_SIZE plans the job runs.
Count(s) ==
  /\ session[s].pc = "count"
  /\ LET count == SumFunction(Visible(s)) IN
       session' = [session EXCEPT ![s].pc =
                     IF count >= BatchSize /\ count % BatchSize = 0 THEN "fetch"
                                                                     ELSE "commit"]
  /\ UNCHANGED <<history, suggestions>>

\* run(): the last BATCH_SIZE plans, and the patterns in them.
Fetch(s) ==
  /\ session[s].pc = "fetch"
  /\ \E w \in [Plans -> 0 .. BatchSize] :
       /\ SumFunction(w) = BatchSize
       /\ \A p \in Plans : w[p] <= Visible(s)[p]
       /\ session' = [session EXCEPT ![s].pc = "check", ![s].todo = Candidates(w),
                                     ![s].settled = Decided]
  /\ UNCHANGED <<history, suggestions>>

\* Faulty variant: the rows still to be decided are taken for the decided ones.
CheckPending(s, r) ==
  /\ session[s].pc = "check"
  /\ r \in session[s].todo
  /\ session' = [session EXCEPT
       ![s].todo = @ \ {r},
       ![s].added = IF suggestions[r].pending = 0 THEN @ \cup {r} ELSE @]
  /\ UNCHANGED <<history, suggestions>>

\* _write_suggestions(): a candidate, of which the orderings come first, is added unless
\* one was decided.  Where two were, scalar_one_or_none() raises, which ends the job;
\* what was added by then is flushed already.
Check(s, r) ==
  /\ session[s].pc = "check"
  /\ r \in session[s].todo
  /\ r \in Parallels => session[s].todo \cap Orderings = {}
  /\ session' = [session EXCEPT
       ![s].todo  = IF Cardinality(Duplicates(r)) > 1 THEN {} ELSE @ \ {r},
       ![s].added = IF Duplicates(r) = {} THEN @ \cup {r} ELSE @]
  /\ UNCHANGED <<history, suggestions>>

\* The candidates are done with, and the last of them flushed.
Flush(s) ==
  /\ session[s].pc = "check"
  /\ session[s].todo = {}
  /\ session' = [session EXCEPT ![s].pc = "commit"]
  /\ UNCHANGED <<history, suggestions>>

Commit(s) ==
  /\ session[s].pc = "commit"
  /\ history' = Visible(s)
  /\ suggestions' = [r \in Rule |-> IF r \in session[s].added
                                      THEN [suggestions[r] EXCEPT !.pending = @ + 1]
                                      ELSE suggestions[r]]
  /\ session' = [session EXCEPT ![s] = Idle]

\* Faulty variant: what was added is committed by itself, and stays.
FailsKeepingSuggestions(s) ==
  /\ session[s].pc # "idle"
  /\ session' = [session EXCEPT ![s] = Idle]
  /\ suggestions' = [r \in Rule |-> IF r \in session[s].added
                                      THEN [suggestions[r] EXCEPT !.pending = @ + 1]
                                      ELSE suggestions[r]]
  /\ UNCHANGED history

\* A statement fails.  The exception is swallowed, but its transaction can only be
\* rolled back; a process that dies has the same effect.
Fails(s) ==
  /\ session[s].pc # "idle"
  /\ session' = [session EXCEPT ![s] = Idle]
  /\ UNCHANGED <<history, suggestions>>

\* Faulty variant: what was decided is decided again.
ReviewAgain(r) ==
  /\ suggestions[r].pending + suggestions[r].decided > 0
  /\ suggestions' = [suggestions EXCEPT ![r].pending = @ - 1, ![r].decided = @ + 1]
  /\ UNCHANGED <<history, session>>

\* A reviewer accepts or rejects a suggestion.
Review(r) ==
  /\ suggestions[r].pending > 0
  /\ suggestions' = [suggestions EXCEPT ![r].pending = @ - 1, ![r].decided = @ + 1]
  /\ UNCHANGED <<history, session>>

Next ==
  \/ \E s \in Sessions :
       \/ \E p \in Plans : Save(s, p)
       \/ Count(s) \/ Fetch(s) \/ Flush(s) \/ Commit(s) \/ Fails(s)
       \/ \E r \in Rule : Check(s, r)
  \/ \E r \in Rule : Review(r)

Spec == Init /\ [][Next]_vars

-----------------------------------------------------------------------------
(* Properties.                                                             *)

\* Every variable has its type.
TypeOK ==
  /\ history \in [Plans -> 0 .. MaxPlans]
  /\ suggestions \in [Rule -> [pending : 0 .. MaxPlans, decided : 0 .. MaxPlans]]
  /\ session \in [Sessions -> Session]

\* A job that is about to extract the patterns does it by functions that count what
\* their docstrings say, on every sample.
PatternsAreExact ==
  \A s \in Sessions : session[s].pc = "fetch" => CountsWhatIsSeen

\* The plans each rule is seen in.
PlansOf == [r \in Rule |-> {p \in Plans : Seen(p, r)}]

\* "rule candidates seen in >= min_frequency of plans": each rule that was suggested is
\* seen in that share of a batch of the plans in the history, whatever was rolled back
\* or was still uncommitted when the job counted.
RulesWereSeen ==
  \A r \in Rule :
    suggestions[r].pending + suggestions[r].decided > 0
      => SumFunctionOnSet(history, PlansOf[r]) * 100 >= MinOf(r) * BatchSize

\* What one job suggests can be put into one playbook: no two tools are ordered both
\* ways, or ordered and parallel.
NoContradiction ==
  \A s \in Sessions : \A r, q \in session[s].todo \cup session[s].added :
    r # q => {r.tools[1], r.tools[2]} # {q.tools[1], q.tools[2]}

\* "skip any already ACCEPTED or REJECTED": a rule that was decided before a job read
\* the plans is not suggested by it again, however many sessions and reviewers work on
\* the suggestions meanwhile.
DecisionsStand ==
  \A s \in Sessions : session[s].added \cap session[s].settled = {}
=============================================================================

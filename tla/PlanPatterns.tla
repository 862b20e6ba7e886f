---------------------------- MODULE PlanPatterns ----------------------------
(***************************************************************************)
(* The pattern extraction of the playbook evolution job                    *)
(* (worker_agent/evolution/patterns.py): pure functions of the plans in a  *)
(* window, and what their docstrings say they count.                       *)
(*                                                                         *)
(* A plan has the tool of each of its steps and, as pairs of ids, their    *)
(* dependencies, of which some may name no step.  Tools are numbered in    *)
(* the order in which sorted() puts their names.  A window is a bag.       *)
(***************************************************************************)
EXTENDS Integers, FiniteSetsExt, Graphs

CONSTANTS
  Tool,          \* the numbers of the tools
  OrderingMin,   \* MIN_FREQ_ORDERING, in percent
  ParallelMin,   \* MIN_FREQ_PARALLEL, in percent
  Samples        \* the plans the functions are compared with their references on

ASSUME PatternsAssumption ==
  /\ Tool \subseteq Nat
  /\ OrderingMin \in 0 .. 100
  /\ ParallelMin \in 0 .. 100

\* The rules suggested for a playbook.
Ordering(a, b) == [type |-> "hard_ordering", tools |-> <<a, b>>]
Parallel(a, b) == [type |-> "soft_parallel", tools |-> <<a, b>>]

Orderings == {r \in {Ordering(a, b) : a, b \in Tool} : r.tools[1] # r.tools[2]}
Parallels == {r \in {Parallel(a, b) : a, b \in Tool} : r.tools[1] < r.tools[2]}
Rule      == Orderings \cup Parallels

\* The DAG of a plan; dependencies on what is no step are left out.
Dag(p) == LET steps == DOMAIN p.tool
          IN [node |-> steps, edge |-> p.deps \cap (steps \X steps)]

-----------------------------------------------------------------------------
(* The functions.                                                          *)

\* topological_generations(): steps whose predecessors are all in earlier ones.
Generation(p) ==
  LET G == Dag(p)
      done[n \in Nat] == IF n = 0 THEN {}
                         ELSE {s \in G.node : Predecessors(G, s) \subseteq done[n - 1]}
  IN [n \in 1 .. Cardinality(G.node) |-> done[n] \ done[n - 1]]

\* _get_parallel_rounds(): the tools of each generation.
Rounds(p) ==
  LET generation == Generation(p)
  IN [n \in DOMAIN generation |-> {p.tool[s] : s \in generation[n]}]

\* Faulty variant: only the dependencies themselves are counted.
EdgesOfRule(p, r) ==
  {e \in Dag(p).edge : p.tool[e[1]] = r.tools[1] /\ p.tool[e[2]] = r.tools[2]}

\* transitive_closure(): the steps one gets to from s, one edge further at a time.
Reached(p, s) ==
  LET G == Dag(p)
      reached[n \in Nat] == IF n = 0 THEN Successors(G, s)
                            ELSE reached[n - 1] \cup AllSuccessors(G, reached[n - 1])
  IN reached[Cardinality(G.node)]

\* The edges of the transitive closure between steps with the tools of r.
OrderedSteps(p, r) ==
  UNION {{<<s, t>> : t \in {t \in Reached(p, s) : p.tool[t] = r.tools[2]}} :
         s \in {s \in DOMAIN p.tool : p.tool[s] = r.tools[1]}}

\* The rounds with both tools of r.
RoundsOfRule(p, r) ==
  LET rounds == Rounds(p)
  IN {n \in DOMAIN rounds : {r.tools[1], r.tools[2]} \subseteq rounds[n]}

\* What a plan adds to pair_counts.
CountOf(p, r) == IF r \in Orderings THEN Cardinality(OrderedSteps(p, r))
                                    ELSE Cardinality(RoundsOfRule(p, r))

MinOf(r) == IF r \in Orderings THEN OrderingMin ELSE ParallelMin

\* How often a rule is in the plans of a window.
InWindow(w, r) == SumFunction([p \in DOMAIN w |-> w[p] * CountOf(p, r)])

\* Faulty variant: every rule that is in the window at all.
AnyRule(w) == {r \in Rule : InWindow(w, r) > 0}

\* extract_consistent_orderings() and extract_parallel_patterns(): the rules in
\* pair_counts, often enough for the number of plans.
Candidates(w) ==
  LET n == SumFunction(w)
  IN {r \in Rule : InWindow(w, r) > 0 /\ InWindow(w, r) * 100 >= MinOf(r) * n}

-----------------------------------------------------------------------------
(* What they count.                                                        *)

\* "before_tool transitively precedes after_tool in the plan's step DAG": there is no
\* way to draw a line behind s that no dependency crosses and that t is beyond.
Precedes(p, s, t) ==
  \A past \in SUBSET DOMAIN p.tool :
    (/\ \A e \in Dag(p).edge : e[1] = s \/ e[1] \in past => e[2] \in past) => t \in past

\* A plan of finitely many steps, none of which depends on itself, however indirectly.
IsPlan(p) ==
  /\ IsFiniteSet(DOMAIN p.tool)
  /\ \A s \in DOMAIN p.tool : ~Precedes(p, s, s)

ASSUME SamplesAssumption == \A p \in Samples : IsPlan(p)

\* The step that is done as early as its dependencies allow, each taking one round.
EarliestRound(p) ==
  CHOOSE round \in [DOMAIN p.tool -> 1 .. Cardinality(DOMAIN p.tool)] :
    \A s \in DOMAIN p.tool :
      round[s] = Max({0} \cup {round[t] : t \in Predecessors(Dag(p), s)}) + 1

\* A plan in which r is seen.
Seen(p, r) ==
  \E s, t \in DOMAIN p.tool :
    /\ p.tool[s] = r.tools[1]
    /\ p.tool[t] = r.tools[2]
    /\ IF r \in Orderings THEN Precedes(p, s, t)
                          ELSE EarliestRound(p)[s] = EarliestRound(p)[t]

\* A plan that runs no tool twice.
NoRepeats(p) == \A s, t \in DOMAIN p.tool : p.tool[s] = p.tool[t] => s = t

\* A plan counts for the rules that are seen in it and for no other, and for each of
\* them once if it runs no tool twice.
CountsWhatIsSeen ==
  \A p \in Samples, r \in Rule :
    /\ CountOf(p, r) > 0 <=> Seen(p, r)
    /\ NoRepeats(p) => CountOf(p, r) <= 1
=============================================================================

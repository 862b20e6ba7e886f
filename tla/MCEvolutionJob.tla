--------------------------- MODULE MCEvolutionJob ---------------------------
(* A small instance of EvolutionJob for TLC.                               *)
EXTENDS EvolutionJob, TLC

CONSTANTS s1, s2

TwoSessions     == {s1, s2}
SessionSymmetry == Permutations(TwoSessions)

\* Four steps, each after any of the earlier ones and one of them also after a step
\* there is none of, with up to three tools: all choices of tools, up to renaming.
Earlier   == {e \in (1 .. 4) \X (1 .. 4) : e[1] < e[2]}
Tools     == {f \in [1 .. 4 -> 1 .. 3] : f[1] = 1 /\ f[2] <= 2 /\ f[3] <= f[2] + 1}
FourSteps == [tool : Tools, deps : {d \cup {<<5, 1>>} : d \in SUBSET Earlier}]

\* A fork, a chain in the other order, and what report.py writes: steps without
\* dependencies, among which a tool may be repeated.
ForkChainFlat ==
  {[tool |-> <<1, 2, 3>>, deps |-> {<<1, 2>>, <<1, 3>>}],
   [tool |-> <<2, 1>>,    deps |-> {<<1, 2>>}],
   [tool |-> <<1, 2, 1>>, deps |-> {}]}
=============================================================================

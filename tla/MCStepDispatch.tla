--------------------------- MODULE MCStepDispatch ---------------------------
(* Small instances of StepDispatch for TLC.                                *)
EXTENDS StepDispatch, TLC

CONSTANTS w1, w2, s1

MCWorkers == {w1, w2}
OneStep   == {s1}

\* What execute_and_complete() handles for messages that name a tool; one as it is in
\* base.py carries no tool name and can only end "completed".
ToolMessages == Outcome

\* Workers are interchangeable.
WorkerSymmetry == Permutations(MCWorkers)
=============================================================================

-------------------------- MODULE MCQueueDispatch --------------------------
(* Small instances of QueueDispatch for TLC.                               *)
EXTENDS QueueDispatch

CONSTANTS w1, w2, s1, s2

MCWorkers == {w1, w2}
TwoSteps  == {s1, s2}
=============================================================================

--------------------------- MODULE MCRemediation ---------------------------
(* Small instances of Remediation for TLC.                                 *)
EXTENDS Remediation

CONSTANTS c1, c2, f1

TwoChains == {c1, c2}

\* Both chains send the same findings, so that the second finds a cached plan.
SameFindings == [c \in TwoChains |-> f1]

\* Whatever fails, the answers to polls come in order.
InOrder == Fault \ {"overtaking"}
=============================================================================

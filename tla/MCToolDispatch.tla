--------------------------- MODULE MCToolDispatch ---------------------------
(* Small instances of ToolDispatch for TLC.                                *)
EXTENDS ToolDispatch, TLC

CONSTANTS c1, c2

TwoCallers     == {c1, c2}
CallerSymmetry == Permutations(TwoCallers)

\* A method with the token and one with two caches.
ToolsAndSearch == {"tools", "search"}
=============================================================================

---------------------------- MODULE MCChatStream ----------------------------
(* Small instances of ChatStream for TLC.                                  *)
EXTENDS ChatStream

\* Whatever can fail does.
Failures == Fault
=============================================================================

---------------------------- MODULE MCAgentGraph ----------------------------
(* Small instances of AgentGraph for TLC.                                  *)
EXTENDS AgentGraph

\* Every class of reply.
AllReplies == Reply

\* One reply of each kind the routing tells apart.
PlainReplies == {"yes", "no", "text"}

\* auto_approve off, on, and changing from call to call.
AutoOff   == {FALSE}
AutoMixed == BOOLEAN
=============================================================================

--------------------------- MODULE MCAgentStatus ---------------------------
(* Two servers that may come to share an address. *)
EXTENDS AgentStatus

CONSTANTS s1, s2, a1, a2, w1, w2
=============================================================================

-------------------------- MODULE MCAgentRequests --------------------------
(* A Python and a Go installation that share one token. *)
EXTENDS AgentRequests

CONSTANTS py, go, r1
=============================================================================

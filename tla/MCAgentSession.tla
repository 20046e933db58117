--------------------------- MODULE MCAgentSession ---------------------------
(* AgentSession for TLC; the configuration gives the bounds.                *)
EXTENDS AgentSession
=============================================================================

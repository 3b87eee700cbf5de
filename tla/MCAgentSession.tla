--------------------------- MODULE MCAgentSession ---------------------------
(* TLC instances of AgentSession.                                          *)
EXTENDS AgentSession
============================================================================

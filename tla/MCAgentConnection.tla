-------------------------- MODULE MCAgentConnection --------------------------
(* Small instance of AgentConnection.                                      *)
EXTENDS AgentConnection
=============================================================================

-------------------------- MODULE MCAgentShutdown --------------------------
(* AgentShutdown with model values for the clients. *)
EXTENDS AgentShutdown
=============================================================================

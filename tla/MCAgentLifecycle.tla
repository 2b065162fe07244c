-------------------------- MODULE MCAgentLifecycle --------------------------
(* The instance of AgentLifecycle for TLC: three resets, so that a schema is *)
(* archived beside another archive.                                          *)
EXTENDS AgentLifecycle
=============================================================================

--------------------------- MODULE MCAgentRegistry ---------------------------
(***************************************************************************)
(* Instances of AgentRegistry for TLC.                                     *)
(***************************************************************************)
EXTENDS AgentRegistry
=============================================================================

----------------------------- MODULE MCReplicas -----------------------------
(***************************************************************************)
(* Instances of Replicas for TLC.                                          *)
(***************************************************************************)
EXTENDS Replicas
=============================================================================

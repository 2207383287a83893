---------------------------- MODULE MCWorkerConn ----------------------------
(***************************************************************************)
(* Instances of WorkerConn for TLC.                                        *)
(***************************************************************************)
EXTENDS WorkerConn
=============================================================================

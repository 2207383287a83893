------------------------- MODULE MCServiceLifecycle -------------------------
(***************************************************************************)
(* Instances of ServiceLifecycle for TLC. The slots of the job table are   *)
(* interchangeable, so they form a symmetry set in the safety runs.        *)
(***************************************************************************)
EXTENDS ServiceLifecycle, TLC

Symmetry == Permutations(Jobs)
=============================================================================

------------------------------ MODULE MCRunstore ------------------------------
(***************************************************************************)
(* Two clients, two runs and one artifact path: enough for two writers of a *)
(* sidecar to overlap, for a run to report the file of an earlier one, for *)
(* a delete to fall between the two transactions of an attach, and for a   *)
(* run id to be used again.                                                *)
(***************************************************************************)
EXTENDS Runstore, TLC

Symmetry == Permutations(Clients) \cup Permutations(RunIds)
=============================================================================

----------------------------- MODULE MCApprovedBatch -----------------------------
(***************************************************************************)
(* ApprovedBatch for TLC.  The slots are interchangeable, and so are      *)
(* the plans.                                                              *)
(***************************************************************************)
EXTENDS ApprovedBatch, TLC

Symmetry == Permutations(Procs) \cup Permutations(Plans)

=============================================================================

----------------------------- MODULE MCFrozenBatch ------------------------------
(* Small instances of FrozenBatch for TLC.                                  *)
EXTENDS FrozenBatch, TLC

\* Processes are interchangeable; sellers are not, the queue orders them.
Symmetry == Permutations(Procs)

=============================================================================

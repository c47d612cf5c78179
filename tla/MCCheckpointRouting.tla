------------------------- MODULE MCCheckpointRouting -------------------------
(* Instances of CheckpointRouting. *)
EXTENDS CheckpointRouting, TLC

Symmetry == Permutations(Worker)

=============================================================================

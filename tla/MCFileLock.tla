----------------------------- MODULE MCFileLock ------------------------------
(* Instances of FileLock. *)
EXTENDS FileLock, TLC

Symmetry == Permutations(Process) \cup Permutations(Inode)

==============================================================================

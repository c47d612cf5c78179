--------------------------- MODULE MCCondensation ---------------------------
(* One session, two processes working on it at a time, one subagent task. *)
EXTENDS Condensation, TLC

CONSTANTS t1, w1, w2

Symmetry == Permutations(Worker)

=============================================================================

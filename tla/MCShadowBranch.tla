--------------------------- MODULE MCShadowBranch ---------------------------
(* Instances of ShadowBranch. *)
EXTENDS ShadowBranch, TLC

Symmetry == Permutations(Session) \cup Permutations(Worker)

=============================================================================

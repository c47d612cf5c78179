----------------------------- MODULE MCAdoption -----------------------------
(* Instances of Adoption. *)
EXTENDS Adoption, TLC

Symmetry == Permutations(Adopter)

=============================================================================

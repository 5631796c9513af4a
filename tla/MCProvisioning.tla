--------------------------- MODULE MCProvisioning ---------------------------
(* Small instances of Provisioning. *)
EXTENDS Provisioning, TLC

Symmetry == Permutations(Tasks) \cup Permutations(Keys)
=============================================================================

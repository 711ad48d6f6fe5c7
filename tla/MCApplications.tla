---------------------------- MODULE MCApplications ----------------------------
(* A small instance of Applications for TLC. *)
EXTENDS Applications, TLC

Either == BOOLEAN

Symmetry == Permutations(Jobs) \cup Permutations(Rages)
=============================================================================

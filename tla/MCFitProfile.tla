---------------------------- MODULE MCFitProfile ----------------------------
(* A few requests of each kind, and two pools of questions. *)
EXTENDS FitProfile, TLC

Symmetry == Permutations(Looks) \cup Permutations(Submits)
=============================================================================

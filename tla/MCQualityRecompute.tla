------------------------- MODULE MCQualityRecompute -------------------------
(* Small instances of QualityRecompute for TLC.                               *)
EXTENDS QualityRecompute, TLC

Symmetry ==
  Permutations(Handlers) \cup Permutations(Workers) \cup Permutations(Callers)
=============================================================================

----------------------------- MODULE MCMatchCache -----------------------------
(* Small instances of MatchCache for TLC. *)
EXTENDS MatchCache

AllFaults == FaultKinds
NoFaults == {}
=============================================================================

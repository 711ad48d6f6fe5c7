---------------------------- MODULE MCWeeklyBatch ----------------------------
(* Small instances of WeeklyBatch for TLC. *)
EXTENDS WeeklyBatch
=============================================================================

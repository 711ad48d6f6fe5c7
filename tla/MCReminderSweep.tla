------------------------- MODULE MCReminderSweep -------------------------
(* Small instances of ReminderSweep, and with it of DistributedLock, for TLC. *)
EXTENDS ReminderSweep
=============================================================================

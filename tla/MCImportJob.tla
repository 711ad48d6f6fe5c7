---------------------------- MODULE MCImportJob ----------------------------
(* The request that created the job, retries and cancels. *)
EXTENDS ImportJob

AllFaults == FaultKinds
=============================================================================

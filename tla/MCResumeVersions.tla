-------------------------- MODULE MCResumeVersions --------------------------
(* Small instances of ResumeVersions for TLC.                                 *)
EXTENDS ResumeVersions, TLC

CONSTANTS c1, c2, c3, c4, blank, edited

\* One call of every kind.
KindAll == (c1 :> "tailor") @@ (c2 :> "restore") @@ (c3 :> "update") @@ (c4 :> "snapshot")

\* A snapshot and its restore.
KindTwo == (c1 :> "snapshot") @@ (c2 :> "restore")
=============================================================================

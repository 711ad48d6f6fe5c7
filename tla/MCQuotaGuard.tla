---------------------------- MODULE MCQuotaGuard ----------------------------
(* A small instance of QuotaGuard for TLC: four requests, two of them for the  *)
(* same row, and one row that is imported.                                     *)
EXTENDS QuotaGuard, TLC

CONSTANTS r1, r2, r3, r4, i1, i2, i3, i4

MCItemOf == (r1 :> i1) @@ (r2 :> i2) @@ (r3 :> i3) @@ (r4 :> i3)
=============================================================================

------------------------------ MODULE MCMecSync ------------------------------
(* Small instances of MecSync for TLC: two institutions with one course each. *)
EXTENDS MecSync, TLC

CONSTANTS i1, i2, c1, c2

MCInstOf == (c1 :> i1) @@ (c2 :> i2)

\* Syncs and readers have no order, and exchanging the institutions together with
\* their courses leaves InstOf as it is.
Exchange == (i1 :> i2) @@ (i2 :> i1) @@ (c1 :> c2) @@ (c2 :> c1)

Symmetry == Permutations(Syncs) \cup Permutations(Readers) \cup {Exchange}
=============================================================================

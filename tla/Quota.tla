------------------------------- MODULE Quota -------------------------------
(***************************************************************************)
(* What a row quota promises: to its callers, checking the cap and adding  *)
(* the row are one step.  Rows may leave at any time.  Import is for the   *)
(* writers of the same table that never ask: the promise is not theirs.    *)
(***************************************************************************)
EXTENDS FiniteSets, Naturals

CONSTANTS Items, Importable, Max

VARIABLE rows

Init == rows = {}

Create(i) ==
  /\ i \notin rows
  /\ Cardinality(rows) < Max
  /\ rows' = rows \cup {i}

Remove(i) ==
  /\ i \in rows
  /\ rows' = rows \ {i}

Import(i) ==
  /\ i \notin rows
  /\ rows' = rows \cup {i}

Next ==
  \/ \E i \in Items : Create(i) \/ Remove(i)
  \/ \E i \in Importable : Import(i)

Spec == Init /\ [][Next]_rows
=============================================================================

----------------------- MODULE ResumeVersions_proofs -----------------------
(***************************************************************************)
(* Proofs about ResumeVersions, for any number of calls of any kind, any   *)
(* cap and any retry budget.                                               *)
(*                                                                         *)
(* Three arguments.  What a cleanup is about to delete has MaxVersions     *)
(* newer rows when it is listed, and keeps having them: another cleanup    *)
(* may take some of those away, but then everything newer than the newest  *)
(* row it takes away stays.  Each lost race moves the newest number up by  *)
(* one that a different call has inserted, so that the losses of a call    *)
(* are fewer than the calls.  And of any calls that have listed what is    *)
(* beyond the cap, the last has seen the rows of them all.                 *)
(***************************************************************************)
EXTENDS ResumeVersions, FiniteSetTheorems, WellFoundedInduction, TLAPS

\* The calls that have not inserted their row.
Before == {"todo", "read", "insert"}

\* A row names the one call that has made it.
OneRowEach ==
  /\ \A r, s \in rows : r.by = s.by => r = s
  /\ \A r \in rows : pc[r.by] \notin Before
  /\ \A c, d \in Calls : d \in doomed[c] => pc[d] \notin Before

\* A row a cleanup is about to delete is still beyond the cap.
DoomedBeyondCap ==
  \A c \in Calls : pc[c] = "delete" =>
    \A r \in rows : r.by \in doomed[c] => Cardinality(Newer(r.num)) >= MaxVersions

\* A call that is still trying has a try left.
TriesLeft == \A c \in Calls : pc[c] \in Before => tries[c] < MaxRetries

IInv == TypeOK /\ IsFiniteSet(rows) /\ OneRowEach /\ DoomedBeyondCap /\ TriesLeft

-----------------------------------------------------------------------------
\* The snapshots that are taken are snapshots.
LEMMA SnapshotTypes ==
  ASSUME resume \in [Parts -> Values]
  PROVE  Empty \in Snapshots /\ \A c : TakeSnapshot(c) \in Snapshots
<1>1. {} \in SUBSET Parts /\ {"sections"} \in SUBSET Parts
  BY DEF Parts
<1>2. Empty \in [{} -> Values]
  BY DEF Empty
<1>3. \A c : TakeSnapshot(c) \in [{"sections"} -> Values]
  BY DEF TakeSnapshot, Parts
<1> QED
  BY <1>1, <1>2, <1>3, Zenon DEF Snapshots

LEMMA InitIInv == Init => IInv
<1> SUFFICES ASSUME Init PROVE IInv
  OBVIOUS
<1>1. resume \in [Parts -> Values]
  BY VersionsAssumption DEF Init
<1>2. Empty \in Snapshots
  BY <1>1, SnapshotTypes
<1>3. IsFiniteSet(rows)
  BY FS_EmptySet DEF Init
<1> QED
  BY <1>1, <1>2, <1>3, VersionsAssumption
     DEF Init, IInv, TypeOK, OneRowEach, DoomedBeyondCap, TriesLeft, PCs

\* A set of natural numbers has a least one.
LEMMA LeastOf ==
  ASSUME NEW C, C \subseteq Nat, C # {}
  PROVE  \E m \in C : \A k \in C : m <= k
<1> DEFINE R == OpToRel(<, Nat)
<1>1. \E m \in C : \A k \in C : <<k, m>> \notin R
  BY WFMin, NatLessThanWellFounded, Zenon
<1>2. \A k, m \in Nat : <<k, m>> \notin R => m <= k
  BY DEF OpToRel
<1> QED
  BY <1>1, <1>2

\* The sets of newer rows are finite, and larger for smaller numbers.
LEMMA NewerFinite ==
  ASSUME IInv, NEW n \in Nat
  PROVE  IsFiniteSet(Newer(n)) /\ Cardinality(Newer(n)) \in Nat
BY FS_Subset, FS_CardinalityType DEF Newer, IInv

\* Among rows that all are beyond the cap there is a newest one.
LEMMA NewestOf ==
  ASSUME IInv, NEW D, D \subseteq rows, D # {}
  PROVE  \E s \in D : \A t \in D : t.num <= s.num
<1> DEFINE C == {Cardinality(Newer(s.num)) : s \in D}
<1>1. \A s \in D : s.num \in Nat /\ Cardinality(Newer(s.num)) \in Nat
  BY NewerFinite DEF IInv, TypeOK, Rows
<1>2. PICK m \in C : \A k \in C : m <= k
  BY <1>1, LeastOf
<1>3. PICK s \in D : m = Cardinality(Newer(s.num))
  BY <1>2
<1>4. ASSUME NEW t \in D, t.num > s.num PROVE FALSE
  <2>1. Newer(t.num) \subseteq Newer(s.num) /\ t \in Newer(s.num) /\ t \notin Newer(t.num)
    BY <1>4, <1>1 DEF Newer, IInv, TypeOK, Rows
  <2>2. Cardinality(Newer(t.num)) < Cardinality(Newer(s.num))
    BY <2>1, <1>1, NewerFinite, FS_Subset
  <2> QED
    BY <2>2, <1>1, <1>2, <1>3
<1> QED
  BY <1>4, <1>1

\* What a cleanup deletes leaves MaxVersions newer rows behind, for each row
\* that was older than one of the deleted.
LEMMA Survivors ==
  ASSUME IInv, NEW c \in Calls, DeleteOld(c), NEW r \in rows \ rows'
  PROVE  \E s \in rows : /\ s.num >= r.num
                         /\ Newer(s.num) \subseteq rows'
                         /\ Cardinality(Newer(s.num)) >= MaxVersions
<1> DEFINE D == {x \in rows : x.by \in doomed[c]}
<1>1. r \in D /\ rows' = rows \ D
  BY DEF DeleteOld
<1>2. PICK s \in D : \A t \in D : t.num <= s.num
  BY <1>1, NewestOf
<1>3. Newer(s.num) \subseteq rows'
  BY <1>1, <1>2 DEF Newer, IInv, TypeOK, Rows
<1> QED
  BY <1>1, <1>2, <1>3 DEF DeleteOld, IInv, DoomedBeyondCap, TypeOK, Rows

\* Steps that leave the rows, and what is to be deleted, as they are.
LEMMA QuietStep ==
  ASSUME IInv, TypeOK', rows' = rows, doomed' = doomed,
         \A c \in Calls : pc[c] \notin Before => pc'[c] \notin Before,
         \A c \in Calls : pc'[c] \in Before => tries'[c] < MaxRetries,
         \A c \in Calls : pc'[c] = "delete" => pc[c] = "delete"
  PROVE  IInv'
BY DEF IInv, OneRowEach, DoomedBeyondCap, TriesLeft, TypeOK, Rows, Newer

LEMMA InsertStep ==
  ASSUME IInv, NEW c \in Calls, Insert(c)
  PROVE  IInv'
<1>1. Row(c) \in Rows /\ Row(c).by = c
  BY DEF IInv, TypeOK, Row, Rows
<1>2. TypeOK'
  BY <1>1 DEF IInv, TypeOK, Insert, PCs
<1>3. IsFiniteSet(rows')
  BY FS_AddElement DEF IInv, Insert
<1>4. OneRowEach'
  BY <1>1 DEF IInv, TypeOK, OneRowEach, Insert, Before, Rows
<1>5. DoomedBeyondCap'
  <2> SUFFICES ASSUME NEW d \in Calls, pc'[d] = "delete",
                      NEW r \in rows', r.by \in doomed'[d]
               PROVE  Cardinality(Newer(r.num)') >= MaxVersions
    BY DEF DoomedBeyondCap
  <2>1. r \in rows /\ Cardinality(Newer(r.num)) >= MaxVersions
    BY <1>1 DEF Insert, IInv, TypeOK, OneRowEach, DoomedBeyondCap, Before
  <2>2. r.num \in Nat
    BY <2>1 DEF IInv, TypeOK, Rows
  <2>3. Newer(r.num) \subseteq Newer(r.num)' /\ IsFiniteSet(Newer(r.num)')
    BY <1>3, FS_Subset DEF Insert, Newer
  <2>4. Cardinality(Newer(r.num)) <= Cardinality(Newer(r.num)')
    BY <2>3, FS_Subset
  <2>5. Cardinality(Newer(r.num)) \in Nat /\ Cardinality(Newer(r.num)') \in Nat
    BY <2>2, <2>3, NewerFinite, FS_CardinalityType
  <2> QED
    BY <2>1, <2>4, <2>5, VersionsAssumption
<1>6. TriesLeft'
  BY DEF IInv, TypeOK, TriesLeft, Insert, Before
<1> QED
  BY <1>2, <1>3, <1>4, <1>5, <1>6 DEF IInv

LEMMA ListStep ==
  ASSUME IInv, NEW c \in Calls, ListOld(c)
  PROVE  IInv'
<1>1. TypeOK'
  BY VersionsAssumption DEF IInv, TypeOK, ListOld, Tail, Rows, PCs, AfterSnapshot
<1>2. OneRowEach'
  BY <1>1, VersionsAssumption
     DEF IInv, TypeOK, ListOld, Tail, Rows, OneRowEach, Before, AfterSnapshot
<1>3. DoomedBeyondCap'
  <2> SUFFICES ASSUME NEW d \in Calls, pc'[d] = "delete",
                      NEW r \in rows, r.by \in doomed'[d]
               PROVE  Cardinality(Newer(r.num)) >= MaxVersions
    BY DEF DoomedBeyondCap, ListOld, Newer
  <2>1. CASE d = c
    BY <2>1 DEF ListOld, Tail, IInv, TypeOK, OneRowEach
  <2>2. CASE d # c
    BY <2>2 DEF ListOld, IInv, TypeOK, DoomedBeyondCap
  <2> QED
    BY <2>1, <2>2
<1>4. TriesLeft'
  BY <1>1 DEF IInv, TypeOK, TriesLeft, ListOld, Before, AfterSnapshot
<1> QED
  BY <1>1, <1>2, <1>3, <1>4 DEF IInv, ListOld

LEMMA DeleteStep ==
  ASSUME IInv, NEW c \in Calls, DeleteOld(c)
  PROVE  IInv'
<1>1. TypeOK'
  BY VersionsAssumption DEF IInv, TypeOK, DeleteOld, PCs, AfterSnapshot
<1>2. IsFiniteSet(rows') /\ rows' \subseteq rows
  BY FS_Subset DEF IInv, DeleteOld
<1>3. OneRowEach'
  BY VersionsAssumption DEF IInv, TypeOK, OneRowEach, DeleteOld, Before, AfterSnapshot
<1>4. DoomedBeyondCap'
  <2> SUFFICES ASSUME NEW d \in Calls, pc'[d] = "delete",
                      NEW r \in rows', r.by \in doomed'[d]
               PROVE  Cardinality(Newer(r.num)') >= MaxVersions
    BY DEF DoomedBeyondCap
  <2>0. pc[d] = "delete" /\ r \in rows /\ r.by \in doomed[d] /\ r.num \in Nat
    BY <1>2 DEF DeleteOld, AfterSnapshot, IInv, TypeOK, Rows
  <2>1. CASE Newer(r.num) \subseteq rows'
    <3>1. Newer(r.num)' = Newer(r.num)
      BY <1>2, <2>1 DEF Newer
    <3> QED
      BY <2>0, <3>1 DEF IInv, DoomedBeyondCap
  <2>2. CASE ~ (Newer(r.num) \subseteq rows')
    <3>1. PICK x \in rows \ rows' : x.num > r.num
      BY <2>2 DEF Newer
    <3>2. PICK s \in rows : /\ s.num >= x.num
                            /\ Newer(s.num) \subseteq rows'
                            /\ Cardinality(Newer(s.num)) >= MaxVersions
      BY Survivors
    <3>3. Newer(s.num) \subseteq Newer(r.num)'
      BY <2>0, <3>1, <3>2 DEF Newer, IInv, TypeOK, Rows
    <3>4. IsFiniteSet(Newer(r.num)')
      BY <1>2, FS_Subset DEF Newer
    <3>5. Cardinality(Newer(s.num)) <= Cardinality(Newer(r.num)')
      BY <3>3, <3>4, FS_Subset
    <3>6. Cardinality(Newer(s.num)) \in Nat /\ Cardinality(Newer(r.num)') \in Nat
      BY <3>2, <3>4, NewerFinite, FS_CardinalityType DEF IInv, TypeOK, Rows
    <3> QED
      BY <3>2, <3>5, <3>6, VersionsAssumption
  <2> QED
    BY <2>1, <2>2
<1>5. TriesLeft'
  BY <1>1 DEF IInv, TypeOK, TriesLeft, DeleteOld, Before, AfterSnapshot
<1> QED
  BY <1>1, <1>2, <1>3, <1>4, <1>5 DEF IInv

LEMMA StepIInv == IInv /\ [Next]_vars => IInv'
<1> SUFFICES ASSUME IInv, [Next]_vars PROVE IInv'
  OBVIOUS
<1>0. resume \in [Parts -> Values]
  BY DEF IInv, TypeOK
<1> USE VersionsAssumption DEF PCs, Kinds, Before
<1>1. ASSUME NEW c \in Calls, StartSnapshot(c) PROVE IInv'
  <2>1. TypeOK'
    BY <1>0, <1>1, SnapshotTypes DEF StartSnapshot, IInv, TypeOK
  <2> QED
    BY <1>1, <2>1, QuietStep DEF TriesLeft, StartSnapshot, IInv, TypeOK
<1>2. ASSUME NEW c \in Calls, StartRestore(c) PROVE IInv'
  <2>1. TypeOK'
    BY <1>0, <1>2, SnapshotTypes DEF StartRestore, IInv, TypeOK, Rows
  <2> QED
    BY <1>2, <2>1, QuietStep DEF TriesLeft, StartRestore, IInv, TypeOK
<1>3. ASSUME NEW c \in Calls, StartTailor(c) PROVE IInv'
  <2>1. TypeOK'
    BY <1>3 DEF StartTailor, IInv, TypeOK
  <2> QED
    BY <1>3, <2>1, QuietStep DEF TriesLeft, StartTailor, IInv, TypeOK
<1>4. ASSUME NEW c \in Calls, ReadLast(c) PROVE IInv'
  <2>1. TypeOK'
    BY <1>4 DEF ReadLast, IInv, TypeOK, Rows
  <2> QED
    BY <1>4, <2>1, QuietStep DEF TriesLeft, ReadLast, IInv, TypeOK
<1>5. ASSUME NEW c \in Calls, Insert(c) PROVE IInv'
  BY <1>5, InsertStep
<1>6. ASSUME NEW c \in Calls, InsertConflict(c) PROVE IInv'
  <2>1. TypeOK'
    BY <1>6 DEF InsertConflict, Throw, IInv, TypeOK, TriesLeft
  <2> QED
    BY <1>6, <2>1, QuietStep DEF TriesLeft, InsertConflict, Throw, IInv, TypeOK
<1>7. ASSUME NEW c \in Calls, Publish(c) PROVE IInv'
  <2>1. TypeOK'
    BY <1>7 DEF Publish, IInv, TypeOK
  <2> QED
    BY <1>7, <2>1, QuietStep DEF TriesLeft, Publish, IInv, TypeOK
<1>8. ASSUME NEW c \in Calls, ListOld(c) PROVE IInv'
  BY <1>8, ListStep
<1>9. ASSUME NEW c \in Calls, DeleteOld(c) PROVE IInv'
  BY <1>9, DeleteStep
<1>10. ASSUME NEW c \in Calls, ApplyUpdate(c) PROVE IInv'
  <2>0. PICK v \in Values : resume' = [resume EXCEPT !["fields"] = v]
    BY <1>10 DEF ApplyUpdate
  <2>1. TypeOK'
    BY <1>10, <2>0 DEF ApplyUpdate, IInv, TypeOK
  <2> QED
    BY <1>10, <2>1, QuietStep DEF TriesLeft, ApplyUpdate, IInv, TypeOK
<1>11. ASSUME NEW c \in Calls, ApplyRestore(c) PROVE IInv'
  <2>1. ExtractResumeData(picked[c]) \in Snapshots
    <3>1. PICK ps \in SUBSET Parts : picked[c] \in [ps -> Values]
      BY DEF IInv, TypeOK, Snapshots
    <3>2. /\ ps \cap {"fields"} \in SUBSET Parts
          /\ ExtractResumeData(picked[c]) \in [ps \cap {"fields"} -> Values]
      BY <3>1 DEF ExtractResumeData
    <3> QED
      BY <3>2, Zenon DEF Snapshots
  <2>2. resume' \in [Parts -> Values]
    BY <1>0, <1>11, <2>1 DEF ApplyRestore, Snapshots
  <2>3. TypeOK'
    BY <1>11, <2>2 DEF ApplyRestore, IInv, TypeOK
  <2> QED
    BY <1>11, <2>3, QuietStep DEF TriesLeft, ApplyRestore, IInv, TypeOK
<1>12. ASSUME NEW c \in Calls, Fault(c) PROVE IInv'
  <2>1. TypeOK'
    BY <1>12 DEF Fault, SnapshotError, Abandon, Throw, IInv, TypeOK
  <2> QED
    BY <1>12, <2>1, QuietStep DEF TriesLeft, Fault, SnapshotError, Abandon, Throw, IInv, TypeOK
<1>13. ASSUME NEW v \in Values, EditSections(v) PROVE IInv'
  <2>1. TypeOK'
    BY <1>13 DEF EditSections, IInv, TypeOK
  <2> QED
    BY <1>13, <2>1, QuietStep DEF TriesLeft, EditSections, IInv
<1>14. ASSUME UNCHANGED vars PROVE IInv'
  <2>1. TypeOK'
    BY <1>14 DEF vars, IInv, TypeOK
  <2> QED
    BY <1>14, <2>1, QuietStep DEF TriesLeft, vars, IInv
<1> QED
  BY <1>1, <1>2, <1>3, <1>4, <1>5, <1>6, <1>7, <1>8, <1>9, <1>10, <1>11, <1>12,
     <1>13, <1>14 DEF Next, Step

-----------------------------------------------------------------------------
\* The invariant holds in every reachable state.
THEOREM Invariance == Spec => []IInv
BY InitIInv, StepIInv, PTL DEF Spec

\* The type invariant, for every number of calls.
THEOREM TypeCorrect == Spec => []TypeOK
<1>1. IInv => TypeOK
  BY DEF IInv
<1> QED
  BY <1>1, Invariance, PTL

\* A cleanup acts on ids read earlier; whatever has been inserted and deleted in
\* between, it never deletes one of the newest MaxVersions rows.
THEOREM NewestKept == Spec => KeepsNewest
<1>1. ASSUME IInv, [Next]_vars, NEW r \in rows \ rows'
      PROVE  Cardinality(Newer(r.num)) >= MaxVersions
  <2>1. PICK c \in Calls : DeleteOld(c)
    BY <1>1 DEF Next, Step, StartSnapshot, StartRestore, StartTailor, ReadLast, Insert,
                InsertConflict, Publish, ListOld, ApplyUpdate, ApplyRestore, Fault,
                SnapshotError, Abandon, EditSections, vars
  <2> QED
    BY <1>1, <2>1 DEF DeleteOld, IInv, DoomedBeyondCap
<1>2. IInv /\ [Next]_vars =>
        [\A r \in rows \ rows' : Cardinality(Newer(r.num)) >= MaxVersions]_vars
  BY <1>1
<1> QED
  BY <1>2, Invariance, PTL DEF Spec, KeepsNewest

-----------------------------------------------------------------------------
\* The calls that are past their insert, or gave up.
Past == {c \in Calls : pc[c] \notin Before}

\* The numbers go up to the number of such calls at most, and each race that a
\* call has lost has moved the newest number it will read up by one.
RaceBound ==
  /\ \A r \in rows : r.num <= Cardinality(Past)
  /\ \A c \in Calls : pc[c] = "insert" =>
       last[c] <= Cardinality(Past) /\ tries[c] <= last[c]
  /\ \A c \in Calls : pc[c] \in {"todo", "read"} =>
       tries[c] = 0 \/ \E r \in rows : tries[c] <= r.num
  /\ \A c \in Calls : tries[c] < Cardinality(Calls)

LEMMA PastFinite ==
  ASSUME IsFiniteSet(Calls)
  PROVE  /\ IsFiniteSet(Past) /\ Cardinality(Past) \in Nat
         /\ Cardinality(Calls) \in Nat
         /\ \A c \in Calls : pc[c] \in Before => Cardinality(Past) < Cardinality(Calls)
<1>1. Past \subseteq Calls
  BY DEF Past
<1>2. ASSUME NEW c \in Calls, pc[c] \in Before
      PROVE  Cardinality(Past) < Cardinality(Calls)
  <2>1. c \notin Past
    BY <1>2 DEF Past
  <2> QED
    BY <1>1, <2>1, FS_Subset, FS_CardinalityType
<1> QED
  BY <1>1, <1>2, FS_Subset, FS_CardinalityType

\* No call comes back to its insert.
LEMMA PastGrows ==
  ASSUME IsFiniteSet(Calls), IInv, [Next]_vars
  PROVE  Past \subseteq Past' /\ IsFiniteSet(Past') /\ Cardinality(Past') \in Nat
         /\ Cardinality(Past) <= Cardinality(Past')
<1>1. Past \subseteq Past'
  BY VersionsAssumption
     DEF Past, Before, IInv, TypeOK, Next, Step, StartSnapshot, StartRestore, StartTailor,
         ReadLast, Insert, InsertConflict, Throw, Publish, ListOld, DeleteOld, AfterSnapshot,
         ApplyUpdate, ApplyRestore, Fault, SnapshotError, Abandon, EditSections, vars
<1>2. Past' \subseteq Calls
  BY DEF Past
<1> QED
  BY <1>1, <1>2, FS_Subset, FS_CardinalityType

LEMMA InitRace == ASSUME IsFiniteSet(Calls), Init PROVE RaceBound
<1>1. ASSUME NEW c \in Calls PROVE Cardinality(Calls) > 0
  BY FS_EmptySet, FS_CardinalityType
<1> QED
  BY <1>1, FS_CardinalityType DEF Init, RaceBound

LEMMA StepRace ==
  ASSUME IsFiniteSet(Calls), IInv, RaceBound, [Next]_vars
  PROVE  RaceBound'
<1> USE VersionsAssumption, PastFinite, PastGrows DEF IInv, TypeOK, Before
<1>1. ASSUME NEW c \in Calls, StartSnapshot(c) \/ StartRestore(c) \/ StartTailor(c)
      PROVE  RaceBound'
  BY <1>1 DEF StartSnapshot, StartRestore, StartTailor, RaceBound, Rows
<1>2. ASSUME NEW c \in Calls, ReadLast(c) PROVE RaceBound'
  BY <1>2 DEF ReadLast, RaceBound, Rows, Newer
<1>3. ASSUME NEW c \in Calls, Insert(c) PROVE RaceBound'
  <2>1. c \notin Past /\ Past' = Past \cup {c}
    BY <1>3 DEF Insert, Past
  <2>2. Cardinality(Past') = Cardinality(Past) + 1
    BY <2>1, FS_AddElement
  <2> QED
    BY <1>3, <2>2 DEF Insert, Row, RaceBound, Rows
<1>4. ASSUME NEW c \in Calls, InsertConflict(c) PROVE RaceBound'
  <2>1. PICK r \in rows : r.num = last[c] + 1
    BY <1>4 DEF InsertConflict, Taken
  <2>2. tries[c] + 1 <= r.num /\ tries[c] + 1 < Cardinality(Calls)
    BY <1>4, <2>1 DEF InsertConflict, RaceBound, Rows
  <2> QED
    BY <1>4, <2>2 DEF InsertConflict, Throw, RaceBound, Rows
<1>5. ASSUME NEW c \in Calls, DeleteOld(c) PROVE RaceBound'
  <2>1. ASSUME NEW d \in Calls, NEW r \in rows, tries[d] <= r.num
        PROVE  \E s \in rows' : tries[d] <= s.num
    <3>1. CASE r \in rows'
      BY <2>1, <3>1
    <3>2. CASE r \notin rows'
      <4>1. PICK s \in rows : /\ s.num >= r.num
                              /\ Newer(s.num) \subseteq rows'
                              /\ Cardinality(Newer(s.num)) >= MaxVersions
        BY <1>5, <3>2, Survivors
      <4>2. Newer(s.num) # {}
        <5> SUFFICES ASSUME Newer(s.num) = {} PROVE FALSE
          OBVIOUS
        <5>1. Cardinality(Newer(s.num)) = 0
          BY FS_EmptySet, Zenon
        <5> QED
          BY <4>1, <5>1
      <4>3. PICK t \in Newer(s.num) : TRUE
        BY <4>2
      <4>4. t \in rows' /\ t.num > r.num
        BY <4>1, <4>3 DEF Newer, Rows
      <4>5. tries[d] \in Nat /\ r.num \in Nat /\ t.num \in Nat
        BY <4>3 DEF Newer, Rows
      <4> QED
        BY <2>1, <4>4, <4>5
    <3> QED
      BY <3>1, <3>2
  <2> QED
    BY <1>5, <2>1 DEF DeleteOld, AfterSnapshot, RaceBound, Rows
<1>6. ASSUME NEW c \in Calls,
             Publish(c) \/ ListOld(c) \/ ApplyUpdate(c) \/ ApplyRestore(c) \/ Fault(c)
      PROVE  RaceBound'
  BY <1>6 DEF Publish, ListOld, AfterSnapshot, ApplyUpdate, ApplyRestore, Fault,
              SnapshotError, Abandon, Throw, RaceBound, Rows
<1>7. ASSUME NEW v \in Values, EditSections(v) PROVE RaceBound'
  BY <1>7 DEF EditSections, RaceBound, Rows
<1>8. ASSUME UNCHANGED vars PROVE RaceBound'
  BY <1>8 DEF vars, RaceBound, Rows
<1> QED
  BY <1>1, <1>2, <1>3, <1>4, <1>5, <1>6, <1>7, <1>8 DEF Next, Step

\* As many tries as there are calls are always enough: with a finite number of
\* calls, no call of them all spends its retry budget.
THEOREM RetriesSuffice ==
  ASSUME IsFiniteSet(Calls)
  PROVE  Spec => []BudgetSuffices
<1>1. Init => IInv /\ RaceBound
  BY InitIInv, InitRace
<1>2. (IInv /\ RaceBound) /\ [Next]_vars => (IInv /\ RaceBound)'
  BY StepIInv, StepRace
<1>3. IInv /\ RaceBound => BudgetSuffices
  BY FS_CardinalityType, VersionsAssumption DEF IInv, TypeOK, RaceBound, BudgetSuffices
<1> QED
  BY <1>1, <1>2, <1>3, PTL DEF Spec

-----------------------------------------------------------------------------
(* The numbers. *)

\* Before the first cleanup that finds something, the number a call has read is no
\* larger than the number of rows.
NumbersInv ==
  /\ \A c \in Calls : pc[c] \in Before \cup {"publish", "list"} => doomed[c] = {}
  /\ \A c \in Calls : pc[c] = "delete" => doomed[c] # {}
  /\ (\A c \in Calls : doomed[c] = {}) =>
       /\ {r.num : r \in rows} = 1 .. Cardinality(rows)
       /\ \A c \in Calls : pc[c] = "insert" => last[c] <= Cardinality(rows)

\* Lost races leave no gap: who inserts has read the newest number, since the unique
\* key refuses everybody else.
THEOREM NumbersSequential == Spec => []Sequential
<1>1. Init => NumbersInv
  BY FS_EmptySet DEF Init, NumbersInv
<1>2. IInv /\ NumbersInv /\ [Next]_vars => NumbersInv'
  <2> SUFFICES ASSUME IInv, NumbersInv, [Next]_vars PROVE NumbersInv'
    OBVIOUS
  <2>0. /\ pc \in [Calls -> PCs] /\ last \in [Calls -> Nat] /\ doomed \in [Calls -> SUBSET Calls]
        /\ \A r \in rows : r.num \in Nat
        /\ IsFiniteSet(rows) /\ Cardinality(rows) \in Nat
    BY FS_CardinalityType DEF IInv, TypeOK, Rows
  <2>1. ASSUME NEW c \in Calls, ReadLast(c) PROVE NumbersInv'
    <3>1. (\A d \in Calls : doomed[d] = {}) => last'[c] <= Cardinality(rows)
      BY <2>0, <2>1 DEF ReadLast, NumbersInv
    <3> QED
      BY <2>0, <2>1, <3>1 DEF ReadLast, NumbersInv, Before
  <2>2. ASSUME NEW c \in Calls, Insert(c) PROVE NumbersInv'
    <3>1. \A d \in Calls : pc'[d] \in Before \cup {"publish", "list"} => doomed'[d] = {}
      BY <2>0, <2>2 DEF Insert, NumbersInv, Before
    <3>2. \A d \in Calls : pc'[d] = "delete" => doomed'[d] # {}
      BY <2>0, <2>2 DEF Insert, NumbersInv
    <3>3. ASSUME \A d \in Calls : doomed'[d] = {}
          PROVE  /\ {r.num : r \in rows'} = 1 .. Cardinality(rows')
                 /\ \A d \in Calls : pc'[d] = "insert" => last'[d] <= Cardinality(rows')
      <4> DEFINE n == Cardinality(rows)
      <4>1. /\ {r.num : r \in rows} = 1 .. n
            /\ \A d \in Calls : pc[d] = "insert" => last[d] <= n
        BY <2>2, <3>3 DEF Insert, NumbersInv
      <4>2. last[c] + 1 \notin 1 .. n
        BY <2>2, <4>1 DEF Insert, Taken
      <4>3. last[c] = n
        BY <2>0, <2>2, <4>1, <4>2 DEF Insert
      <4>4. Row(c).num = n + 1 /\ Row(c) \notin rows
        BY <4>2, <4>1, <4>3 DEF Row
      <4>5. rows' = rows \cup {Row(c)}
        BY <2>2 DEF Insert
      <4>6. Cardinality(rows') = n + 1
        BY <2>0, <4>4, <4>5, FS_AddElement
      <4>7. {r.num : r \in rows'} = (1 .. n) \cup {n + 1}
        BY <4>1, <4>4, <4>5
      <4>8. (1 .. n) \cup {n + 1} = 1 .. (n + 1)
        BY <2>0
      <4>9. \A d \in Calls : pc'[d] = "insert" => last'[d] <= n + 1
        BY <2>0, <2>2, <4>1 DEF Insert
      <4> QED
        BY <4>6, <4>7, <4>8, <4>9
    <3> QED
      BY <3>1, <3>2, <3>3 DEF NumbersInv
  <2>3. ASSUME NEW c \in Calls, ListOld(c) PROVE NumbersInv'
    BY <2>0, <2>3 DEF ListOld, NumbersInv, Before, AfterSnapshot
  <2>4. ASSUME NEW c \in Calls, DeleteOld(c) PROVE NumbersInv'
    BY <2>0, <2>4 DEF DeleteOld, NumbersInv, Before, AfterSnapshot
  <2>5. ASSUME NEW c \in Calls, \/ StartSnapshot(c) \/ StartRestore(c) \/ StartTailor(c)
                                \/ InsertConflict(c) \/ Publish(c)
        PROVE  NumbersInv'
    BY <2>0, <2>5
       DEF StartSnapshot, StartRestore, StartTailor, InsertConflict, Publish, Throw,
           NumbersInv, Before
  <2>6. ASSUME NEW c \in Calls, \/ ApplyUpdate(c) \/ ApplyRestore(c) \/ Fault(c)
        PROVE  NumbersInv'
    BY <2>0, <2>6
       DEF ApplyUpdate, ApplyRestore, Fault, SnapshotError, Abandon, Throw, NumbersInv, Before
  <2>7. CASE UNCHANGED <<rows, pc, last, doomed>>
    BY <2>7 DEF NumbersInv
  <2> QED
    BY <2>1, <2>2, <2>3, <2>4, <2>5, <2>6, <2>7 DEF Next, Step, EditSections, vars
<1>3. NumbersInv => Sequential
  BY DEF NumbersInv, Sequential
<1> QED
  BY <1>1, <1>2, <1>3, Invariance, PTL DEF Spec
-----------------------------------------------------------------------------
(* The cap. *)

\* The snapshots and restores that have listed what is beyond the cap.
Listed == {c \in Calls : Kind[c] \in {"snapshot", "restore"} /\ pc[c] \in {"delete", "apply", "done"}}

\* The rows of some calls that none of them has found beyond the cap.
Kept(A) == {r \in rows : r.by \in A /\ \A c \in A : r.by \notin doomed[c]}

\* Of some calls that have listed, the last to do so has seen the rows of them all; and
\* what a cleanup has found it deletes before it ends.
CapInv ==
  /\ \A r, s \in rows : r.num = s.num => r = s
  /\ \A A \in SUBSET Listed : Cardinality(Kept(A)) <= MaxVersions
  /\ \A c \in CleanedUp : \A r \in rows : r.by \notin doomed[c]

\* What is not beyond the cap is no more than the cap.
LEMMA TopIsCapped ==
  ASSUME IInv, CapInv
  PROVE  Cardinality(rows \ Tail) <= MaxVersions
<1> DEFINE K == rows \ Tail
<1>1. IsFiniteSet(K) /\ Cardinality(K) \in Nat
  BY FS_Subset, FS_CardinalityType DEF IInv
<1>2. CASE K = {}
  BY <1>2, FS_EmptySet, VersionsAssumption
<1>3. CASE K # {}
  <2>1. {r.num : r \in K} \subseteq Nat /\ {r.num : r \in K} # {}
    BY <1>3 DEF IInv, TypeOK, Rows
  <2>2. PICK m \in {r.num : r \in K} : \A k \in {r.num : r \in K} : m <= k
    BY <2>1, LeastOf
  <2>3. PICK s \in K : s.num = m
    BY <2>2
  <2>4. K \ {s} \subseteq Newer(s.num)
    <3> SUFFICES ASSUME NEW r \in K, r # s PROVE r.num > s.num
      BY DEF Newer
    <3>1. r.num # s.num
      BY DEF CapInv
    <3>2. s.num <= r.num /\ r.num \in Nat /\ s.num \in Nat
      BY <2>1, <2>2, <2>3
    <3> QED
      BY <3>1, <3>2
  <2>5. IsFiniteSet(Newer(s.num)) /\ Cardinality(Newer(s.num)) \in Nat
    BY <2>1, <2>3, NewerFinite
  <2>6. Cardinality(K \ {s}) <= Cardinality(Newer(s.num))
    BY <2>4, <2>5, FS_Subset
  <2>7. Cardinality(K \ {s}) = Cardinality(K) - 1
    BY <1>1, <2>3, FS_RemoveElement
  <2>8. Cardinality(Newer(s.num)) < MaxVersions
    BY <2>3, <2>5, VersionsAssumption DEF Tail
  <2> QED
    BY <1>1, <2>5, <2>6, <2>7, <2>8, VersionsAssumption
<1> QED
  BY <1>2, <1>3

\* Steps that take nobody's rows out of account: no rows are added, nothing is listed.
LEMMA QuietCap ==
  ASSUME IInv, CapInv, rows' \subseteq rows, doomed' = doomed, Listed' \subseteq Listed,
         \A c \in CleanedUp' : c \in CleanedUp \/ \A r \in rows' : r.by \notin doomed[c]
  PROVE  CapInv'
<1>1. ASSUME NEW A \in SUBSET Listed' PROVE Cardinality(Kept(A)') <= MaxVersions
  <2>1. Kept(A)' \subseteq Kept(A) /\ IsFiniteSet(Kept(A))
    BY FS_Subset DEF Kept, IInv
  <2>2. Cardinality(Kept(A)') <= Cardinality(Kept(A))
    BY <2>1, FS_Subset
  <2>3. Cardinality(Kept(A)) <= MaxVersions
    BY <1>1 DEF CapInv
  <2>4. Cardinality(Kept(A)) \in Nat /\ Cardinality(Kept(A)') \in Nat
    BY <2>1, FS_Subset, FS_CardinalityType
  <2> QED
    BY <2>2, <2>3, <2>4, VersionsAssumption
<1> QED
  BY <1>1 DEF CapInv

LEMMA InsertCap ==
  ASSUME IInv, CapInv, NEW c \in Calls, Insert(c)
  PROVE  CapInv'
<1>0. /\ pc \in [Calls -> PCs] /\ pc[c] = "insert" /\ doomed' = doomed
      /\ rows' = rows \cup {Row(c)} /\ Row(c).by = c /\ Row(c).num = last[c] + 1
      /\ \A d \in Calls \ {c} : pc'[d] = pc[d]
      /\ pc'[c] = IF Kind[c] = "tailor" THEN "done" ELSE "publish"
  BY DEF Insert, Row, IInv, TypeOK
<1>1. Listed' = Listed /\ CleanedUp' = CleanedUp /\ c \notin Listed
  BY <1>0 DEF Listed, CleanedUp
<1>2. \A r, s \in rows' : r.num = s.num => r = s
  BY <1>0 DEF Insert, Taken, CapInv
<1>3. ASSUME NEW A \in SUBSET Listed PROVE Kept(A)' = Kept(A)
  BY <1>0, <1>1 DEF Kept
<1>4. \A d \in Calls : c \notin doomed[d]
  BY <1>0 DEF IInv, OneRowEach, Before
<1>5. \A d \in CleanedUp' : \A r \in rows' : r.by \notin doomed'[d]
  BY <1>0, <1>1, <1>4 DEF CapInv, CleanedUp
<1> QED
  BY <1>1, <1>2, <1>3, <1>5 DEF CapInv

LEMMA ListCap ==
  ASSUME IInv, CapInv, NEW c \in Calls, ListOld(c)
  PROVE  CapInv'
<1>0. /\ pc \in [Calls -> PCs] /\ doomed \in [Calls -> SUBSET Calls]
      /\ pc[c] = "list" /\ rows' = rows
      /\ doomed' = [doomed EXCEPT ![c] = {r.by : r \in Tail}]
      /\ \A d \in Calls \ {c} : pc'[d] = pc[d] /\ doomed'[d] = doomed[d]
      /\ doomed'[c] = {r.by : r \in Tail}
      /\ pc'[c] # "delete" => doomed'[c] = {}
  BY DEF ListOld, IInv, TypeOK, Rows, Tail
<1>1. ASSUME NEW A \in SUBSET Listed' PROVE Cardinality(Kept(A)') <= MaxVersions
  <2>1. CASE c \in A
    <3>1. Kept(A)' \subseteq rows \ Tail /\ IsFiniteSet(rows \ Tail)
      BY <1>0, <2>1, FS_Subset DEF Kept, IInv
    <3>2. Cardinality(Kept(A)') <= Cardinality(rows \ Tail)
      BY <3>1, FS_Subset
    <3>3. Cardinality(Kept(A)') \in Nat /\ Cardinality(rows \ Tail) \in Nat
      BY <3>1, FS_Subset, FS_CardinalityType
    <3> QED
      BY <3>2, <3>3, TopIsCapped, VersionsAssumption
  <2>2. CASE c \notin A
    <3>1. A \in SUBSET Listed
      BY <1>0, <1>1, <2>2 DEF Listed
    <3>2. Kept(A)' = Kept(A)
      BY <1>0, <2>2, <3>1 DEF Kept, Listed
    <3> QED
      BY <3>1, <3>2 DEF CapInv
  <2> QED
    BY <2>1, <2>2
<1>2. ASSUME NEW d \in CleanedUp', NEW r \in rows' PROVE r.by \notin doomed'[d]
  <2>1. CASE d = c
    BY <1>0, <1>2, <2>1 DEF CleanedUp
  <2>2. CASE d # c
    BY <1>0, <1>2, <2>2 DEF CleanedUp, CapInv
  <2> QED
    BY <2>1, <2>2
<1> QED
  BY <1>0, <1>1, <1>2 DEF CapInv

\* However the cleanups of any number of snapshots and restores interleave, those that
\* have ended leave MaxVersions of their rows at most.
THEOREM HistoryCapped == Spec => []Capped
<1>1. Init => CapInv
  <2> SUFFICES ASSUME Init PROVE CapInv
    OBVIOUS
  <2>1. rows = {} /\ CleanedUp = {}
    BY DEF Init, CleanedUp
  <2>2. \A A : Kept(A) = {}
    BY <2>1 DEF Kept
  <2> QED
    BY <2>1, <2>2, FS_EmptySet, VersionsAssumption DEF CapInv
<1>2. IInv /\ CapInv /\ [Next]_vars => CapInv'
  <2> SUFFICES ASSUME IInv, CapInv, [Next]_vars PROVE CapInv'
    OBVIOUS
  <2>0. pc \in [Calls -> PCs] /\ Kind \in [Calls -> Kinds]
    BY VersionsAssumption DEF IInv, TypeOK
  <2>1. ASSUME NEW c \in Calls, Insert(c) PROVE CapInv'
    BY <2>1, InsertCap
  <2>2. ASSUME NEW c \in Calls, ListOld(c) PROVE CapInv'
    BY <2>2, ListCap
  <2>3. ASSUME NEW c \in Calls, DeleteOld(c) PROVE CapInv'
    <3>1. rows' \subseteq rows /\ doomed' = doomed /\ \A r \in rows' : r.by \notin doomed[c]
      BY <2>3 DEF DeleteOld
    <3>2. Listed' \subseteq Listed /\ CleanedUp' \subseteq CleanedUp \cup {c}
      BY <2>0, <2>3 DEF DeleteOld, Listed, CleanedUp
    <3> QED
      BY <3>1, <3>2, QuietCap
  <2>4. ASSUME NEW c \in Calls, \/ StartSnapshot(c) \/ StartRestore(c) \/ StartTailor(c)
                                \/ ReadLast(c) \/ InsertConflict(c) \/ Publish(c)
                                \/ ApplyUpdate(c) \/ ApplyRestore(c) \/ Fault(c)
        PROVE  CapInv'
    <3>1. rows' = rows /\ doomed' = doomed
      BY <2>4 DEF StartSnapshot, StartRestore, StartTailor, ReadLast, InsertConflict, Publish,
        ApplyUpdate, ApplyRestore, Fault, SnapshotError, Abandon
    <3>2. Listed' \subseteq Listed /\ CleanedUp' \subseteq CleanedUp
      BY <2>0, <2>4 DEF StartSnapshot, StartRestore, StartTailor, ReadLast, InsertConflict,
        Publish, ApplyUpdate, ApplyRestore, Fault, SnapshotError, Abandon, Throw,
        Listed, CleanedUp
    <3> QED
      BY <3>1, <3>2, QuietCap
  <2>5. CASE UNCHANGED <<rows, pc, doomed>>
    <3>1. Listed' = Listed /\ CleanedUp' = CleanedUp
      BY <2>5 DEF Listed, CleanedUp
    <3> QED
      BY <2>5, <3>1, QuietCap
  <2> QED
    BY <2>1, <2>2, <2>3, <2>4, <2>5 DEF Next, Step, EditSections, vars
<1>3. IInv /\ CapInv => Capped
  <2> SUFFICES ASSUME IInv, CapInv PROVE Capped
    OBVIOUS
  <2>1. CleanedUp \in SUBSET Listed
    BY DEF CleanedUp, Listed
  <2>2. {r \in rows : r.by \in CleanedUp} = Kept(CleanedUp)
    BY DEF Kept, CapInv
  <2> QED
    BY <2>1, <2>2 DEF CapInv, Capped
<1> QED
  BY <1>1, <1>2, <1>3, Invariance, PTL DEF Spec
=============================================================================

------------------------- MODULE QuotaGuard_proofs -------------------------
(***************************************************************************)
(* Proofs about QuotaGuard, for any cap, any set of rows and any number of *)
(* requests.  The invariant says who holds the parent's lock and that the  *)
(* count a transaction read is still an upper bound for the table: rows    *)
(* may leave while the lock is held, none may come.                        *)
(***************************************************************************)
EXTENDS QuotaGuard, FiniteSetTheorems, TLAPS

\* A transaction past its lock query, and only such a one, holds the lock.
LockDiscipline ==
  \A r \in Requests : pc[r] \in {"locked", "counted", "inserted"} <=> lock = r

\* The count is not exceeded while the transaction that read it is open.
CountIsBound ==
  \A r \in Requests : pc[r] \in {"counted", "inserted"} => Cardinality(rows) <= seen[r]

\* A row on its way is new and below the cap.
InsertedBelowCap ==
  \A r \in Requests : pc[r] = "inserted" => seen[r] < Max /\ ItemOf[r] \notin rows

IInv ==
  /\ TypeOK
  /\ IsFiniteSet(rows)
  /\ LockDiscipline
  /\ CountIsBound
  /\ InsertedBelowCap

\* The table grows and shrinks by one row at a time.
LEMMA AddRow ==
  ASSUME NEW S, IsFiniteSet(S), NEW i, i \notin S
  PROVE  /\ IsFiniteSet(S \cup {i})
         /\ Cardinality(S \cup {i}) = Cardinality(S) + 1
         /\ Cardinality(S) \in Nat
BY FS_AddElement, FS_CardinalityType

LEMMA DropRow ==
  ASSUME NEW S, IsFiniteSet(S), NEW i, i \in S
  PROVE  /\ IsFiniteSet(S \ {i})
         /\ Cardinality(S \ {i}) = Cardinality(S) - 1
         /\ Cardinality(S) \in Nat
BY FS_RemoveElement, FS_CardinalityType

LEMMA InitIInv == Init => IInv
BY QuotaAssumption, FS_EmptySet
   DEF Init, IInv, TypeOK, PCs, LockDiscipline, CountIsBound, InsertedBelowCap

LEMMA StepIInv == IInv /\ [Next]_vars => IInv'
<1> SUFFICES ASSUME IInv, [Next]_vars PROVE IInv'
  OBVIOUS
<1>a. Cardinality(rows) \in Nat
  BY FS_CardinalityType DEF IInv
<1> USE QuotaAssumption, <1>a
    DEF IInv, TypeOK, PCs, LockDiscipline, CountIsBound, InsertedBelowCap
<1>1. ASSUME NEW r \in Requests, Begin(r) PROVE IInv'
  BY <1>1 DEF Begin
<1>2. ASSUME NEW r \in Requests, LockParent(r) PROVE IInv'
  BY <1>2 DEF LockParent
<1>3. ASSUME NEW r \in Requests, Count(r) PROVE IInv'
  BY <1>3 DEF Count
<1>4. ASSUME NEW r \in Requests, Refuse(r) \/ InsertDuplicate(r) \/ Rollback(r) PROVE IInv'
  BY <1>4 DEF Refuse, InsertDuplicate, Rollback, EndTx
<1>5. ASSUME NEW r \in Requests, Insert(r) PROVE IInv'
  BY <1>5 DEF Insert
<1>6. ASSUME NEW r \in Requests, Commit(r) PROVE IInv'
  <2>1. IsFiniteSet(rows')
    BY <1>6, AddRow DEF Commit
  <2>2. \A q \in Requests : pc'[q] \notin {"locked", "counted", "inserted"}
    BY <1>6 DEF Commit, EndTx
  <2> QED
    BY <1>6, <2>1, <2>2 DEF Commit, EndTx
<1>7. ASSUME NEW i \in Items, Remove(i) PROVE IInv'
  <2>1. IsFiniteSet(rows') /\ Cardinality(rows') = Cardinality(rows) - 1
    BY <1>7, DropRow DEF Remove
  <2> QED
    BY <1>7, <2>1 DEF Remove
<1>8. ASSUME NEW i \in Importable, Import(i) PROVE IInv'
  <2>1. IsFiniteSet(rows')
    BY <1>8, AddRow DEF Import
  <2>2. \A q \in Requests : pc[q] \notin {"locked", "counted", "inserted"}
    BY <1>8 DEF Import
  <2> QED
    BY <1>8, <2>1, <2>2 DEF Import
<1>9. CASE UNCHANGED vars
  BY <1>9 DEF vars
<1> QED
  BY <1>1, <1>2, <1>3, <1>4, <1>5, <1>6, <1>7, <1>8, <1>9 DEF Next, Work

THEOREM Invariance == Spec => []IInv
BY InitIInv, StepIInv, PTL DEF Spec

\* The types of the guard's state.
THEOREM TypeCorrect == Spec => []TypeOK
<1>1. IInv => TypeOK
  BY DEF IInv
<1> QED
  BY Invariance, <1>1, PTL

\* The count a transaction read plus its own row is what the table then has at
\* most, and the count was below the cap.
LEMMA CommitWithinCap ==
  ASSUME IInv, NEW r \in Requests, pc[r] = "inserted", rows' = rows \cup {ItemOf[r]}
  PROVE  Cardinality(rows') <= Max /\ Cardinality(rows) < Max
BY AddRow, QuotaAssumption DEF IInv, TypeOK, CountIsBound, InsertedBelowCap

\* The rows that cannot have been imported are part of the table.
LEMMA OwnRows ==
  ASSUME NEW S, IsFiniteSet(S), NEW T
  PROVE  IsFiniteSet(S \ T) /\ Cardinality(S \ T) <= Cardinality(S)
                            /\ Cardinality(S \ T) \in Nat /\ Cardinality(S) \in Nat
<1>1. S \ T \subseteq S
  OBVIOUS
<1>2. IsFiniteSet(S \ T) /\ Cardinality(S \ T) <= Cardinality(S)
  BY <1>1, FS_Subset
<1> QED
  BY <1>2, FS_CardinalityType

\* There are never more rows of the guarded writers than the cap.
THEOREM CapHolds == Spec => []AtMostMax
<1>1. Init => AtMostMax
  <2>1. {} \ Importable = {}
    OBVIOUS
  <2> QED
    BY <2>1, FS_EmptySet, QuotaAssumption DEF Init, AtMostMax
<1>2. IInv /\ AtMostMax /\ [Next]_vars => AtMostMax'
  <2> SUFFICES ASSUME IInv, AtMostMax, [Next]_vars PROVE AtMostMax'
    OBVIOUS
  <2>1. CASE UNCHANGED rows
    BY <2>1 DEF AtMostMax
  <2>2. ASSUME NEW r \in Requests, Commit(r) PROVE AtMostMax'
    <3>1. Cardinality(rows') <= Max /\ IsFiniteSet(rows')
      BY <2>2, CommitWithinCap, AddRow DEF Commit, IInv, InsertedBelowCap
    <3> QED
      BY <3>1, OwnRows, QuotaAssumption DEF AtMostMax
  <2>3. ASSUME NEW i \in Items, Remove(i) PROVE AtMostMax'
    <3>1. rows' \ Importable = (rows \ Importable) \ {i}
      BY <2>3 DEF Remove
    <3>2. IsFiniteSet(rows \ Importable)
      BY OwnRows DEF IInv
    <3>3. Cardinality(rows' \ Importable) <= Cardinality(rows \ Importable)
      BY <3>1, <3>2, OwnRows
    <3>4. Cardinality(rows' \ Importable) \in Nat /\ Cardinality(rows \ Importable) \in Nat
      BY <3>1, <3>2, FS_CardinalityType, DropRow, OwnRows
    <3> QED
      BY <3>3, <3>4, QuotaAssumption DEF AtMostMax
  <2>4. ASSUME NEW i \in Importable, Import(i) PROVE AtMostMax'
    <3>1. rows' \ Importable = rows \ Importable
      BY <2>4 DEF Import
    <3> QED
      BY <3>1 DEF AtMostMax
  <2> QED
    BY <2>1, <2>2, <2>3, <2>4
       DEF Next, Work, vars, Begin, LockParent, Count, Refuse, Insert, InsertDuplicate, Rollback
<1> QED
  BY <1>1, <1>2, Invariance, PTL DEF Spec

\* Imports or not, a guarded request never adds the row that exceeds the cap.
THEOREM GuardedWithinCap == Spec => GuardedStaysWithinCap
<1> DEFINE Within == \A r \in Requests :
             pc[r] = "inserted" /\ ItemOf[r] \in rows' \ rows => Cardinality(rows') <= Max
<1>1. IInv /\ [Next]_vars => [Within]_vars
  <2> SUFFICES ASSUME IInv, Next, NEW r \in Requests, pc[r] = "inserted",
                      ItemOf[r] \in rows' \ rows
               PROVE  Cardinality(rows') <= Max
    OBVIOUS
  <2>1. \A q \in Requests : pc[q] = "inserted" => q = r
    BY DEF IInv, LockDiscipline
  <2>2. lock = r /\ r # NoRequest
    BY QuotaAssumption DEF IInv, LockDiscipline
  <2>3. Commit(r)
    BY <2>1, <2>2
       DEF Next, Work, Begin, LockParent, Count, Refuse, Insert, InsertDuplicate, Rollback,
           Commit, Remove, Import
  <2> QED
    BY <2>3, CommitWithinCap DEF Commit
<1> QED
  BY <1>1, Invariance, PTL DEF Spec, GuardedStaysWithinCap

\* The guarded transaction implements the atomic quota: its commit is the step
\* that checks and inserts, everything before it is a stutter.
THEOREM Refinement == Spec => ImplementsQuota
<1>1. Init => Q!Init
  BY DEF Init, Q!Init
<1>2. IInv /\ [Next]_vars => [Q!Next]_rows
  <2> SUFFICES ASSUME IInv, Next, rows' # rows PROVE Q!Next
    BY DEF vars
  <2>1. ASSUME NEW r \in Requests, Commit(r) PROVE Q!Next
    <3>1. Cardinality(rows) = Q!Cardinality(rows)
      BY Zenon DEF Cardinality, Q!Cardinality, IsFiniteSet, Q!IsFiniteSet
    <3>2. ItemOf[r] \in Items /\ Q!Create(ItemOf[r])
      BY <2>1, <3>1, CommitWithinCap, QuotaAssumption
         DEF Commit, Q!Create, IInv, InsertedBelowCap
    <3> QED
      BY <3>2 DEF Q!Next
  <2>2. ASSUME NEW i \in Items, Remove(i) PROVE Q!Next
    BY <2>2 DEF Remove, Q!Next, Q!Remove
  <2>3. ASSUME NEW i \in Importable, Import(i) PROVE Q!Next
    BY <2>3 DEF Import, Q!Next, Q!Import
  <2> QED
    BY <2>1, <2>2, <2>3
       DEF Next, Work, Begin, LockParent, Count, Refuse, Insert, InsertDuplicate, Rollback
<1> QED
  BY <1>1, <1>2, Invariance, PTL DEF Spec, ImplementsQuota, Q!Spec
=============================================================================

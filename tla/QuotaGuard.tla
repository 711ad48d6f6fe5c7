---------------------------- MODULE QuotaGuard ----------------------------
(***************************************************************************)
(* enforceQuotaInTx and the transactions that use it: the resumes of a     *)
(* user (create, duplicate) and the collaborators of a resume (invite).    *)
(* One parent row, its child rows, and the requests that add one each.     *)
(*                                                                         *)
(* The database is Postgres at READ COMMITTED, external here: FOR UPDATE   *)
(* on the parent is held to the end of the transaction, an uncommitted row *)
(* is not counted by anybody else, and an insert of a child row takes a    *)
(* key-share lock on the parent through its foreign key, which waits for   *)
(* FOR UPDATE.  The imports are the writers that create a child row        *)
(* without the guard (resume import, PDF import, onboarding, shadow        *)
(* profile).                                                               *)
(***************************************************************************)
EXTENDS Naturals, FiniteSets

CONSTANTS
  Requests,   \* calls of the guarded operations
  Items,      \* child rows, by their unique key
  ItemOf,     \* the row each request would add
  Importable, \* the rows the unguarded writers may add
  Max,        \* quota.max
  NoRequest   \* nobody holds the lock

ASSUME QuotaAssumption ==
  /\ ItemOf \in [Requests -> Items]
  /\ Importable \subseteq Items
  /\ Max \in Nat
  /\ NoRequest \notin Requests

VARIABLES
  rows,   \* the committed child rows
  lock,   \* the request whose transaction holds FOR UPDATE on the parent
  pc,     \* where each request is
  seen    \* the count a request's transaction read

vars == <<rows, lock, pc, seen>>

PCs == {"idle", "begun", "locked", "counted", "inserted"}

TypeOK ==
  /\ rows \subseteq Items
  /\ lock \in Requests \cup {NoRequest}
  /\ pc \in [Requests -> PCs]
  /\ seen \in [Requests -> Nat]

Init ==
  /\ rows = {}
  /\ lock = NoRequest
  /\ pc = [r \in Requests |-> "idle"]
  /\ seen = [r \in Requests |-> 0]

-----------------------------------------------------------------------------
\* Slip: the lock is the session's, not the transaction's.
EndTx_LockKept(r) ==
  /\ lock' = lock
  /\ pc' = [pc EXCEPT ![r] = "idle"]
  /\ seen' = [seen EXCEPT ![r] = 0]

\* The transaction ends and gives up its lock.
EndTx(r) ==
  /\ lock' = IF lock = r THEN NoRequest ELSE lock
  /\ pc' = [pc EXCEPT ![r] = "idle"]
  /\ seen' = [seen EXCEPT ![r] = 0]

\* The invite reads first whether the collaborator is there already; creating
\* or duplicating a resume makes a row with a new key, for which it never is.
Begin(r) ==
  /\ pc[r] = "idle"
  /\ ItemOf[r] \notin rows
  /\ pc' = [pc EXCEPT ![r] = "begun"]
  /\ UNCHANGED <<rows, lock, seen>>

\* Slip: no lockSql, the fallback that enforceQuotaInTx warns of.
LockParent_None(r) ==
  /\ pc[r] = "begun"
  /\ lock' = lock
  /\ pc' = [pc EXCEPT ![r] = "locked"]
  /\ UNCHANGED <<rows, seen>>

\* lockSql: SELECT 1 FROM parent ... FOR UPDATE.
LockParent(r) ==
  /\ pc[r] = "begun"
  /\ lock = NoRequest
  /\ lock' = r
  /\ pc' = [pc EXCEPT ![r] = "locked"]
  /\ UNCHANGED <<rows, seen>>

\* countSql; the row count decides in the next step of the same transaction.
Count(r) ==
  /\ pc[r] = "locked"
  /\ seen' = [seen EXCEPT ![r] = Cardinality(rows)]
  /\ pc' = [pc EXCEPT ![r] = "counted"]
  /\ UNCHANGED <<rows, lock>>

\* count >= max: the exception rolls the transaction back.
Refuse(r) ==
  /\ pc[r] = "counted"
  /\ seen[r] >= Max
  /\ EndTx(r)
  /\ UNCHANGED rows

\* Slip: the cap itself is let through.
Insert_OffByOne(r) ==
  /\ pc[r] = "counted"
  /\ seen[r] <= Max
  /\ ItemOf[r] \notin rows
  /\ pc' = [pc EXCEPT ![r] = "inserted"]
  /\ UNCHANGED <<rows, lock, seen>>

\* The insert, not yet committed.
Insert(r) ==
  /\ pc[r] = "counted"
  /\ seen[r] < Max
  /\ ItemOf[r] \notin rows
  /\ pc' = [pc EXCEPT ![r] = "inserted"]
  /\ UNCHANGED <<rows, lock, seen>>

\* The unique key exists: the insert throws and the transaction is rolled back.
InsertDuplicate(r) ==
  /\ pc[r] = "counted"
  /\ seen[r] < Max
  /\ ItemOf[r] \in rows
  /\ EndTx(r)
  /\ UNCHANGED rows

Commit(r) ==
  /\ pc[r] = "inserted"
  /\ rows' = rows \cup {ItemOf[r]}
  /\ EndTx(r)

\* The transaction fails or times out, the process dies: rolled back.
Rollback(r) ==
  /\ pc[r] # "idle"
  /\ EndTx(r)
  /\ UNCHANGED rows

\* A row is deleted; that needs no lock on the parent.
Remove(i) ==
  /\ i \in rows
  /\ rows' = rows \ {i}
  /\ UNCHANGED <<lock, pc, seen>>

\* Slip: the table has no foreign key, so nothing makes the import wait.
Import_NoForeignKey(i) ==
  /\ i \notin rows
  /\ rows' = rows \cup {i}
  /\ UNCHANGED <<lock, pc, seen>>

\* An unguarded insert.  Its foreign key makes it wait for FOR UPDATE.
Import(i) ==
  /\ i \notin rows
  /\ lock = NoRequest
  /\ rows' = rows \cup {i}
  /\ UNCHANGED <<lock, pc, seen>>

Work(r) ==
  \/ Count(r)
  \/ Refuse(r) \/ Insert(r) \/ InsertDuplicate(r)
  \/ Commit(r)

Next ==
  \/ \E r \in Requests : Begin(r) \/ LockParent(r) \/ Work(r) \/ Rollback(r)
  \/ \E i \in Items : Remove(i)
  \/ \E i \in Importable : Import(i)

Spec == Init /\ [][Next]_vars

\* A transaction goes on once it has its lock, and Postgres hands a row lock to
\* its waiters in order, so that none is passed over for ever.
FairSpec ==
  Spec /\ \A r \in Requests : WF_vars(Work(r)) /\ SF_vars(LockParent(r))

-----------------------------------------------------------------------------
\* The rows that nobody could have imported never exceed the cap, however many
\* requests run at once: the TOCTOU race the guard is there to close.
AtMostMax == Cardinality(rows \ Importable) <= Max

\* Whatever the imports did, a guarded request never takes the table past the
\* cap: no import slips in between its count and its commit.
GuardedStaysWithinCap ==
  [][\A r \in Requests :
       pc[r] = "inserted" /\ ItemOf[r] \in rows' \ rows => Cardinality(rows') <= Max]_vars

\* To its callers the guarded transaction is one atomic check-and-insert.
Q == INSTANCE Quota

ImplementsQuota == Q!Spec

\* Every request gets its answer: nobody waits for the parent's lock for ever.
RequestsEnd == \A r \in Requests : pc[r] = "begun" ~> pc[r] = "idle"
=============================================================================

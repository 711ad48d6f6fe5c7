--------------------------- MODULE MecSync_proofs ---------------------------
(***************************************************************************)
(* Theorems about MecSync, for any syncs, readers, files, batches, leases  *)
(* and faults: type correctness, and the five invariants that the run      *)
(* checks on a small instance.                                             *)
(*                                                                         *)
(* Three of them concern the rows a sync writes, and are proved together:  *)
(* each sync has a log row of its own, what it has still to insert is in   *)
(* its todo, and a step of one sync leaves the row of another alone.  The  *)
(* two about the lock need an invariant of their own, the one about the    *)
(* cached list is inductive as it stands.                                  *)
(***************************************************************************)
EXTENDS MecSync, TLAPS, SequenceTheorems, FiniteSetTheorems

LogRows == [status : Statuses, file : Files, abandoned : BOOLEAN]

\* The places at which a sync still has its row to close.
Open == {"parse", "listInsts", "insts", "listCourses", "courses", "invalidate",
         "mark", "markFailed"}

\* A sync has a row from its creation to its return, and what of its file is not in
\* the tables yet is still in its todo, or was left out for want of its institution.
SyncInv(s) ==
  /\ row[s] = 0 <=> pc[s] \in {"idle", "create"}
  /\ pc[s] = "insts" =>
       todo[s] \subseteq Institutions /\ csv[s].insts \subseteq insts \cup todo[s]
  /\ pc[s] \in {"listCourses", "courses"} => csv[s].insts \subseteq insts
  /\ pc[s] = "courses" =>
       /\ todo[s] \subseteq Courses
       /\ csv[s].courses \ csv[s].dropped \subseteq courses \cup todo[s]
       /\ \A c \in csv[s].dropped : InstOf[c] \notin csv[s].insts
  /\ pc[s] \in {"invalidate", "mark"} => Stored(csv[s])

RowsDiffer == \A s, t \in Syncs : row[s] # 0 /\ row[s] = row[t] => s = t

\* What SuccessMeansStored and RunningRowHasSync say of one row.
Told(i) ==
  log[i].status = "SUCCESS" => Stored(log[i].file)

Tracked(i) ==
  log[i].status = "RUNNING" /\ ~log[i].abandoned =>
    \E s \in Syncs : pc[s] \in Open /\ row[s] = i

RowInv ==
  /\ \A s \in Syncs : SyncInv(s)
  /\ RowsDiffer
  /\ \A i \in 1 .. Len(log) : Told(i) /\ Tracked(i)

IInv == TypeOK /\ RowInv

-----------------------------------------------------------------------------
(* The log. *)

LEMMA EmptyFile == NoFile \in Files
BY DEF NoFile, Files

LEMMA EditRow ==
  ASSUME TypeOK, NEW s \in Syncs, row[s] # 0, NEW e \in LogRows
  PROVE  LET new == [log EXCEPT ![row[s]] = e] IN
           /\ new \in Seq(LogRows)
           /\ Len(new) = Len(log)
           /\ \A i \in 1 .. Len(log) : new[i] = IF i = row[s] THEN e ELSE log[i]
<1>1. log \in Seq(LogRows) /\ row[s] \in 1 .. Len(log)
  BY DEF TypeOK, LogRows
<1> QED
  BY <1>1, ExceptSeq

LEMMA AbandonRow ==
  ASSUME TypeOK, NEW s \in Syncs, Abandon(s)
  PROVE  /\ log' \in Seq(LogRows)
         /\ Len(log') = Len(log)
         /\ \A i \in 1 .. Len(log) : i # row[s] => log'[i] = log[i]
         /\ \A i \in 1 .. Len(log) : i = row[s] =>
              log'[i].abandoned /\ log'[i].status = log[i].status /\ log'[i].file = log[i].file
<1>1. log \in Seq(LogRows) /\ DOMAIN log = 1 .. Len(log) /\ Len(log) \in Nat
  BY DEF TypeOK, LogRows
<1>2. \A i \in 1 .. Len(log) : log[i] \in LogRows
  BY <1>1
<1>3. \A i \in 1 .. Len(log) : [log[i] EXCEPT !.abandoned = TRUE] \in LogRows
  BY <1>2 DEF LogRows
<1>4. log' = [i \in 1 .. Len(log) |->
                IF i = row[s] THEN [log[i] EXCEPT !.abandoned = TRUE] ELSE log[i]]
  BY <1>1 DEF Abandon
<1>5. log' \in [1 .. Len(log) -> LogRows]
  BY <1>2, <1>3, <1>4
<1>6. log' \in Seq(LogRows) /\ Len(log') = Len(log)
  BY <1>1, <1>5
<1>7. \A i \in 1 .. Len(log) : i = row[s] =>
        log'[i].abandoned /\ log'[i].status = log[i].status /\ log'[i].file = log[i].file
  BY <1>2, <1>4 DEF LogRows
<1> QED
  BY <1>4, <1>6, <1>7

-----------------------------------------------------------------------------
(* One step of one sync. *)

\* It leaves the other syncs and their rows alone, and takes nothing away.
Local(s) ==
  /\ log' \in Seq(LogRows)
  /\ Len(log') \in {Len(log), Len(log) + 1}
  /\ \A i \in 1 .. Len(log) : i # row[s] => log'[i] = log[i]
  /\ row' \in [Syncs -> 0 .. Len(log')]
  /\ row'[s] \in {0, row[s]} \/ (row'[s] = Len(log) + 1 /\ Len(log') = Len(log) + 1)
  /\ \A t \in Syncs \ {s} :
       pc'[t] = pc[t] /\ row'[t] = row[t] /\ csv'[t] = csv[t] /\ todo'[t] = todo[t]
  /\ insts \subseteq insts' /\ courses \subseteq courses'

\* What it does to its own row keeps the invariant.
Own(s) ==
  /\ SyncInv(s)'
  /\ \A i \in 1 .. Len(log') : i = row[s] \/ i \notin 1 .. Len(log) =>
       Told(i)' /\ Tracked(i)'

LEMMA OneStep ==
  ASSUME IInv, NEW s \in Syncs, Local(s), Own(s)
  PROVE  RowInv'
<1> USE DEF IInv, RowInv
<1>0. /\ row \in [Syncs -> 0 .. Len(log)] /\ Len(log) \in Nat
      /\ csv \in [Syncs -> Files]
  BY DEF TypeOK
<1>1. \A t \in Syncs : SyncInv(t)'
  <2>1. SUFFICES ASSUME NEW t \in Syncs \ {s} PROVE SyncInv(t)'
    BY DEF Own
  <2>2. /\ pc'[t] = pc[t] /\ row'[t] = row[t] /\ csv'[t] = csv[t] /\ todo'[t] = todo[t]
        /\ insts \subseteq insts' /\ courses \subseteq courses'
    BY DEF Local
  <2>3. SyncInv(t)
    OBVIOUS
  <2> QED
    BY <2>2, <2>3 DEF SyncInv, Stored
<1>2. RowsDiffer'
  <2> SUFFICES ASSUME NEW t \in Syncs, NEW u \in Syncs, row'[t] # 0, row'[t] = row'[u]
               PROVE  t = u
    BY DEF RowsDiffer
  <2>1. row[t] <= Len(log) /\ row[u] <= Len(log)
    BY <1>0
  <2> QED
    BY <1>0, <2>1 DEF Local, RowsDiffer
<1>3. \A i \in 1 .. Len(log') : Told(i)' /\ Tracked(i)'
  <2>1. SUFFICES ASSUME NEW i \in 1 .. Len(log'), i # row[s], i \in 1 .. Len(log)
                 PROVE  Told(i)' /\ Tracked(i)'
    BY DEF Own
  <2>2. log'[i] = log[i] /\ Told(i) /\ Tracked(i)
    BY <2>1 DEF Local
  <2>3. Told(i)'
    BY <2>2 DEF Told, Local, Stored
  <2>4. Tracked(i)'
    <3>1. SUFFICES ASSUME log[i].status = "RUNNING", ~log[i].abandoned
                   PROVE  \E t \in Syncs : pc'[t] \in Open /\ row'[t] = i
      BY <2>2 DEF Tracked
    <3>2. PICK t \in Syncs : pc[t] \in Open /\ row[t] = i
      BY <2>2, <3>1 DEF Tracked
    <3>3. t # s
      BY <2>1, <3>2
    <3> QED
      BY <3>2, <3>3 DEF Local
  <2> QED
    BY <2>3, <2>4
<1> QED
  BY <1>1, <1>2, <1>3

\* A step that does not write to the log.
LEMMA QuietStep ==
  ASSUME IInv, NEW s \in Syncs, log' = log,
         insts \subseteq insts', courses \subseteq courses',
         row' = row \/ row' = [row EXCEPT ![s] = 0],
         \A t \in Syncs \ {s} : pc'[t] = pc[t] /\ csv'[t] = csv[t] /\ todo'[t] = todo[t],
         pc[s] \in Open => row' = row /\ pc'[s] \in Open,
         SyncInv(s)'
  PROVE  Local(s) /\ Own(s)
<1>0. /\ row \in [Syncs -> 0 .. Len(log)] /\ Len(log) \in Nat /\ log \in Seq(LogRows)
      /\ RowInv
  BY DEF IInv, TypeOK, LogRows
<1>1. Local(s)
  BY <1>0 DEF Local
<1>2. ASSUME NEW i \in 1 .. Len(log), i = row[s] PROVE Told(i)' /\ Tracked(i)'
  <2>1. Told(i) /\ Tracked(i)
    BY <1>0 DEF RowInv
  <2>2. Told(i)'
    BY <2>1 DEF Told, Stored
  <2>3. Tracked(i)'
    BY <1>0, <1>2, <2>1 DEF Tracked, RowInv, RowsDiffer
  <2> QED
    BY <2>2, <2>3
<1> QED
  BY <1>1, <1>2 DEF Own

\* A step that leads to the return, from a row that is no longer open.
LEMMA ReturnStep ==
  ASSUME IInv, NEW s \in Syncs, pc[s] \notin Open, log' = log, Return(s),
         insts' = insts, courses' = courses
  PROVE  Local(s) /\ Own(s)
<1>1. SyncInv(s)'
  BY DEF IInv, TypeOK, Return, Goto, SyncInv
<1> QED
  BY <1>1, QuietStep DEF IInv, TypeOK, Return, Goto

\* A step that changes the sync's row in the log.
LEMMA WriteStep ==
  ASSUME IInv, NEW s \in Syncs, row[s] # 0, NEW e \in LogRows,
         log' = [log EXCEPT ![row[s]] = e],
         insts' = insts, courses' = courses, row' = row,
         \A t \in Syncs \ {s} : pc'[t] = pc[t] /\ csv'[t] = csv[t] /\ todo'[t] = todo[t],
         e.status = "SUCCESS" => Stored(e.file),
         e.status = "RUNNING" => pc'[s] \in Open,
         log'[row[s]] = e => SyncInv(s)'
  PROVE  Local(s) /\ Own(s)
<1>0. row \in [Syncs -> 0 .. Len(log)] /\ Len(log) \in Nat
  BY DEF IInv, TypeOK
<1>1. /\ log' \in Seq(LogRows)
      /\ Len(log') = Len(log)
      /\ \A i \in 1 .. Len(log) : log'[i] = IF i = row[s] THEN e ELSE log[i]
  BY EditRow DEF IInv
<1>2. Local(s)
  BY <1>0, <1>1 DEF Local
<1>3. log'[row[s]] = e
  BY <1>0, <1>1
<1>4. ASSUME NEW i \in 1 .. Len(log'), i = row[s] PROVE Told(i)' /\ Tracked(i)'
  BY <1>3, <1>4 DEF Told, Tracked, Stored
<1> QED
  BY <1>1, <1>2, <1>3, <1>4 DEF Own

\* A step after which nobody will close the sync's row.
LEMMA AbandonStep ==
  ASSUME IInv, NEW s \in Syncs, Abandon(s), insts' = insts, courses' = courses,
         row' = row \/ row' = [row EXCEPT ![s] = 0],
         \A t \in Syncs \ {s} : pc'[t] = pc[t] /\ csv'[t] = csv[t] /\ todo'[t] = todo[t],
         SyncInv(s)'
  PROVE  Local(s) /\ Own(s)
<1>0. row \in [Syncs -> 0 .. Len(log)] /\ Len(log) \in Nat /\ TypeOK /\ RowInv
  BY DEF IInv, TypeOK
<1>1. /\ log' \in Seq(LogRows)
      /\ Len(log') = Len(log)
      /\ \A i \in 1 .. Len(log) : i # row[s] => log'[i] = log[i]
      /\ \A i \in 1 .. Len(log) : i = row[s] =>
           log'[i].abandoned /\ log'[i].status = log[i].status /\ log'[i].file = log[i].file
  BY <1>0, AbandonRow
<1>2. Local(s)
  BY <1>0, <1>1 DEF Local
<1>3. ASSUME NEW i \in 1 .. Len(log'), i = row[s] PROVE Told(i)' /\ Tracked(i)'
  BY <1>0, <1>1, <1>3 DEF Told, Tracked, Stored, RowInv
<1> QED
  BY <1>1, <1>2, <1>3 DEF Own

LEMMA SyncStepEffect ==
  ASSUME IInv, NEW s \in Syncs, SyncStep(s)
  PROVE  Local(s) /\ Own(s)
<1>0. /\ row \in [Syncs -> 0 .. Len(log)] /\ Len(log) \in Nat /\ log \in Seq(LogRows)
      /\ pc \in [Syncs -> PCs]
      /\ csv \in [Syncs -> Files]
      /\ todo \in [Syncs -> SUBSET (Institutions \cup Courses)]
      /\ SyncInv(s) /\ RowInv
  BY DEF IInv, RowInv, TypeOK, LogRows
<1> DEFINE L == log[row[s]]
<1>a. row[s] # 0 => L \in LogRows
  BY <1>0
<1>1. CASE Acquire(s)
  <2>1. SyncInv(s)'
    BY <1>0, <1>1 DEF Acquire, Goto, SyncInv
  <2> QED
    BY <1>0, <1>1, <2>1, QuietStep DEF Acquire, Goto, Open, dataVars
<1>2. CASE CreateLog(s)
  <2> DEFINE new == [status |-> "RUNNING", file |-> NoFile, abandoned |-> FALSE]
  <2>1. new \in LogRows
    BY EmptyFile DEF LogRows, Statuses
  <2>2. /\ log' \in Seq(LogRows) /\ Len(log') = Len(log) + 1
        /\ \A i \in 1 .. Len(log) : log'[i] = log[i]
        /\ log'[Len(log) + 1] = new
    BY <1>0, <1>2, <2>1, AppendProperties DEF CreateLog
  <2>3. row' = [row EXCEPT ![s] = Len(log) + 1] /\ pc' = [pc EXCEPT ![s] = "parse"]
    BY <1>2, <2>2 DEF CreateLog, Goto
  <2>4. Local(s)
    BY <1>0, <1>2, <2>2, <2>3 DEF Local, CreateLog
  <2>5. SyncInv(s)'
    BY <1>0, <2>2, <2>3 DEF SyncInv
  <2>6. row[s] = 0
    BY <1>0, <1>2 DEF CreateLog, SyncInv
  <2>7. ASSUME NEW i \in 1 .. Len(log'), i \notin 1 .. Len(log)
        PROVE  Told(i)' /\ Tracked(i)'
    <3>1. i = Len(log) + 1
      BY <1>0, <2>2, <2>7
    <3> QED
      BY <1>0, <2>2, <2>3, <3>1 DEF Told, Tracked, Open
  <2> QED
    BY <1>0, <2>4, <2>5, <2>6, <2>7 DEF Own
<1>3. CASE CreateLogError(s)
  BY <1>3, ReturnStep DEF CreateLogError, Open, dataVars
<1>4. CASE Parse(s)
  <2>1. SyncInv(s)'
    BY <1>0, <1>4 DEF Parse, Goto, SyncInv, dataVars
  <2> QED
    BY <1>0, <1>4, <2>1, QuietStep DEF Parse, Goto, Open, dataVars
<1>5. CASE ListInstitutions(s)
  <2>1. csv[s].insts \subseteq Institutions
    BY <1>0 DEF Files
  <2>2. SyncInv(s)'
    BY <1>0, <1>5, <2>1 DEF ListInstitutions, Goto, SyncInv, dataVars
  <2> QED
    BY <1>0, <1>5, <2>2, QuietStep DEF ListInstitutions, Goto, Open, dataVars
<1>6. CASE InsertInstitutionBatch(s)
  <2>1. PICK batch \in SUBSET todo[s] :
          insts' = insts \cup batch /\ todo' = [todo EXCEPT ![s] = @ \ batch]
    BY <1>6 DEF InsertInstitutionBatch
  <2>2. SyncInv(s)'
    BY <1>0, <1>6, <2>1 DEF InsertInstitutionBatch, SyncInv, Stored
  <2> QED
    BY <1>0, <1>6, <2>1, <2>2, QuietStep DEF InsertInstitutionBatch, Open
<1>7. CASE InstitutionsDone(s)
  <2>1. SyncInv(s)'
    BY <1>0, <1>7 DEF InstitutionsDone, Goto, SyncInv, dataVars, Stored
  <2> QED
    BY <1>0, <1>7, <2>1, QuietStep DEF InstitutionsDone, Goto, Open, dataVars
<1>8. CASE ListCourses(s)
  <2> DEFINE new == csv[s].courses \ courses
             valid == {c \in new : InstOf[c] \in insts}
             file == [csv[s] EXCEPT !.dropped = new \ valid]
  <2>1. /\ todo' = [todo EXCEPT ![s] = valid] /\ csv' = [csv EXCEPT ![s] = file]
        /\ pc' = [pc EXCEPT ![s] = "courses"]
        /\ UNCHANGED <<row, log, insts, courses>>
    BY <1>8 DEF ListCourses, Goto, dataVars
  <2>2. csv[s] \in Files /\ csv[s].insts \subseteq insts
    BY <1>0, <1>8 DEF ListCourses, SyncInv
  <2>3. /\ file.insts = csv[s].insts /\ file.courses = csv[s].courses
        /\ file.dropped = new \ valid
    BY <2>2 DEF Files
  <2>4. /\ csv[s].courses \subseteq Courses
        /\ file.courses \ file.dropped \subseteq courses \cup valid
        /\ \A c \in file.dropped : InstOf[c] \notin file.insts
    BY <2>2, <2>3 DEF Files
  <2>5. SyncInv(s)'
    <3> HIDE DEF file
    <3>1. pc'[s] = "courses" /\ csv'[s] = file /\ todo'[s] = valid /\ row'[s] # 0
      BY <1>0, <1>8, <2>1 DEF ListCourses, SyncInv
    <3> QED
      BY <2>1, <2>2, <2>3, <2>4, <3>1 DEF SyncInv
  <2> QED
    BY <1>0, <1>8, <2>1, <2>5, QuietStep DEF ListCourses, Open
<1>9. CASE InsertCourseBatch(s)
  <2>1. PICK batch \in SUBSET todo[s] :
          courses' = courses \cup batch /\ todo' = [todo EXCEPT ![s] = @ \ batch]
    BY <1>9 DEF InsertCourseBatch
  <2>2. SyncInv(s)'
    BY <1>0, <1>9, <2>1 DEF InsertCourseBatch, SyncInv, Stored
  <2> QED
    BY <1>0, <1>9, <2>1, <2>2, QuietStep DEF InsertCourseBatch, Open
<1>10. CASE CoursesDone(s)
  <2>1. SyncInv(s)'
    BY <1>0, <1>10 DEF CoursesDone, Goto, SyncInv, dataVars, Stored
  <2> QED
    BY <1>0, <1>10, <2>1, QuietStep DEF CoursesDone, Goto, Open, dataVars
<1>11. CASE InvalidateCaches(s)
  <2>1. SyncInv(s)'
    BY <1>0, <1>11 DEF InvalidateCaches, Goto, SyncInv, dataVars, Stored
  <2> QED
    BY <1>0, <1>11, <2>1, QuietStep DEF InvalidateCaches, Goto, Open, dataVars
<1>12. CASE MarkSuccess(s)
  <2> DEFINE e == [L EXCEPT !.status = "SUCCESS", !.file = csv[s]]
  <2>1. row[s] # 0 /\ Stored(csv[s]) /\ csv[s] \in Files
    BY <1>0, <1>12 DEF MarkSuccess, SyncInv
  <2>2. e \in LogRows /\ e.status = "SUCCESS" /\ e.file = csv[s]
    BY <1>a, <2>1 DEF LogRows, Statuses
  <2>3. log' = [log EXCEPT ![row[s]] = e] /\ pc' = [pc EXCEPT ![s] = "meta"] /\ row' = row
    BY <1>12 DEF MarkSuccess, Goto
  <2>4. SyncInv(s)'
    BY <1>0, <2>1, <2>3 DEF SyncInv
  <2> HIDE DEF e
  <2> QED
    BY <1>0, <1>12, <2>1, <2>2, <2>3, <2>4, WriteStep DEF MarkSuccess
<1>13. CASE WriteMetadata(s)
  <2>1. SyncInv(s)'
    BY <1>0, <1>13 DEF WriteMetadata, Goto, SyncInv
  <2> QED
    BY <1>0, <1>13, <2>1, QuietStep DEF WriteMetadata, Goto, Open, dataVars
<1>14. CASE SyncError(s)
  <2>1. pc[s] \notin {"idle", "create", "markFailed", "failedMeta", "release"}
    BY <1>0, <1>14, MecAssumption DEF SyncError, Needs, FaultKinds, PCs
  <2>2. SyncInv(s)'
    BY <1>0, <1>14, <2>1 DEF SyncError, Goto, SyncInv
  <2> QED
    BY <1>0, <1>14, <2>2, QuietStep DEF SyncError, Goto, Open, dataVars
<1>15. CASE MarkFailed(s)
  <2> DEFINE e == [L EXCEPT !.status = "FAILED"]
  <2>1. row[s] # 0
    BY <1>0, <1>15 DEF MarkFailed, SyncInv
  <2>2. e \in LogRows /\ e.status = "FAILED"
    BY <1>a, <2>1 DEF LogRows, Statuses
  <2>3. log' = [log EXCEPT ![row[s]] = e] /\ pc' = [pc EXCEPT ![s] = "failedMeta"] /\ row' = row
    BY <1>15 DEF MarkFailed, Goto
  <2>4. SyncInv(s)'
    BY <1>0, <2>1, <2>3 DEF SyncInv
  <2> HIDE DEF e
  <2> QED
    BY <1>0, <1>15, <2>1, <2>2, <2>3, <2>4, WriteStep DEF MarkFailed
<1>16. CASE HandlerError(s) \/ Crash(s)
  <2>1. CASE HandlerError(s) /\ pc[s] = "failedMeta"
    <3>1. SyncInv(s)'
      BY <1>0, <2>1 DEF HandlerError, Goto, SyncInv
    <3> QED
      BY <1>0, <2>1, <3>1, QuietStep DEF HandlerError, Goto, Open
  <2>2. CASE HandlerError(s) /\ pc[s] = "markFailed"
    <3>1. /\ Abandon(s) /\ pc' = [pc EXCEPT ![s] = "release"]
          /\ UNCHANGED <<row, csv, todo, insts, courses>>
      BY <2>2 DEF HandlerError, Goto
    <3>2. SyncInv(s)'
      BY <1>0, <2>2, <3>1 DEF SyncInv
    <3> QED
      BY <1>0, <3>1, <3>2, AbandonStep
  <2>3. CASE Crash(s)
    <3>1. SyncInv(s)'
      BY <1>0, <2>3 DEF Crash, Return, Goto, SyncInv
    <3> QED
      BY <1>0, <2>3, <3>1, AbandonStep DEF Crash, Return, Goto
  <2> QED
    BY <1>16, <2>1, <2>2, <2>3 DEF HandlerError
<1>17. CASE Release(s) \/ ReleaseError(s)
  BY <1>17, ReturnStep DEF Release, ReleaseError, Open, dataVars
<1> QED
  BY <1>1, <1>2, <1>3, <1>4, <1>5, <1>6, <1>7, <1>8, <1>9, <1>10, <1>11, <1>12,
     <1>13, <1>14, <1>15, <1>16, <1>17 DEF SyncStep

-----------------------------------------------------------------------------
(* What a step of a sync does to the lock and its history. *)

\* It goes on, or it returns; only taking the lock and returning touch the lock.
Works(s) ==
  /\ UNCHANGED lockVars
  /\ pc[s] # "idle"
  /\ \E where \in PCs \ {"idle"} : Goto(s, where)

Leaves(s) ==
  /\ pc[s] # "idle"
  /\ Return(s)
  /\ left' \in {0, left}
  /\ orphan' \in BOOLEAN /\ (left' > 0 => orphan')

LEMMA LockStep ==
  ASSUME TypeOK, NEW s \in Syncs, SyncStep(s)
  PROVE  Acquire(s) \/ Works(s) \/ Leaves(s)
<1>0. pc \in [Syncs -> PCs] /\ left \in Nat
  BY MecAssumption DEF TypeOK
<1>1. CASE \/ CreateLog(s) \/ Parse(s) \/ ListInstitutions(s) \/ InstitutionsDone(s)
           \/ ListCourses(s) \/ CoursesDone(s) \/ InvalidateCaches(s)
           \/ MarkSuccess(s) \/ WriteMetadata(s)
  BY <1>1 DEF CreateLog, Parse, ListInstitutions, InstitutionsDone, ListCourses, CoursesDone,
              InvalidateCaches, MarkSuccess, WriteMetadata, Works, PCs
<1>2. CASE InsertInstitutionBatch(s) \/ InsertCourseBatch(s)
  <2>1. UNCHANGED lockVars /\ pc' = pc /\ pc[s] \in PCs \ {"idle"}
    BY <1>2 DEF InsertInstitutionBatch, InsertCourseBatch, PCs
  <2>2. Goto(s, pc[s])
    BY <1>0, <2>1 DEF Goto
  <2> QED
    BY <2>1, <2>2 DEF Works
<1>3. CASE SyncError(s) \/ MarkFailed(s) \/ HandlerError(s)
  <2>1. pc[s] # "idle"
    BY <1>3, MecAssumption DEF SyncError, MarkFailed, HandlerError, Needs, FaultKinds
  <2> QED
    BY <1>3, <2>1 DEF SyncError, MarkFailed, HandlerError, Works, PCs
<1>4. CASE CreateLogError(s) \/ ReleaseError(s) \/ Crash(s)
  <2>1. pc[s] # "idle" /\ Return(s) /\ left' = left
    BY <1>4 DEF CreateLogError, ReleaseError, Crash
  <2>2. orphan' = (left > 0)
    BY <1>4 DEF CreateLogError, ReleaseError, Crash
  <2>3. orphan' \in BOOLEAN
    BY <2>2
  <2>4. left > 0 => orphan'
    BY <2>2, Zenon
  <2> QED
    BY <2>1, <2>3, <2>4 DEF Leaves
<1>5. CASE Release(s)
  <2>1. pc[s] # "idle" /\ Return(s) /\ left' = 0 /\ orphan' = FALSE
    BY <1>5 DEF Release
  <2>2. orphan' \in BOOLEAN
    BY <2>1
  <2>3. ~(left' > 0)
    BY <2>1
  <2> QED
    BY <2>1, <2>2, <2>3 DEF Leaves
<1> QED
  BY <1>1, <1>2, <1>3, <1>4, <1>5 DEF SyncStep

-----------------------------------------------------------------------------
(* Type correctness and the row invariant. *)

LEMMA TypeStep == IInv /\ [Next]_vars => TypeOK'
<1> SUFFICES ASSUME IInv, [Next]_vars PROVE TypeOK'
  OBVIOUS
<1>0. TypeOK /\ Len(log) \in Nat
  BY DEF IInv, TypeOK
<1>1. CASE UNCHANGED vars
  BY <1>0, <1>1 DEF TypeOK, vars, lockVars, syncVars, dataVars, readVars
<1>2. ASSUME NEW s \in Syncs, SyncStep(s) PROVE TypeOK'
  <2>1. log' \in Seq(LogRows) /\ row' \in [Syncs -> 0 .. Len(log')]
    BY <1>2, SyncStepEffect DEF Local
  <2>2. log' \in Seq([status : Statuses, file : Files, abandoned : BOOLEAN])
    BY <2>1 DEF LogRows
  <2>3. /\ pc' \in [Syncs -> PCs]
        /\ left' \in 0 .. LockTtl /\ age' \in [Syncs -> 0 .. LockTtl]
        /\ overran' \in BOOLEAN /\ orphan' \in BOOLEAN
    <3>1. CASE Acquire(s)
      BY <1>0, <3>1, MecAssumption DEF TypeOK, PCs, Acquire, Goto
    <3>2. CASE Works(s)
      BY <1>0, <3>2 DEF TypeOK, Works, Goto, lockVars
    <3>3. CASE Leaves(s)
      BY <1>0, <3>3, MecAssumption DEF TypeOK, PCs, Leaves, Return, Goto
    <3> QED
      BY <1>0, <1>2, <3>1, <3>2, <3>3, LockStep
  <2>4. /\ csv' \in [Syncs -> Files]
        /\ todo' \in [Syncs -> SUBSET (Institutions \cup Courses)]
    <3>1. CASE ListInstitutions(s)
      <4>1. csv' = csv /\ todo' = [todo EXCEPT ![s] = csv[s].insts \ insts]
        BY <3>1 DEF ListInstitutions
      <4>2. csv[s].insts \subseteq Institutions
        BY <1>0 DEF TypeOK, Files
      <4> QED
        BY <1>0, <4>1, <4>2 DEF TypeOK
    <3>5. CASE ListCourses(s)
      <4> DEFINE new == csv[s].courses \ courses
                 valid == {c \in new : InstOf[c] \in insts}
                 file == [csv[s] EXCEPT !.dropped = new \ valid]
      <4>1. csv' = [csv EXCEPT ![s] = file] /\ todo' = [todo EXCEPT ![s] = valid]
        BY <3>5 DEF ListCourses
      <4>2. file \in Files /\ valid \subseteq Courses
        BY <1>0 DEF TypeOK, Files
      <4> HIDE DEF file, valid
      <4> QED
        BY <1>0, <4>1, <4>2 DEF TypeOK
    <3>6. CASE SyncError(s)
      <4>1. csv' = [csv EXCEPT ![s] = NoFile] /\ todo' = [todo EXCEPT ![s] = {}]
        BY <3>6 DEF SyncError
      <4> QED
        BY <1>0, <4>1, EmptyFile DEF TypeOK
    <3>4. CASE InsertInstitutionBatch(s) \/ InsertCourseBatch(s)
      <4>1. csv' = csv /\ \E set \in SUBSET todo[s] : todo' = [todo EXCEPT ![s] = todo[s] \ set]
        BY <3>4 DEF InsertInstitutionBatch, InsertCourseBatch
      <4> QED
        BY <1>0, <4>1 DEF TypeOK
    <3>2. CASE Parse(s)
      <4>1. todo' = todo /\ \E file \in Files : csv' = [csv EXCEPT ![s] = file]
        BY <3>2 DEF Parse, Files
      <4> QED
        BY <1>0, <4>1 DEF TypeOK
    <3>3. CASE \/ CreateLogError(s) \/ Release(s) \/ ReleaseError(s) \/ Crash(s)
      BY <1>0, <3>3, EmptyFile DEF TypeOK, CreateLogError, Release, ReleaseError, Crash, Return
    <3> QED
      BY <1>0, <1>2, <3>1, <3>2, <3>3, <3>4, <3>5, <3>6
         DEF TypeOK, SyncStep, Acquire, CreateLog, InstitutionsDone, CoursesDone,
             InvalidateCaches, MarkSuccess, WriteMetadata, MarkFailed, HandlerError
  <2>5. insts' \subseteq Institutions /\ courses' \subseteq Courses
    <3>1. CASE InsertInstitutionBatch(s)
      <4>1. PICK batch \in SUBSET todo[s] : insts' = insts \cup batch
        BY <3>1 DEF InsertInstitutionBatch
      <4>2. todo[s] \subseteq Institutions
        BY <3>1 DEF InsertInstitutionBatch, IInv, RowInv, SyncInv
      <4> QED
        BY <1>0, <3>1, <4>1, <4>2 DEF TypeOK, InsertInstitutionBatch
    <3>2. CASE InsertCourseBatch(s)
      <4>1. PICK batch \in SUBSET todo[s] : courses' = courses \cup batch
        BY <3>2 DEF InsertCourseBatch
      <4>2. todo[s] \subseteq Courses
        BY <3>2 DEF InsertCourseBatch, IInv, RowInv, SyncInv
      <4> QED
        BY <1>0, <3>2, <4>1, <4>2 DEF TypeOK, InsertCourseBatch
    <3> QED
      BY <1>0, <1>2, <3>1, <3>2
         DEF TypeOK, SyncStep, Acquire, CreateLog, CreateLogError, Parse, ListInstitutions,
             InstitutionsDone, ListCourses, CoursesDone, InvalidateCaches, MarkSuccess,
             WriteMetadata, SyncError, MarkFailed, HandlerError, Release, ReleaseError, Crash,
             dataVars
  <2>6. listing' \in {listing, NoEntry} /\ reading' = reading /\ behind' \in BOOLEAN
    <3>1. CASE \/ Acquire(s) \/ CreateLog(s) \/ CreateLogError(s) \/ Parse(s)
               \/ ListInstitutions(s) \/ InsertInstitutionBatch(s) \/ InstitutionsDone(s)
               \/ ListCourses(s) \/ InsertCourseBatch(s) \/ CoursesDone(s)
      BY <1>0, <3>1
         DEF TypeOK, Acquire, CreateLog, CreateLogError, Parse, ListInstitutions,
             InsertInstitutionBatch, InstitutionsDone, ListCourses, InsertCourseBatch,
             CoursesDone, readVars
    <3>2. CASE \/ InvalidateCaches(s) \/ MarkSuccess(s) \/ WriteMetadata(s) \/ MarkFailed(s)
               \/ HandlerError(s) \/ Release(s) \/ ReleaseError(s)
      BY <1>0, <3>2
         DEF TypeOK, InvalidateCaches, MarkSuccess, WriteMetadata, MarkFailed, HandlerError,
             Release, ReleaseError, readVars
    <3>3. CASE SyncError(s) \/ Crash(s)
      BY <1>0, <3>3 DEF TypeOK, SyncError, Crash, GiveUp
    <3> QED
      BY <1>2, <3>1, <3>2, <3>3 DEF SyncStep
  <2> QED
    BY <1>0, <2>1, <2>2, <2>3, <2>4, <2>5, <2>6 DEF TypeOK
<1>3. ASSUME NEW r \in Readers, ReadMiss(r) \/ FillCache(r) PROVE TypeOK'
  BY <1>0, <1>3 DEF TypeOK, ReadMiss, FillCache, WillInvalidate, lockVars, syncVars, dataVars
<1>4. CASE ListingExpires
  BY <1>0, <1>4 DEF TypeOK, ListingExpires, lockVars, syncVars, dataVars
<1>5. CASE Tick
  BY <1>0, <1>5, MecAssumption DEF TypeOK, Tick, syncVars, dataVars, readVars
<1> QED
  BY <1>1, <1>2, <1>3, <1>4, <1>5 DEF Next

LEMMA Invariance == Spec => []IInv
<1>1. Init => IInv
  <2> SUFFICES ASSUME Init PROVE TypeOK /\ RowInv
    BY DEF IInv
  <2>1. Len(log) = 0 /\ log \in Seq([status : Statuses, file : Files, abandoned : BOOLEAN])
    BY DEF Init
  <2>2. TypeOK
    <3>1. /\ pc \in [Syncs -> PCs] /\ row \in [Syncs -> 0 .. Len(log)]
          /\ left \in 0 .. LockTtl /\ age \in [Syncs -> 0 .. LockTtl]
          /\ csv \in [Syncs -> Files]
          /\ todo \in [Syncs -> SUBSET (Institutions \cup Courses)]
      BY <2>1, MecAssumption, EmptyFile DEF Init, PCs
    <3>2. listing = NoEntry /\ reading \in [Readers -> {NoEntry} \cup SUBSET Institutions]
      BY DEF Init
    <3> QED
      BY <2>1, <3>1, <3>2 DEF Init, TypeOK
  <2>3. RowInv
    BY <2>1 DEF Init, RowInv, SyncInv, RowsDiffer
  <2> QED
    BY <2>2, <2>3
<1>2. IInv /\ [Next]_vars => IInv'
  <2> SUFFICES ASSUME IInv, [Next]_vars PROVE RowInv'
    BY TypeStep DEF IInv
  <2>1. ASSUME NEW s \in Syncs, SyncStep(s) PROVE RowInv'
    BY <2>1, SyncStepEffect, OneStep
  <2>2. CASE UNCHANGED <<syncVars, dataVars>>
    BY <2>2 DEF IInv, RowInv, SyncInv, RowsDiffer, Told, Tracked, Stored, syncVars, dataVars
  <2> QED
    BY <2>1, <2>2 DEF Next, ReadMiss, FillCache, ListingExpires, Tick, vars
<1> QED
  BY <1>1, <1>2, PTL DEF Spec

\* Every variable keeps its type: what the sync, the readers and the clock write.
THEOREM TypeCorrect == Spec => []TypeOK
BY Invariance, PTL DEF IInv

\* A row says SUCCESS only after both bulk inserts, and nothing is ever taken out.  What
\* its sync left out of the file are courses whose institution the file did not bring:
\* those it brought were in the table before the codes were listed.
THEOREM SuccessStored == Spec => []SuccessMeansStored
<1>1. IInv => SuccessMeansStored
  BY DEF IInv, RowInv, Told, SuccessMeansStored
<1> QED
  BY <1>1, Invariance, PTL

\* Every way out of the `try' closes the row, or marks that nobody will.
THEOREM RunningTracked == Spec => []RunningRowHasSync
<1>1. IInv => RunningRowHasSync
  BY DEF IInv, RowInv, Tracked, Open, RunningRowHasSync, InFlight
<1> QED
  BY <1>1, Invariance, PTL

-----------------------------------------------------------------------------
(* The lock. *)

\* While no sync has outlived its lease, the one in flight has set the key: what
\* is left of the lease and the sync's age make up the whole of it.
LeaseInv ==
  overran \/ \A s \in InFlight :
    /\ left > 0 /\ left + age[s] = LockTtl
    /\ \A t \in InFlight : t = s

\* "Sync already in progress": the key keeps everybody else out for as long as it lasts.
THEOREM SyncsExclude == Spec => []OneSyncAtATime
<1>1. Init => LeaseInv
  BY DEF Init, LeaseInv, InFlight
<1>2. TypeOK /\ LeaseInv /\ [Next]_vars => LeaseInv'
  <2> SUFFICES ASSUME TypeOK, LeaseInv, [Next]_vars, ~overran'
               PROVE  \A s \in InFlight' : /\ left' > 0 /\ left' + age'[s] = LockTtl
                                           /\ \A t \in InFlight' : t = s
    BY DEF LeaseInv
  <2>0. /\ left \in 0 .. LockTtl /\ age \in [Syncs -> 0 .. LockTtl] /\ LockTtl \in Nat \ {0}
        /\ pc \in [Syncs -> PCs]
    BY MecAssumption DEF TypeOK
  <2>1. ASSUME NEW s \in Syncs, Acquire(s)
        PROVE  overran' = overran /\ InFlight' = InFlight \cup {s} /\ left = 0
               /\ left' = LockTtl /\ age'[s] = 0
    BY <2>0, <2>1 DEF Acquire, Goto, InFlight
  <2>2. ASSUME NEW s \in Syncs, Works(s)
        PROVE  InFlight' = InFlight /\ left' = left /\ age' = age /\ overran' = overran
    BY <2>0, <2>2 DEF Works, Goto, InFlight, lockVars
  <2>3. ASSUME NEW s \in Syncs, Leaves(s)
        PROVE  InFlight' = InFlight \ {s} /\ (InFlight = {s} \/ ~overran)
    BY <2>0, <2>3 DEF Leaves, Return, Goto, InFlight
  <2>4. ASSUME NEW s \in Syncs, SyncStep(s)
        PROVE  \A t \in InFlight' : /\ left' > 0 /\ left' + age'[t] = LockTtl
                                    /\ \A u \in InFlight' : u = t
    <3>1. CASE Acquire(s)
      <4>1. InFlight = {}
        BY <2>1, <3>1 DEF LeaseInv
      <4> QED
        BY <2>0, <2>1, <3>1, <4>1
    <3>2. CASE Works(s)
      BY <2>2, <3>2 DEF LeaseInv
    <3>3. CASE Leaves(s)
      <4>1. InFlight' = {}
        BY <2>3, <3>3 DEF LeaseInv, Leaves, InFlight
      <4> QED
        BY <4>1
    <3> QED
      BY <2>4, <3>1, <3>2, <3>3, LockStep
  <2>5. CASE Tick
    <3>1. InFlight' = InFlight /\ ~overran
      BY <2>5 DEF Tick, InFlight, syncVars
    <3>2. \A s \in InFlight : age'[s] = age[s] + 1 /\ age'[s] # LockTtl
      <4>1. \A s \in InFlight : age'[s] # LockTtl
        BY <2>5 DEF Tick
      <4>2. \A s \in InFlight : age[s] < LockTtl
        BY <2>0, <3>1 DEF InFlight, LeaseInv
      <4> QED
        BY <2>0, <2>5, <4>1, <4>2 DEF Tick, InFlight
    <3> QED
      BY <2>0, <2>5, <3>1, <3>2 DEF Tick, LeaseInv, InFlight
  <2>6. CASE UNCHANGED <<lockVars, syncVars>>
    BY <2>6 DEF lockVars, syncVars, InFlight, LeaseInv
  <2> QED
    BY <2>4, <2>5, <2>6 DEF Next, ReadMiss, FillCache, ListingExpires, vars
<1>3. LeaseInv => OneSyncAtATime
  <2> SUFFICES ASSUME LeaseInv, ~overran PROVE Cardinality(InFlight) <= 1
    BY DEF OneSyncAtATime
  <2>1. CASE InFlight = {}
    BY <2>1, FS_EmptySet
  <2>2. ASSUME NEW s \in InFlight PROVE Cardinality(InFlight) <= 1
    <3>1. InFlight = {s}
      BY <2>2 DEF LeaseInv
    <3> QED
      BY <3>1, FS_Singleton
  <2> QED
    BY <2>1, <2>2
<1> QED
  BY <1>1, <1>2, <1>3, TypeCorrect, PTL DEF Spec

\* The `finally' covers everything but the creation of the log row.
THEOREM LockTracked == Spec => []LockHasSync
<1>1. Init => LockHasSync
  BY DEF Init, LockHasSync
<1>2. TypeOK /\ LockHasSync /\ [Next]_vars => LockHasSync'
  <2> SUFFICES ASSUME TypeOK, LockHasSync, [Next]_vars PROVE LockHasSync'
    OBVIOUS
  <2>0. left \in Nat /\ pc \in [Syncs -> PCs]
    BY MecAssumption DEF TypeOK
  <2>1. ASSUME NEW s \in Syncs, SyncStep(s) PROVE LockHasSync'
    <3>1. CASE Acquire(s)
      BY <2>0, <3>1 DEF Acquire, Goto, InFlight, LockHasSync
    <3>2. CASE Works(s)
      BY <2>0, <3>2 DEF Works, Goto, InFlight, LockHasSync
    <3>3. CASE Leaves(s)
      BY <3>3 DEF Leaves, LockHasSync
    <3> QED
      BY <2>1, <3>1, <3>2, <3>3, LockStep
  <2>2. CASE Tick
    <3>1. InFlight' = InFlight
      BY <2>2 DEF Tick, InFlight, syncVars
    <3>2. left' > 0 => left > 1
      BY <2>0, <2>2 DEF Tick
    <3>3. left > 1 => left > 0
      BY <2>0
    <3>4. orphan' = (orphan /\ left > 1)
      BY <2>2 DEF Tick
    <3> QED
      BY <3>1, <3>2, <3>3, <3>4, Zenon DEF LockHasSync
  <2>3. CASE UNCHANGED <<lockVars, syncVars>>
    BY <2>3 DEF lockVars, syncVars, InFlight, LockHasSync
  <2> QED
    BY <2>1, <2>2, <2>3 DEF Next, ReadMiss, FillCache, ListingExpires, vars
<1> QED
  BY <1>1, <1>2, TypeCorrect, PTL DEF Spec

-----------------------------------------------------------------------------
(* The cached list. *)

\* Inductive as it stands: a sync that has inserted is on its way to the
\* invalidation, or gives up and says so.
THEOREM FreshTracked == Spec => []FreshAfterSync
<1>1. Init => FreshAfterSync
  BY DEF Init, FreshAfterSync
<1>2. TypeOK /\ FreshAfterSync /\ [Next]_vars => FreshAfterSync'
  <2> SUFFICES ASSUME TypeOK, FreshAfterSync, [Next]_vars PROVE FreshAfterSync'
    OBVIOUS
  <2>0. pc \in [Syncs -> PCs]
    BY DEF TypeOK
  <2>1. ASSUME NEW s \in Syncs, SyncStep(s) PROVE FreshAfterSync'
    <3>1. CASE SyncError(s) \/ Crash(s)
      BY <2>0, <3>1
         DEF SyncError, Crash, GiveUp, Return, Goto, FreshAfterSync, WillInvalidate, dataVars
    <3>2. CASE InvalidateCaches(s)
      BY <3>2 DEF InvalidateCaches, FreshAfterSync
    <3>3. CASE InsertInstitutionBatch(s)
      BY <3>3 DEF InsertInstitutionBatch, FreshAfterSync, WillInvalidate
    <3>4. CASE \/ Acquire(s) \/ CreateLog(s) \/ Parse(s) \/ ListInstitutions(s)
               \/ InstitutionsDone(s) \/ ListCourses(s) \/ CoursesDone(s)
               \/ MarkSuccess(s) \/ WriteMetadata(s) \/ MarkFailed(s) \/ HandlerError(s)
      BY <2>0, <3>4
         DEF Acquire, CreateLog, Parse, ListInstitutions, InstitutionsDone, ListCourses,
             CoursesDone, MarkSuccess, WriteMetadata, MarkFailed, HandlerError, Goto,
             FreshAfterSync, WillInvalidate, dataVars, readVars
    <3>5. CASE InsertCourseBatch(s)
      BY <3>5 DEF InsertCourseBatch, FreshAfterSync, WillInvalidate, readVars
    <3>6. CASE CreateLogError(s) \/ Release(s) \/ ReleaseError(s)
      BY <2>0, <3>6
         DEF CreateLogError, Release, ReleaseError, Return, Goto, FreshAfterSync,
             WillInvalidate, dataVars, readVars
    <3> QED
      BY <2>1, <3>1, <3>2, <3>3, <3>4, <3>5, <3>6 DEF SyncStep
  <2>2. CASE \E r \in Readers : ReadMiss(r) \/ FillCache(r)
    BY <2>2 DEF ReadMiss, FillCache, FreshAfterSync, WillInvalidate, syncVars, dataVars
  <2>3. CASE ListingExpires
    BY <2>3 DEF ListingExpires, FreshAfterSync
  <2>4. CASE UNCHANGED <<syncVars, dataVars, readVars>>
    BY <2>4 DEF FreshAfterSync, WillInvalidate, syncVars, dataVars, readVars
  <2> QED
    BY <2>1, <2>2, <2>3, <2>4 DEF Next, Tick, vars
<1> QED
  BY <1>1, <1>2, TypeCorrect, PTL DEF Spec
=============================================================================

------------------------------ MODULE MecSync ------------------------------
(***************************************************************************)
(* The synchronisation of the MEC register of institutions and courses:    *)
(* MecSyncService.sync under its cache-backed lock, the sync-log row it    *)
(* keeps, the bulk inserts, and the read-side cache of the institution     *)
(* list that the sync invalidates at its end.                              *)
(*                                                                         *)
(* A sync is a call of MecSyncService.sync on some pod.  Everything it     *)
(* awaits may interleave with other syncs and with readers, and may fail   *)
(* where Faults says so.  The lock is a bare key with a lease: SET NX EX   *)
(* to take it, DEL to release it, whoever set it.                          *)
(*                                                                         *)
(* A line of the CSV is parsed into an institution and a course apart, and *)
(* either may be missing: a parsed file is any institutions and any        *)
(* courses.  A course names the code of its institution; where the table   *)
(* has none of that code, the course is left out and nobody is told.       *)
(* What is marked as history the program does not keep and the properties  *)
(* need; so are the courses left out of a file, and the file and the       *)
(* abandonment of a log row.                                               *)
(***************************************************************************)
EXTENDS Naturals, Sequences, FiniteSets

CONSTANTS
  Syncs,         \* concurrent callers of sync()
  Readers,       \* concurrent callers of listAllActiveInstitutions()
  Institutions,  \* codigoIes
  Courses,       \* codigoCurso
  InstOf,        \* the institution of each course
  BatchSize,     \* BATCH_SIZE
  LockTtl,       \* MEC_CACHE_TTL.SYNC_LOCK, in ticks
  MaxLogs,       \* bound: sync-log rows ever opened
  NoEntry,       \* no cached list / no read under way
  Faults         \* what may go wrong

FaultKinds == {"csv", "db", "cache", "crash"}

ASSUME MecAssumption ==
  /\ InstOf \in [Courses -> Institutions]
  /\ BatchSize \in Nat \ {0}
  /\ LockTtl \in Nat \ {0}
  /\ MaxLogs \in Nat
  /\ Faults \subseteq FaultKinds
  /\ \A set \in SUBSET Institutions : NoEntry # set

VARIABLES
  left,     \* ticks until the lock key expires; 0: there is no key
  pc,       \* where each sync is
  age,      \* ticks since the sync took the lock, up to LockTtl
  overran,  \* history: since no sync ran, one has outlived its lease
  row,      \* the sync's log row
  csv,      \* the sync's parsed file
  todo,     \* rows its current bulk insert has not written yet
  log,      \* the MecSyncLog table
  insts,    \* the MecInstitution table
  courses,  \* the MecCourse table
  listing,  \* the cached institution list
  reading,  \* what each reader has read and not yet cached
  orphan,   \* history: the key was left by a sync that ended without its `finally'
  behind    \* history: the cached list is known to miss what a sync inserted

lockVars == <<left, age, overran, orphan>>
syncVars == <<pc, row, csv, todo>>
dataVars == <<log, insts, courses>>
readVars == <<listing, reading, behind>>
vars == <<lockVars, syncVars, dataVars, readVars>>

\* What a file was parsed into, and which of its courses the sync has left out.
Files == [insts : SUBSET Institutions, courses : SUBSET Courses, dropped : SUBSET Courses]

NoFile == [insts |-> {}, courses |-> {}, dropped |-> {}]

PCs == {"idle", "create", "parse", "listInsts", "insts", "listCourses", "courses",
        "invalidate", "mark", "meta", "markFailed", "failedMeta", "release"}

Statuses == {"RUNNING", "SUCCESS", "FAILED"}

TypeOK ==
  /\ left \in 0 .. LockTtl
  /\ pc \in [Syncs -> PCs]
  /\ age \in [Syncs -> 0 .. LockTtl]
  /\ overran \in BOOLEAN
  /\ row \in [Syncs -> 0 .. Len(log)]
  /\ csv \in [Syncs -> Files]
  /\ todo \in [Syncs -> SUBSET (Institutions \cup Courses)]
  /\ log \in Seq([status : Statuses, file : Files, abandoned : BOOLEAN])
  /\ insts \subseteq Institutions
  /\ courses \subseteq Courses
  /\ listing \in {NoEntry} \cup SUBSET Institutions
  /\ reading \in [Readers -> {NoEntry} \cup SUBSET Institutions]
  /\ orphan \in BOOLEAN
  /\ behind \in BOOLEAN

Init ==
  /\ left = 0
  /\ pc = [s \in Syncs |-> "idle"]
  /\ age = [s \in Syncs |-> 0]
  /\ overran = FALSE
  /\ row = [s \in Syncs |-> 0]
  /\ csv = [s \in Syncs |-> NoFile]
  /\ todo = [s \in Syncs |-> {}]
  /\ log = <<>>
  /\ insts = {}
  /\ courses = {}
  /\ listing = NoEntry
  /\ reading = [r \in Readers |-> NoEntry]
  /\ orphan = FALSE
  /\ behind = FALSE

InFlight == {s \in Syncs : pc[s] # "idle"}

\* The bound on log rows: those in the table and those about to be created.
LogsOpened == Len(log) + Cardinality({s \in Syncs : pc[s] = "create"})

Goto(s, where) == pc' = [pc EXCEPT ![s] = where]

\* The call is over, whether it returned or threw.
Return(s) ==
  /\ Goto(s, "idle")
  /\ row' = [row EXCEPT ![s] = 0]
  /\ csv' = [csv EXCEPT ![s] = NoFile]
  /\ todo' = [todo EXCEPT ![s] = {}]
  /\ age' = [age EXCEPT ![s] = 0]
  /\ overran' = (overran /\ InFlight # {s})

\* A sync that inserts institutions will invalidate the cached list.
WillInvalidate(set) ==
  \E s \in set : pc[s] \in {"insts", "listCourses", "courses", "invalidate"}

\* A sync ends before it has invalidated what was cached meanwhile.
GiveUp(s) ==
  behind' = (behind \/ (listing \notin {NoEntry, insts} /\ ~WillInvalidate(Syncs \ {s})))

-----------------------------------------------------------------------------
(* The sync. *)

\* Slip: the lock is read first and written afterwards, or not checked at all.
Acquire_Unchecked(s) ==
  /\ pc[s] = "idle"
  /\ LogsOpened < MaxLogs
  /\ left' = LockTtl
  /\ age' = [age EXCEPT ![s] = 0]
  /\ Goto(s, "create")
  /\ UNCHANGED <<overran, orphan, row, csv, todo, dataVars, readVars>>

\* setIfAbsent on the lock key; a sync that finds it throws MecSyncInProgress
\* and has changed nothing.
Acquire(s) ==
  /\ pc[s] = "idle"
  /\ LogsOpened < MaxLogs
  /\ left = 0
  /\ left' = LockTtl
  /\ age' = [age EXCEPT ![s] = 0]
  /\ Goto(s, "create")
  /\ UNCHANGED <<overran, orphan, row, csv, todo, dataVars, readVars>>

\* syncLogRepo.create: the row is RUNNING.
CreateLog(s) ==
  /\ pc[s] = "create"
  /\ log' = Append(log, [status |-> "RUNNING", file |-> NoFile, abandoned |-> FALSE])
  /\ row' = [row EXCEPT ![s] = Len(log')]
  /\ Goto(s, "parse")
  /\ UNCHANGED <<lockVars, csv, todo, insts, courses, readVars>>

\* Creating the row throws before the `try' is entered: no `finally' releases
\* the lock.
CreateLogError(s) ==
  /\ pc[s] = "create"
  /\ "db" \in Faults
  /\ Return(s)
  /\ orphan' = (left > 0)
  /\ UNCHANGED <<left, dataVars, readVars>>

\* downloadAndParse; the file may be a fresh download or the copy on disk.  A line
\* without the name or state of the institution still yields its course.
Parse(s) ==
  /\ pc[s] = "parse"
  /\ \E i \in SUBSET Institutions, c \in SUBSET Courses :
       csv' = [csv EXCEPT ![s] = [insts |-> i, courses |-> c, dropped |-> {}]]
  /\ Goto(s, "listInsts")
  /\ UNCHANGED <<lockVars, row, todo, dataVars, readVars>>

\* syncInstitutions: the rows whose code is not there yet.
ListInstitutions(s) ==
  /\ pc[s] = "listInsts"
  /\ todo' = [todo EXCEPT ![s] = csv[s].insts \ insts]
  /\ Goto(s, "insts")
  /\ UNCHANGED <<lockVars, row, csv, dataVars, readVars>>

\* bulkCreateInstitutions: one createMany with skipDuplicates.
InsertInstitutionBatch(s) ==
  /\ pc[s] = "insts"
  /\ \E batch \in SUBSET todo[s] :
       /\ Cardinality(batch) \in 1 .. BatchSize
       /\ insts' = insts \cup batch
       /\ todo' = [todo EXCEPT ![s] = @ \ batch]
  /\ UNCHANGED <<lockVars, pc, row, csv, log, courses, readVars>>

InstitutionsDone(s) ==
  /\ pc[s] = "insts"
  /\ todo[s] = {}
  /\ Goto(s, "listCourses")
  /\ UNCHANGED <<lockVars, row, csv, todo, dataVars, readVars>>

\* Slip: the valid institution codes are those read before this sync's own inserts.
ListCourses_CodesReadFirst(s) ==
  /\ pc[s] = "listCourses"
  /\ LET new == csv[s].courses \ courses
         valid == {c \in new : InstOf[c] \in insts \ csv[s].insts}
     IN  /\ todo' = [todo EXCEPT ![s] = valid]
         /\ csv' = [csv EXCEPT ![s].dropped = new \ valid]
  /\ Goto(s, "courses")
  /\ UNCHANGED <<lockVars, row, dataVars, readVars>>

\* syncCourses: the rows whose code is not there yet.  bulkCreateCourses leaves out
\* those without a stored institution, and says nothing.  Rows are only ever added, so
\* that the code's two reads are one step here.
ListCourses(s) ==
  /\ pc[s] = "listCourses"
  /\ LET new == csv[s].courses \ courses
         valid == {c \in new : InstOf[c] \in insts}
     IN  /\ todo' = [todo EXCEPT ![s] = valid]
         /\ csv' = [csv EXCEPT ![s].dropped = new \ valid]
  /\ Goto(s, "courses")
  /\ UNCHANGED <<lockVars, row, dataVars, readVars>>

InsertCourseBatch(s) ==
  /\ pc[s] = "courses"
  /\ \E batch \in SUBSET todo[s] :
       /\ Cardinality(batch) \in 1 .. BatchSize
       /\ courses' = courses \cup batch
       /\ todo' = [todo EXCEPT ![s] = @ \ batch]
  /\ UNCHANGED <<lockVars, pc, row, csv, log, insts, readVars>>

CoursesDone(s) ==
  /\ pc[s] = "courses"
  /\ todo[s] = {}
  /\ Goto(s, "invalidate")
  /\ UNCHANGED <<lockVars, row, csv, todo, dataVars, readVars>>

\* Slip: one of the cached lists is forgotten.
InvalidateCaches_NoList(s) ==
  /\ pc[s] = "invalidate"
  /\ Goto(s, "mark")
  /\ UNCHANGED <<lockVars, row, csv, todo, dataVars, readVars>>

InvalidateCaches(s) ==
  /\ pc[s] = "invalidate"
  /\ listing' = NoEntry
  /\ behind' = FALSE
  /\ Goto(s, "mark")
  /\ UNCHANGED <<lockVars, row, csv, todo, dataVars, reading>>

\* Slip: the row is closed as soon as the institutions are in.
MarkSuccess_Early(s) ==
  /\ pc[s] \in {"listCourses", "mark"}
  /\ log' = [log EXCEPT ![row[s]].status = "SUCCESS", ![row[s]].file = csv[s]]
  /\ Goto(s, "meta")
  /\ UNCHANGED <<lockVars, row, csv, todo, insts, courses, readVars>>

\* finalizeSyncSuccess, the row; its counts do not tell what was left out.
MarkSuccess(s) ==
  /\ pc[s] = "mark"
  /\ log' = [log EXCEPT ![row[s]].status = "SUCCESS", ![row[s]].file = csv[s]]
  /\ Goto(s, "meta")
  /\ UNCHANGED <<lockVars, row, csv, todo, insts, courses, readVars>>

\* finalizeSyncSuccess and handleSyncError, the cached metadata snapshot.
WriteMetadata(s) ==
  /\ pc[s] \in {"meta", "failedMeta"}
  /\ Goto(s, "release")
  /\ UNCHANGED <<lockVars, row, csv, todo, dataVars, readVars>>

\* What each step of the `try' block depends on.
Needs(where) ==
  CASE where = "parse" -> "csv"
    [] where \in {"listInsts", "insts", "listCourses", "courses", "mark"} -> "db"
    [] where \in {"invalidate", "meta"} -> "cache"
    [] OTHER -> "nothing"

\* Slip: the error path forgets the log row.
SyncError_NoMark(s) ==
  /\ Needs(pc[s]) \in Faults
  /\ csv' = [csv EXCEPT ![s] = NoFile]
  /\ todo' = [todo EXCEPT ![s] = {}]
  /\ GiveUp(s)
  /\ Goto(s, "failedMeta")
  /\ UNCHANGED <<lockVars, row, dataVars, listing, reading>>

\* A step of the `try' block throws; what was already written stays, the parsed file
\* is out of scope.
SyncError(s) ==
  /\ Needs(pc[s]) \in Faults
  /\ csv' = [csv EXCEPT ![s] = NoFile]
  /\ todo' = [todo EXCEPT ![s] = {}]
  /\ GiveUp(s)
  /\ Goto(s, "markFailed")
  /\ UNCHANGED <<lockVars, row, dataVars, listing, reading>>

\* handleSyncError, the row.
MarkFailed(s) ==
  /\ pc[s] = "markFailed"
  /\ log' = [log EXCEPT ![row[s]].status = "FAILED"]
  /\ Goto(s, "failedMeta")
  /\ UNCHANGED <<lockVars, row, csv, todo, insts, courses, readVars>>

\* No one is left to close the row.
Abandon(s) ==
  log' = [i \in DOMAIN log |->
            IF i = row[s] THEN [log[i] EXCEPT !.abandoned = TRUE] ELSE log[i]]

\* Slip: no `finally' around the handler.
HandlerError_NoFinally(s) ==
  /\ \/ pc[s] = "markFailed" /\ "db" \in Faults /\ Abandon(s)
     \/ pc[s] = "failedMeta" /\ "cache" \in Faults /\ UNCHANGED log
  /\ Return(s)
  /\ UNCHANGED <<left, orphan, insts, courses, readVars>>

\* handleSyncError itself throws; the `finally' still runs.
HandlerError(s) ==
  /\ \/ pc[s] = "markFailed" /\ "db" \in Faults /\ Abandon(s)
     \/ pc[s] = "failedMeta" /\ "cache" \in Faults /\ UNCHANGED log
  /\ Goto(s, "release")
  /\ UNCHANGED <<lockVars, row, csv, todo, insts, courses, readVars>>

\* releaseLock: DEL, without asking whose key it is.
Release(s) ==
  /\ pc[s] = "release"
  /\ left' = 0
  /\ orphan' = FALSE
  /\ Return(s)
  /\ UNCHANGED <<dataVars, readVars>>

ReleaseError(s) ==
  /\ pc[s] = "release"
  /\ "cache" \in Faults
  /\ Return(s)
  /\ orphan' = (left > 0)
  /\ UNCHANGED <<left, dataVars, readVars>>

\* The pod dies in the middle of a sync.
Crash(s) ==
  /\ pc[s] # "idle"
  /\ "crash" \in Faults
  /\ Abandon(s)
  /\ Return(s)
  /\ orphan' = (left > 0)
  /\ GiveUp(s)
  /\ UNCHANGED <<left, insts, courses, listing, reading>>

-----------------------------------------------------------------------------
(* The readers, the clock. *)

\* listAllActiveInstitutions misses the cache and reads the table.
ReadMiss(r) ==
  /\ reading[r] = NoEntry
  /\ listing = NoEntry
  /\ reading' = [reading EXCEPT ![r] = insts]
  /\ UNCHANGED <<lockVars, syncVars, dataVars, listing, behind>>

\* It caches what it read; what a sync has inserted since is missing.
FillCache(r) ==
  /\ reading[r] # NoEntry
  /\ listing' = reading[r]
  /\ reading' = [reading EXCEPT ![r] = NoEntry]
  /\ behind' = (reading[r] # insts /\ ~WillInvalidate(Syncs))
  /\ UNCHANGED <<lockVars, syncVars, dataVars>>

ListingExpires ==
  /\ listing # NoEntry
  /\ listing' = NoEntry
  /\ behind' = FALSE
  /\ UNCHANGED <<lockVars, syncVars, dataVars, reading>>

\* Time passes; nothing renews a lease and nothing bounds a sync.
Tick ==
  /\ left' = IF left > 0 THEN left - 1 ELSE 0
  /\ orphan' = (orphan /\ left > 1)
  /\ age' = [s \in Syncs |->
               IF pc[s] # "idle" /\ age[s] < LockTtl THEN age[s] + 1 ELSE age[s]]
  /\ overran' = (overran \/ \E s \in InFlight : age'[s] = LockTtl)
  /\ UNCHANGED <<syncVars, dataVars, readVars>>

SyncStep(s) ==
  \/ Acquire(s)
  \/ CreateLog(s) \/ CreateLogError(s)
  \/ Parse(s)
  \/ ListInstitutions(s) \/ InsertInstitutionBatch(s) \/ InstitutionsDone(s)
  \/ ListCourses(s) \/ InsertCourseBatch(s) \/ CoursesDone(s)
  \/ InvalidateCaches(s)
  \/ MarkSuccess(s) \/ WriteMetadata(s)
  \/ SyncError(s) \/ MarkFailed(s) \/ HandlerError(s)
  \/ Release(s) \/ ReleaseError(s)
  \/ Crash(s)

Next ==
  \/ \E s \in Syncs : SyncStep(s)
  \/ \E r \in Readers : ReadMiss(r) \/ FillCache(r)
  \/ ListingExpires
  \/ Tick

Spec == Init /\ [][Next]_vars

-----------------------------------------------------------------------------
(* Properties. *)

\* All of a file is in the tables but the courses that were left out, and these are
\* courses whose institution the file itself did not bring.
Stored(file) ==
  /\ file.insts \subseteq insts
  /\ file.courses \ file.dropped \subseteq courses
  /\ \A c \in file.dropped : InstOf[c] \notin file.insts

\* A row that says SUCCESS tells the truth of the file it processed, up to the courses
\* without an institution: these are dropped silently, and SUCCESS does not mean that
\* they are stored.
SuccessMeansStored ==
  \A i \in 1 .. Len(log) : log[i].status = "SUCCESS" => Stored(log[i].file)

\* A sync is refused while another is in flight, unless some sync has outlived
\* its lease since the register was last quiet.
OneSyncAtATime == overran \/ Cardinality(InFlight) <= 1

\* Every way out of a sync closes its row: a RUNNING row has a running sync, or
\* its pod died or the database refused the very update that closes it.
RunningRowHasSync ==
  \A i \in 1 .. Len(log) :
    log[i].status = "RUNNING" /\ ~log[i].abandoned => \E s \in InFlight : row[s] = i

\* "We never leak the lock even if the sync explodes": a key without a sync was left
\* by a dead pod, by a release that failed, or by the one step that is not inside the
\* `try', the creation of the log row.
LockHasSync == left > 0 => InFlight # {} \/ orphan

\* "The next API call reflects the freshly-synced data": a cached list that misses an
\* institution still has its invalidation to come, or the sync failed before it, or a
\* reader cached after it what it had read before.
FreshAfterSync == listing \notin {NoEntry, insts} => WillInvalidate(Syncs) \/ behind
=============================================================================

--------------------------- MODULE ResumeVersions ---------------------------
(***************************************************************************)
(* The version history of one resume: snapshots, tailored variants,        *)
(* restores, and the updates that take a snapshot first.  Several calls    *)
(* run at once; each reads the newest number, inserts its row with the     *)
(* next one and retries when the unique constraint refuses it; a snapshot  *)
(* then deletes what is beyond the cap.                                    *)
(*                                                                         *)
(* A resume has two parts, its own fields (title, summary, ...) and its    *)
(* sections.  A version holds the parts that were written into it: a       *)
(* snapshot is {resume: {userId}, sections}, a tailored variant            *)
(* {master, tailored}, which has neither.                                  *)
(***************************************************************************)
EXTENDS Integers, FiniteSets

CONSTANTS
  Calls,       \* the calls; each adds at most one row, and names it
  Kind,        \* what each call does
  Values,      \* contents of a part of the resume
  Blank,       \* the contents at first
  MaxVersions, \* MAX_VERSIONS
  MaxRetries   \* CREATE_VERSION_MAX_RETRIES

Kinds == {"snapshot", "update", "restore", "tailor"}

ASSUME VersionsAssumption ==
  /\ Kind \in [Calls -> Kinds]
  /\ Blank \in Values
  /\ MaxVersions \in Nat \ {0}
  /\ MaxRetries \in Nat \ {0}

VARIABLES
  resume,  \* the parts of the resume
  rows,    \* resume_versions: the number, the call that made it, its contents
  pc,      \* where each call is
  held,    \* the snapshot a call will write
  last,    \* the newest number a call has read
  tries,   \* unique violations a call has met
  doomed,  \* the rows a call is about to delete
  picked   \* the version a restore goes back to

vars == <<resume, rows, pc, held, last, tries, doomed, picked>>

Parts == {"fields", "sections"}

Snapshots == UNION {[ps -> Values] : ps \in SUBSET Parts}

Empty == [p \in {} |-> Blank]

PCs == {"todo", "read", "insert", "publish", "list", "delete", "apply", "done", "failed"}

Rows == [num : Nat \ {0}, by : Calls, data : Snapshots]

TypeOK ==
  /\ resume \in [Parts -> Values]
  /\ rows \subseteq Rows
  /\ pc \in [Calls -> PCs]
  /\ held \in [Calls -> Snapshots]
  /\ last \in [Calls -> Nat]
  /\ tries \in [Calls -> 0..MaxRetries]
  /\ doomed \in [Calls -> SUBSET Calls]
  /\ picked \in [Calls -> Snapshots]

Init ==
  /\ resume = [p \in Parts |-> Blank]
  /\ rows = {}
  /\ pc = [c \in Calls |-> "todo"]
  /\ held = [c \in Calls |-> Empty]
  /\ last = [c \in Calls |-> 0]
  /\ tries = [c \in Calls |-> 0]
  /\ doomed = [c \in Calls |-> {}]
  /\ picked = [c \in Calls |-> Empty]

-----------------------------------------------------------------------------
\* normalizeSnapshot keeps what findResumeForSnapshot selects: the sections.
TakeSnapshot(c) == [p \in {"sections"} |-> resume[p]]

\* The rows newer than number n.
Newer(n) == {r \in rows : r.num > n}

\* ids.slice(MAX_VERSIONS) of the ids in descending order of their number.
Tail == {r \in rows : Cardinality(Newer(r.num)) >= MaxVersions}

\* What comes after the snapshot, or after its failure in an update.
AfterSnapshot(c) ==
  IF Kind[c] \in {"update", "restore"} THEN "apply" ELSE "done"

-----------------------------------------------------------------------------
\* A snapshot, or the one an update begins with.
StartSnapshot(c) ==
  /\ pc[c] = "todo"
  /\ Kind[c] \in {"snapshot", "update"}
  /\ held' = [held EXCEPT ![c] = TakeSnapshot(c)]
  /\ pc' = [pc EXCEPT ![c] = "read"]
  /\ UNCHANGED <<resume, rows, last, tries, doomed, picked>>

\* A restore reads its version, then takes the snapshot "Before restore".
StartRestore(c) ==
  /\ pc[c] = "todo"
  /\ Kind[c] = "restore"
  /\ \E r \in rows : picked' = [picked EXCEPT ![c] = r.data]
  /\ held' = [held EXCEPT ![c] = TakeSnapshot(c)]
  /\ pc' = [pc EXCEPT ![c] = "read"]
  /\ UNCHANGED <<resume, rows, last, tries, doomed>>

\* A tailored variant: neither the fields nor the sections of the resume.
StartTailor(c) ==
  /\ pc[c] = "todo"
  /\ Kind[c] = "tailor"
  /\ pc' = [pc EXCEPT ![c] = "read"]
  /\ UNCHANGED <<resume, rows, held, last, tries, doomed, picked>>

\* findFirst ordered by versionNumber desc; none is 0.
ReadLast(c) ==
  /\ pc[c] = "read"
  /\ \/ rows = {} /\ last' = [last EXCEPT ![c] = 0]
     \/ \E r \in rows : Newer(r.num) = {} /\ last' = [last EXCEPT ![c] = r.num]
  /\ pc' = [pc EXCEPT ![c] = "insert"]
  /\ UNCHANGED <<resume, rows, held, tries, doomed, picked>>

Row(c) == [num |-> last[c] + 1, by |-> c, data |-> held[c]]

Taken(n) == \E r \in rows : r.num = n

\* Slip: the unique constraint is missing.
Insert_NoUnique(c) ==
  /\ pc[c] = "insert"
  /\ rows' = rows \cup {Row(c)}
  /\ pc' = [pc EXCEPT ![c] = IF Kind[c] = "tailor" THEN "done" ELSE "publish"]
  /\ UNCHANGED <<resume, held, last, tries, doomed, picked>>

\* The insert of the next number, which the unique constraint lets through.
Insert(c) ==
  /\ pc[c] = "insert"
  /\ ~Taken(last[c] + 1)
  /\ rows' = rows \cup {Row(c)}
  /\ pc' = [pc EXCEPT ![c] = IF Kind[c] = "tailor" THEN "done" ELSE "publish"]
  /\ UNCHANGED <<resume, held, last, tries, doomed, picked>>

\* An exception of the snapshot: an update swallows it and goes on.
Throw(c) == IF Kind[c] = "update" THEN "apply" ELSE "failed"

\* Slip: the number is not read again before the retry.
InsertConflict_NoReread(c) ==
  /\ pc[c] = "insert"
  /\ Taken(last[c] + 1)
  /\ tries' = [tries EXCEPT ![c] = @ + 1]
  /\ pc' = [pc EXCEPT ![c] = IF tries'[c] < MaxRetries THEN "insert" ELSE Throw(c)]
  /\ UNCHANGED <<resume, rows, held, last, doomed, picked>>

\* P2002: read again and retry, until the budget is spent.
InsertConflict(c) ==
  /\ pc[c] = "insert"
  /\ Taken(last[c] + 1)
  /\ tries' = [tries EXCEPT ![c] = @ + 1]
  /\ pc' = [pc EXCEPT ![c] = IF tries'[c] < MaxRetries THEN "read" ELSE Throw(c)]
  /\ UNCHANGED <<resume, rows, held, last, doomed, picked>>

\* publishVersionCreatedAsync, whose handlers write an audit row and the like.
Publish(c) ==
  /\ pc[c] = "publish"
  /\ pc' = [pc EXCEPT ![c] = "list"]
  /\ UNCHANGED <<resume, rows, held, last, tries, doomed, picked>>

\* Slip: the slice begins one row early.
ListOld_OffByOne(c) ==
  /\ pc[c] = "list"
  /\ doomed' = [doomed EXCEPT ![c] =
       {r.by : r \in {x \in rows : Cardinality(Newer(x.num)) >= MaxVersions - 1}}]
  /\ pc' = [pc EXCEPT ![c] = IF doomed'[c] = {} THEN AfterSnapshot(c) ELSE "delete"]
  /\ UNCHANGED <<resume, rows, held, last, tries, picked>>

\* Slip: only the oldest row goes.
ListOld_OldestOnly(c) ==
  /\ pc[c] = "list"
  /\ doomed' = [doomed EXCEPT ![c] =
       {r.by : r \in {x \in Tail : \A y \in rows : x.num <= y.num}}]
  /\ pc' = [pc EXCEPT ![c] = IF doomed'[c] = {} THEN AfterSnapshot(c) ELSE "delete"]
  /\ UNCHANGED <<resume, rows, held, last, tries, picked>>

\* cleanupOldVersions reads the ids ...
ListOld(c) ==
  /\ pc[c] = "list"
  /\ doomed' = [doomed EXCEPT ![c] = {r.by : r \in Tail}]
  /\ pc' = [pc EXCEPT ![c] = IF doomed'[c] = {} THEN AfterSnapshot(c) ELSE "delete"]
  /\ UNCHANGED <<resume, rows, held, last, tries, picked>>

\* ... and deletes those that were beyond the cap.
DeleteOld(c) ==
  /\ pc[c] = "delete"
  /\ rows' = {r \in rows : r.by \notin doomed[c]}
  /\ pc' = [pc EXCEPT ![c] = AfterSnapshot(c)]
  /\ UNCHANGED <<resume, held, last, tries, doomed, picked>>

\* updateResumeForUser writes the fields it was given.
ApplyUpdate(c) ==
  /\ pc[c] = "apply"
  /\ Kind[c] = "update"
  /\ \E v \in Values : resume' = [resume EXCEPT !["fields"] = v]
  /\ pc' = [pc EXCEPT ![c] = "done"]
  /\ UNCHANGED <<rows, held, last, tries, doomed, picked>>

\* extractResumeData keeps the mutable fields the snapshot has; the rest of the
\* resume, its sections included, stays as it is.
ExtractResumeData(s) == [p \in DOMAIN s \cap {"fields"} |-> s[p]]

ApplyRestore(c) ==
  /\ pc[c] = "apply"
  /\ Kind[c] = "restore"
  /\ LET data == ExtractResumeData(picked[c]) IN
       resume' = [p \in Parts |-> IF p \in DOMAIN data THEN data[p] ELSE resume[p]]
  /\ pc' = [pc EXCEPT ![c] = "done"]
  /\ UNCHANGED <<rows, held, last, tries, doomed, picked>>

\* The database or a handler of the event fails.
SnapshotError(c) ==
  /\ pc[c] \in {"read", "insert", "publish", "list", "delete"}
  /\ pc' = [pc EXCEPT ![c] = Throw(c)]
  /\ UNCHANGED <<resume, rows, held, last, tries, doomed, picked>>

\* The write of the resume fails, or the process dies.
Abandon(c) ==
  /\ pc[c] \notin {"todo", "done", "failed"}
  /\ pc' = [pc EXCEPT ![c] = "failed"]
  /\ UNCHANGED <<resume, rows, held, last, tries, doomed, picked>>

\* The sections are edited item by item; no snapshot is taken of that.
EditSections(v) ==
  /\ resume' = [resume EXCEPT !["sections"] = v]
  /\ UNCHANGED <<rows, pc, held, last, tries, doomed, picked>>

Step(c) ==
  \/ StartSnapshot(c) \/ StartRestore(c) \/ StartTailor(c)
  \/ ReadLast(c) \/ Insert(c) \/ InsertConflict(c)
  \/ Publish(c) \/ ListOld(c) \/ DeleteOld(c)
  \/ ApplyUpdate(c) \/ ApplyRestore(c)

Fault(c) == SnapshotError(c) \/ Abandon(c)

Next ==
  \/ \E c \in Calls : Step(c) \/ Fault(c)
  \/ \E v \in Values : EditSections(v)

Spec == Init /\ [][Next]_vars

-----------------------------------------------------------------------------
\* Until a cleanup has found something beyond the cap the numbers are 1, 2, 3,
\* ..., whatever races were lost on the way (the integration test's expectation).
Sequential ==
  (\A c \in Calls : doomed[c] = {}) => {r.num : r \in rows} = 1..Cardinality(rows)

\* Ten retries are enough for ten concurrent calls: every lost race is another
\* call's insert.
BudgetSuffices ==
  Cardinality(Calls) <= MaxRetries => \A c \in Calls : tries[c] < MaxRetries

\* A cleanup that acts on the ids it read before, while others insert and
\* clean up, still never deletes one of the newest MaxVersions rows.
KeepsNewest ==
  [][\A r \in rows \ rows' : Cardinality(Newer(r.num)) >= MaxVersions]_vars

\* The calls that have come to the end of their cleanup.  (A tailored variant
\* runs none, and an update goes on when its snapshot fails.)
CleanedUp == {c \in Calls : Kind[c] \in {"snapshot", "restore"} /\ pc[c] \in {"apply", "done"}}

\* "Caps the trailing history at MAX_VERSIONS": however the cleanups of several
\* snapshots interleave, those that have ended leave no more than MaxVersions
\* of their rows.
Capped == Cardinality({r \in rows : r.by \in CleanedUp}) <= MaxVersions

\* "Roll a resume back to one of its persisted versions": after the restore
\* the resume's sections are those of the version.
RestoreRollsBack ==
  [][\A c \in Calls :
       /\ pc[c] = "apply" /\ Kind[c] = "restore" /\ pc'[c] = "done"
       /\ "sections" \in DOMAIN picked[c]
       => resume'["sections"] = picked[c]["sections"]]_vars
=============================================================================

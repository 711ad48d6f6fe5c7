----------------------------- MODULE ImportJob -----------------------------
(***************************************************************************)
(* One import job of a resume: the request that created it and processes   *)
(* it, requests that retry it, requests that cancel it, and the user who   *)
(* deletes what it made.  Every status is an update of its own; a row that *)
(* was cancelled is gone, and every later update of it throws.             *)
(*                                                                         *)
(* A request makes at most one resume, which is named after it.            *)
(***************************************************************************)
EXTENDS FiniteSets

CONSTANTS
  Requests,    \* the creating request and the retries
  Creator,     \* the one that created the job
  Cancellers,  \* cancelling requests
  NoResume,    \* the row's resumeId is null
  Gone,        \* the row is deleted
  Faults       \* what may go wrong

FaultKinds == {"db", "crash"}

\* rawData: missing, of a shape the parser throws on, without a name, or good.
DataKinds == {"none", "unparsable", "unnamed", "good"}

Running == {"PENDING", "PROCESSING", "MAPPING", "VALIDATING", "IMPORTING"}
Statuses == Running \cup {"COMPLETED", "FAILED"}

Rows == [status : Statuses, resume : Requests \cup {NoResume}]

ASSUME ImportAssumption ==
  /\ Creator \in Requests
  /\ NoResume \notin Requests
  /\ Gone \notin Rows
  /\ Faults \subseteq FaultKinds

VARIABLES
  data,       \* what is imported; never changes
  row,        \* the row of the job
  resumes,    \* the resumes made from it that exist
  made,       \* history: the resumes ever made from it
  pc,         \* where each request is; a status is the update it makes next
  cancel,     \* where each cancelling request is
  overlapped, \* history: a retry was let in beside another request
  undone,     \* history: a resume was made and the job did not complete
  abandoned   \* history: a request ended without closing the row

vars == <<data, row, resumes, made, pc, cancel, overlapped, undone, abandoned>>
history == <<overlapped, undone, abandoned>>

TypeOK ==
  /\ data \in DataKinds
  /\ row \in Rows \cup {Gone}
  /\ made \in SUBSET Requests
  /\ resumes \in SUBSET made
  /\ pc \in [Requests -> Statuses \cup {"new", "find", "reject", "create", "done"}]
  /\ cancel \in [Cancellers -> {"new", "delete", "done"}]
  /\ overlapped \in BOOLEAN /\ undone \in BOOLEAN /\ abandoned \in BOOLEAN

\* The job has been created by the route, which now calls ProcessImport.
Init ==
  /\ data \in DataKinds
  /\ row = [status |-> "PENDING", resume |-> NoResume]
  /\ resumes = {}
  /\ made = {}
  /\ pc = [p \in Requests |-> IF p = Creator THEN "find" ELSE "new"]
  /\ cancel = [c \in Cancellers |-> "new"]
  /\ overlapped = FALSE
  /\ undone = FALSE
  /\ abandoned = FALSE

AtWork(p) == pc[p] \notin {"new", "done"}

-----------------------------------------------------------------------------
(* RetryImport and ProcessImport. *)

\* Slip: whatever has not been cancelled may be retried.
Retry_Unchecked(p) ==
  /\ pc[p] = "new"
  /\ pc' = [pc EXCEPT ![p] = IF row # Gone THEN "PENDING" ELSE "done"]
  /\ overlapped' = (overlapped \/ (row # Gone /\ \E q \in Requests : AtWork(q)))
  /\ UNCHANGED <<data, row, resumes, made, cancel, undone, abandoned>>

\* The job is looked up; only a failed one may be retried.
Retry(p) ==
  /\ pc[p] = "new"
  /\ LET failed == row # Gone /\ row.status = "FAILED" IN
       /\ pc' = [pc EXCEPT ![p] = IF failed THEN "PENDING" ELSE "done"]
       /\ overlapped' = (overlapped \/ (failed /\ \E q \in Requests : AtWork(q)))
  /\ UNCHANGED <<data, row, resumes, made, cancel, undone, abandoned>>

\* ProcessImport looks the job up (again).
Find(p) ==
  /\ pc[p] = "find"
  /\ pc' = [pc EXCEPT ![p] = IF row = Gone THEN "done" ELSE "PROCESSING"]
  /\ UNCHANGED <<data, row, resumes, made, cancel, history>>

\* What comes after the update that a request has made.
After(s) ==
  CASE s = "PENDING"    -> "find"
    [] s = "PROCESSING" -> IF data = "none" THEN "reject" ELSE "MAPPING"
    [] s = "MAPPING"    -> IF data = "unparsable" THEN "FAILED" ELSE "VALIDATING"
    [] s = "VALIDATING" -> IF data = "unnamed" THEN "reject" ELSE "IMPORTING"
    [] s = "IMPORTING"  -> "create"
    [] OTHER            -> "done"

Updating(p) == pc[p] \in Statuses \cup {"reject"}

\* Slip: the row may name a resume that was deleted meanwhile.
Update_NoForeignKey(p) ==
  /\ Updating(p)
  /\ row # Gone
  /\ row' = [status |-> IF pc[p] = "reject" THEN "FAILED" ELSE pc[p],
             resume |-> IF pc[p] = "COMPLETED" THEN p ELSE row.resume]
  /\ pc' = [pc EXCEPT ![p] = After(pc[p])]
  /\ UNCHANGED <<data, resumes, made, cancel, history>>

\* Slip: the row keeps its status when the import is refused.
Update_Unclosed(p) ==
  /\ Updating(p)
  /\ row # Gone
  /\ pc[p] = "COMPLETED" => p \in resumes
  /\ row' = [status |-> IF pc[p] = "reject" THEN row.status ELSE pc[p],
             resume |-> IF pc[p] = "COMPLETED" THEN p ELSE row.resume]
  /\ pc' = [pc EXCEPT ![p] = After(pc[p])]
  /\ UNCHANGED <<data, resumes, made, cancel, history>>

\* updateStatus.  COMPLETED also links the row to the resume, which must exist.
Update(p) ==
  /\ Updating(p)
  /\ row # Gone
  /\ pc[p] = "COMPLETED" => p \in resumes
  /\ row' = [status |-> IF pc[p] = "reject" THEN "FAILED" ELSE pc[p],
             resume |-> IF pc[p] = "COMPLETED" THEN p ELSE row.resume]
  /\ pc' = [pc EXCEPT ![p] = After(pc[p])]
  /\ UNCHANGED <<data, resumes, made, cancel, history>>

\* Slip: no catch block.
UpdateError_Thrown(p) ==
  /\ Updating(p)
  /\ row = Gone \/ "db" \in Faults \/ (pc[p] = "COMPLETED" /\ p \notin resumes)
  /\ pc' = [pc EXCEPT ![p] = "done"]
  /\ undone' = (undone \/ (pc[p] = "COMPLETED" /\ p \in resumes))
  /\ abandoned' = (abandoned \/ pc[p] = "FAILED")
  /\ UNCHANGED <<data, row, resumes, made, cancel, overlapped>>

\* updateStatus throws.  The catch block marks the job FAILED; when that throws
\* too, or the retry has not got as far as ProcessImport, the request ends.
UpdateError(p) ==
  /\ Updating(p)
  /\ row = Gone \/ "db" \in Faults \/ (pc[p] = "COMPLETED" /\ p \notin resumes)
  /\ pc' = [pc EXCEPT ![p] = IF @ \in {"PENDING", "FAILED"} THEN "done" ELSE "FAILED"]
  /\ undone' = (undone \/ (pc[p] = "COMPLETED" /\ p \in resumes))
  /\ abandoned' = (abandoned \/ pc[p] = "FAILED")
  /\ UNCHANGED <<data, row, resumes, made, cancel, overlapped>>

\* Slip: the resume is created apart from its link to the job.
CreateResume_Unlinked(p) ==
  /\ pc[p] = "create"
  /\ resumes' = resumes \cup {p}
  /\ made' = made \cup {p}
  /\ row' = IF row = Gone THEN Gone ELSE [row EXCEPT !.resume = p]
  /\ pc' = [pc EXCEPT ![p] = "COMPLETED"]
  /\ UNCHANGED <<data, cancel, history>>

\* The resume is created and the row linked to it, both or neither.
CreateResume(p) ==
  /\ pc[p] = "create"
  /\ row # Gone
  /\ resumes' = resumes \cup {p}
  /\ made' = made \cup {p}
  /\ row' = [row EXCEPT !.resume = p]
  /\ pc' = [pc EXCEPT ![p] = "COMPLETED"]
  /\ UNCHANGED <<data, cancel, history>>

\* There is no row to link to, or the database fails.
CreateError(p) ==
  /\ pc[p] = "create"
  /\ row = Gone \/ "db" \in Faults
  /\ pc' = [pc EXCEPT ![p] = "FAILED"]
  /\ UNCHANGED <<data, row, resumes, made, cancel, history>>

Crash(p) ==
  /\ AtWork(p)
  /\ "crash" \in Faults
  /\ pc' = [pc EXCEPT ![p] = "done"]
  /\ abandoned' = TRUE
  /\ UNCHANGED <<data, row, resumes, made, cancel, overlapped, undone>>

-----------------------------------------------------------------------------
(* CancelImport, and the deletion of a resume. *)

CancelCheck(c) ==
  /\ cancel[c] = "new"
  /\ cancel' = [cancel EXCEPT ![c] = IF row = Gone \/ row.status = "COMPLETED"
                                       THEN "done" ELSE "delete"]
  /\ UNCHANGED <<data, row, resumes, made, pc, history>>

\* Deleting what is gone throws, and changes nothing.
CancelDelete(c) ==
  /\ cancel[c] = "delete"
  /\ row' = Gone
  /\ cancel' = [cancel EXCEPT ![c] = "done"]
  /\ UNCHANGED <<data, resumes, made, pc, history>>

\* onDelete: SetNull.
DeleteResume(r) ==
  /\ r \in resumes
  /\ resumes' = resumes \ {r}
  /\ row' = IF row # Gone /\ row.resume = r THEN [row EXCEPT !.resume = NoResume] ELSE row
  /\ UNCHANGED <<data, made, pc, cancel, history>>

-----------------------------------------------------------------------------
Process(p) ==
  Find(p) \/ Update(p) \/ UpdateError(p) \/ CreateResume(p) \/ CreateError(p)

Next ==
  \/ \E p \in Requests : Retry(p) \/ Process(p) \/ Crash(p)
  \/ \E c \in Cancellers : CancelCheck(c) \/ CancelDelete(c)
  \/ \E r \in Requests : DeleteResume(r)

Spec == Init /\ [][Next]_vars

\* A request that runs goes on.
FairSpec == Spec /\ \A p \in Requests : WF_vars(Process(p))

-----------------------------------------------------------------------------
\* From the moment the job is cancelled it makes no resume, wherever its requests
\* are: they find out when they link the resume to it.
NothingAfterCancel == [][row = Gone => made' = made]_vars

\* The row never names a resume that does not exist, and a completed job names one,
\* unless one that it made was deleted: whoever deletes, cancels and retries beside it.
CompletedNamesResume ==
  row # Gone =>
    /\ row.resume \in resumes \cup {NoResume}
    /\ row.status = "COMPLETED" /\ row.resume = NoResume => made # resumes

\* One import, one resume, through failures, retries, crashes and cancels: unless
\* two retries were let in side by side, or the update to COMPLETED was refused
\* after the resume was made.  These two ways are open in the code.
OneResume == ~overlapped /\ ~undone => \A a, b \in resumes : a = b

\* While the job says that it is under way, a request is at work on it, unless one
\* died, or could not write that it had failed.  Nothing closes such a job later:
\* it cannot be retried.
RunningIsProcessed ==
  row # Gone /\ row.status \in Running /\ ~abandoned => \E p \in Requests : AtWork(p)

\* Every import comes to its end: completed, failed or cancelled, unless abandoned.
ImportEnds ==
  (row # Gone /\ row.status \in Running) ~>
    (row = Gone \/ row.status \notin Running \/ abandoned)
=============================================================================

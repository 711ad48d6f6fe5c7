------------------------- MODULE QueuedRuns_proofs -------------------------
(***************************************************************************)
(* The two components in which a queued job brings a row to its end: the   *)
(* import, for any number of retries and cancels, and, below, the weekly   *)
(* batch. They share nothing but this file.                                *)
(***************************************************************************)
EXTENDS ImportJob, WeeklyBatch, TLAPS

\* What follows an update is a place in the code.
LEMMA AfterType == \A s \in Statuses \cup {"reject"} :
                     After(s) \in Statuses \cup {"find", "reject", "create", "done"}
  BY DEF After, Statuses, Running

LEMMA TypeStep == TypeOK /\ [Next]_vars => TypeOK'
<1> SUFFICES ASSUME TypeOK, [Next]_vars PROVE TypeOK'
  OBVIOUS
<1> USE ImportAssumption DEF TypeOK, history
<1>1. ASSUME NEW p \in Requests, Retry(p) PROVE TypeOK'
  BY <1>1 DEF Retry, AtWork, Statuses, Running
<1>2. ASSUME NEW p \in Requests, Find(p) PROVE TypeOK'
  BY <1>2 DEF Find, Statuses, Running
<1>3. ASSUME NEW p \in Requests, Update(p) PROVE TypeOK'
  <2>1. pc[p] \in Statuses \cup {"reject"}
    BY <1>3 DEF Update, Updating
  <2>2. row' \in Rows
    BY <1>3, <2>1 DEF Update, Rows, Statuses, Running
  <2>3. After(pc[p]) \in Statuses \cup {"find", "reject", "create", "done"}
    BY <2>1, AfterType
  <2> QED
    BY <1>3, <2>2, <2>3 DEF Update
<1>4. ASSUME NEW p \in Requests, UpdateError(p) PROVE TypeOK'
  BY <1>4 DEF UpdateError, Updating, Statuses, Running
<1>5. ASSUME NEW p \in Requests, CreateResume(p) PROVE TypeOK'
  <2>1. row' \in Rows
    BY <1>5 DEF CreateResume, Rows
  <2> QED
    BY <1>5, <2>1 DEF CreateResume, Statuses, Running
<1>6. ASSUME NEW p \in Requests, CreateError(p) PROVE TypeOK'
  BY <1>6 DEF CreateError, Statuses, Running
<1>7. ASSUME NEW p \in Requests, Crash(p) PROVE TypeOK'
  BY <1>7 DEF Crash, Statuses, Running
<1>8. ASSUME NEW c \in Cancellers, CancelCheck(c) \/ CancelDelete(c) PROVE TypeOK'
  BY <1>8 DEF CancelCheck, CancelDelete
<1>9. ASSUME NEW r \in Requests, DeleteResume(r) PROVE TypeOK'
  <2>1. row' \in Rows \cup {Gone}
    BY <1>9 DEF DeleteResume, Rows
  <2> QED
    BY <1>9, <2>1 DEF DeleteResume
<1>10. CASE UNCHANGED vars
  BY <1>10 DEF vars
<1> QED
  BY <1>1, <1>2, <1>3, <1>4, <1>5, <1>6, <1>7, <1>8, <1>9, <1>10 DEF Next, Process

\* Every variable keeps its type, for any requests: the row, when there is one, has a
\* status of the enum, and what exists was made.
THEOREM TypeCorrect == Spec => []TypeOK
<1>1. Init => TypeOK
  <2> SUFFICES ASSUME Init PROVE TypeOK
    OBVIOUS
  <2>1. row \in Rows
    BY DEF Init, Rows, Statuses, Running
  <2>2. pc \in [Requests -> Statuses \cup {"new", "find", "reject", "create", "done"}]
    BY DEF Init
  <2>3. cancel \in [Cancellers -> {"new", "delete", "done"}]
    BY DEF Init
  <2> QED
    BY <2>1, <2>2, <2>3 DEF Init, TypeOK
<1> QED
  BY <1>1, TypeStep, PTL DEF Spec

-----------------------------------------------------------------------------
\* A cancelled job makes no resume.
THEOREM CancelIsFinal == Spec => NothingAfterCancel
<1>1. ASSUME [Next]_vars PROVE [row = Gone => made' = made]_vars
  BY <1>1 DEF Next, Process, vars, history, Retry, Find, Update, UpdateError, CreateResume,
    CreateError, Crash, CancelCheck, CancelDelete, DeleteResume
<1> QED
  BY <1>1, PTL DEF Spec, NothingAfterCancel

-----------------------------------------------------------------------------
\* The row's link and the resumes agree, whoever deletes either.
THEOREM CompletedIsLinked == Spec => []CompletedNamesResume
<1>1. Init => CompletedNamesResume
  BY DEF Init, CompletedNamesResume
<1>2. TypeOK /\ CompletedNamesResume /\ [Next]_vars => CompletedNamesResume'
  <2> SUFFICES ASSUME TypeOK, CompletedNamesResume, [Next]_vars
               PROVE CompletedNamesResume'
    OBVIOUS
  <2> USE ImportAssumption DEF CompletedNamesResume, history
  <2>1. ASSUME NEW p \in Requests, Update(p) PROVE CompletedNamesResume'
    BY <2>1 DEF Update, Updating
  <2>2. ASSUME NEW p \in Requests, CreateResume(p) PROVE CompletedNamesResume'
    BY <2>2 DEF CreateResume, TypeOK, Rows
  <2>3. ASSUME NEW r \in Requests, DeleteResume(r) PROVE CompletedNamesResume'
    BY <2>3 DEF DeleteResume, TypeOK, Rows
  <2>4. ASSUME NEW c \in Cancellers, CancelDelete(c) PROVE CompletedNamesResume'
    BY <2>4 DEF CancelDelete
  <2>5. CASE UNCHANGED <<row, resumes, made>>
    BY <2>5
  <2> QED
    BY <2>1, <2>2, <2>3, <2>4, <2>5 DEF Next, Process, vars, Retry, Find, UpdateError,
      CreateError, Crash, CancelCheck
<1> QED
  BY <1>1, <1>2, TypeCorrect, PTL DEF Spec

-----------------------------------------------------------------------------
\* Requests that were let in one after the other are at work one at a time.
Alone == ~overlapped => \A p, q \in Requests : AtWork(p) /\ AtWork(q) => p = q

\* Nobody else moves the status of a job whose resume is being made.
Importing ==
  ~overlapped => \A p \in Requests :
    pc[p] = "create" => row = Gone \/ row.status = "IMPORTING"

\* Once there is a resume, the job cannot fail any more: whoever is at work made it
\* and is about to say so.
MadeOnce ==
  ~overlapped /\ ~undone =>
    /\ resumes # {} => row = Gone \/ row.status # "FAILED"
    /\ \A p \in Requests : AtWork(p) => resumes = {} \/ (pc[p] = "COMPLETED" /\ resumes = {p})
    /\ OneResume

OneInv == Alone /\ Importing /\ MadeOnce

\* One import makes one resume, unless retries overlap or the last update is refused.
THEOREM OnePerImport == Spec => []OneResume
<1>1. Init => OneInv
  <2> SUFFICES ASSUME Init PROVE OneInv
    OBVIOUS
  <2>1. \A p \in Requests : AtWork(p) => p = Creator
    BY DEF Init, AtWork
  <2>2. \A p \in Requests : pc[p] # "create"
    BY DEF Init
  <2>3. resumes = {}
    BY DEF Init
  <2> QED
    BY <2>1, <2>2, <2>3 DEF OneInv, Alone, Importing, MadeOnce, OneResume
<1>2. TypeOK /\ OneInv /\ [Next]_vars => OneInv'
  <2> SUFFICES ASSUME TypeOK, OneInv, [Next]_vars PROVE OneInv'
    OBVIOUS
  <2> USE ImportAssumption DEF OneInv, Alone, Importing, MadeOnce, OneResume, AtWork, history
  <2>1. ASSUME NEW p \in Requests, Retry(p) PROVE OneInv'
    <3>1. CASE row # Gone /\ row.status = "FAILED"
      <4> SUFFICES ASSUME ~overlapped' PROVE OneInv'
        OBVIOUS
      <4>1. ~overlapped /\ \A q \in Requests : ~AtWork(q)
        BY <2>1, <3>1 DEF Retry
      <4>2. pc' = [pc EXCEPT ![p] = "PENDING"] /\ UNCHANGED <<row, resumes, undone>>
        BY <2>1, <3>1 DEF Retry
      <4>3. \A q \in Requests \ {p} : ~AtWork(q)'
        BY <4>1, <4>2 DEF TypeOK
      <4> QED
        BY <3>1, <4>1, <4>2, <4>3 DEF TypeOK
    <3>2. CASE ~(row # Gone /\ row.status = "FAILED")
      <4>1. pc' = [pc EXCEPT ![p] = "done"] /\ UNCHANGED <<row, resumes, undone>>
        BY <2>1, <3>2 DEF Retry
      <4>2. ~overlapped' => ~overlapped
        BY <2>1 DEF Retry
      <4> QED
        BY <4>1, <4>2 DEF TypeOK
    <3> QED
      BY <3>1, <3>2
  <2>2. ASSUME NEW p \in Requests, Find(p) PROVE OneInv'
    BY <2>2 DEF Find, TypeOK
  <2>3. ASSUME NEW p \in Requests, Update(p) PROVE OneInv'
    <3>1. pc[p] \in Statuses \cup {"reject"} /\ AtWork(p)
      BY <2>3 DEF Update, Updating, Statuses, Running
    <3>2. /\ pc' = [pc EXCEPT ![p] = After(pc[p])]
          /\ UNCHANGED <<resumes, overlapped, undone>>
      BY <2>3 DEF Update
    <3>3. Alone'
      BY <3>1, <3>2 DEF TypeOK
    <3>4. Importing'
      <4>1. After(pc[p]) = "create" => pc[p] = "IMPORTING"
        BY <3>1 DEF After, Statuses, Running
      <4>2. pc[p] = "IMPORTING" => row'.status = "IMPORTING"
        BY <2>3 DEF Update
      <4> QED
        BY <3>1, <3>2, <4>1, <4>2 DEF TypeOK
    <3>5. MadeOnce'
      <4> SUFFICES ASSUME ~overlapped, ~undone PROVE MadeOnce'
        BY <3>2
      <4>1. resumes = {} \/ (pc[p] = "COMPLETED" /\ resumes = {p})
        BY <3>1
      <4>2. pc[p] = "COMPLETED" => row'.status = "COMPLETED" /\ After(pc[p]) = "done"
        BY <2>3 DEF Update, After
      <4>3. \A q \in Requests \ {p} : ~AtWork(q)'
        BY <3>1, <3>2 DEF TypeOK
      <4>4. pc'[p] = After(pc[p])
        BY <3>2 DEF TypeOK
      <4>5. CASE resumes = {}
        BY <4>5, <4>2, <3>2 DEF TypeOK
      <4>6. CASE pc[p] = "COMPLETED" /\ resumes = {p}
        BY <4>6, <4>2, <4>3, <4>4, <3>2
      <4> QED
        BY <4>1, <4>5, <4>6
    <3> QED
      BY <3>3, <3>4, <3>5
  <2>4. ASSUME NEW p \in Requests, UpdateError(p) PROVE OneInv'
    <3>1. pc[p] \in Statuses \cup {"reject"} /\ AtWork(p)
      BY <2>4 DEF UpdateError, Updating, Statuses, Running
    <3> QED
      BY <2>4, <3>1 DEF UpdateError, TypeOK
  <2>5. ASSUME NEW p \in Requests, CreateResume(p) PROVE OneInv'
    <3>1. row # Gone /\ row \in Rows /\ pc[p] = "create" /\ row'.status = row.status
      BY <2>5 DEF CreateResume, TypeOK, Rows
    <3>2. Alone' /\ Importing'
      BY <2>5, <3>1 DEF CreateResume, TypeOK
    <3>3. MadeOnce'
      BY <2>5, <3>1 DEF CreateResume, TypeOK
    <3> QED
      BY <3>2, <3>3
  <2>6. ASSUME NEW p \in Requests, CreateError(p) PROVE OneInv'
    BY <2>6 DEF CreateError, TypeOK
  <2>7. ASSUME NEW p \in Requests, Crash(p) PROVE OneInv'
    BY <2>7 DEF Crash, TypeOK
  <2>8. ASSUME NEW c \in Cancellers, CancelCheck(c) \/ CancelDelete(c) PROVE OneInv'
    BY <2>8 DEF CancelCheck, CancelDelete
  <2>9. ASSUME NEW r \in Requests, DeleteResume(r) PROVE OneInv'
    <3>1. row' = Gone <=> row = Gone
      BY <2>9 DEF DeleteResume, TypeOK, Rows
    <3>2. row # Gone => row'.status = row.status
      BY <2>9 DEF DeleteResume, TypeOK, Rows
    <3>3. Alone' /\ Importing'
      BY <2>9, <3>1, <3>2 DEF DeleteResume
    <3>4. MadeOnce'
      BY <2>9, <3>1, <3>2 DEF DeleteResume
    <3> QED
      BY <3>3, <3>4
  <2>10. CASE UNCHANGED vars
    BY <2>10 DEF vars
  <2> QED
    BY <2>1, <2>2, <2>3, <2>4, <2>5, <2>6, <2>7, <2>8, <2>9, <2>10 DEF Next, Process
<1>3. OneInv => OneResume
  BY DEF OneInv, MadeOnce, OneResume
<1> QED
  BY <1>1, <1>2, <1>3, TypeCorrect, PTL DEF Spec

-----------------------------------------------------------------------------
\* The request at work is past the point where a refused retry ends without a trace.
Processing ==
  row # Gone /\ row.status \in Running /\ ~abandoned =>
    \E p \in Requests : AtWork(p) /\ pc[p] # "PENDING"

\* A job that says it is under way is, unless a request died or could not say otherwise.
THEOREM RunningHasRequest == Spec => []RunningIsProcessed
<1>1. Init => Processing
  BY ImportAssumption DEF Init, Processing, AtWork
<1>2. TypeOK /\ Processing /\ [Next]_vars => Processing'
  <2> SUFFICES ASSUME TypeOK, Processing, [Next]_vars PROVE Processing'
    OBVIOUS
  <2> USE ImportAssumption DEF Processing, AtWork, history
  <2>1. ASSUME NEW p \in Requests, Retry(p) PROVE Processing'
    BY <2>1 DEF Retry, TypeOK
  <2>2. ASSUME NEW p \in Requests, Find(p) PROVE Processing'
    BY <2>2 DEF Find, TypeOK
  <2>3. ASSUME NEW p \in Requests, Update(p) PROVE Processing'
    <3>1. pc[p] \in Statuses \cup {"reject"} /\ pc'[p] = After(pc[p])
      BY <2>3 DEF Update, Updating, TypeOK
    <3>2. CASE pc[p] \in Running
      <4>1. After(pc[p]) \notin {"new", "done", "PENDING"}
        BY <3>2 DEF After, Running
      <4> QED
        BY <4>1, <3>1
    <3>3. CASE pc[p] \notin Running
      BY <2>3, <3>1, <3>3 DEF Update, Statuses, Running
    <3> QED
      BY <3>2, <3>3
  <2>4. ASSUME NEW p \in Requests, UpdateError(p) PROVE Processing'
    BY <2>4 DEF UpdateError, Updating, TypeOK, Statuses, Running
  <2>5. ASSUME NEW p \in Requests, CreateResume(p) PROVE Processing'
    BY <2>5 DEF CreateResume, TypeOK, Rows
  <2>6. ASSUME NEW p \in Requests, CreateError(p) PROVE Processing'
    BY <2>6 DEF CreateError, TypeOK
  <2>7. ASSUME NEW p \in Requests, Crash(p) PROVE Processing'
    BY <2>7 DEF Crash
  <2>8. ASSUME NEW c \in Cancellers, CancelCheck(c) \/ CancelDelete(c) PROVE Processing'
    BY <2>8 DEF CancelCheck, CancelDelete
  <2>9. ASSUME NEW r \in Requests, DeleteResume(r) PROVE Processing'
    BY <2>9 DEF DeleteResume, TypeOK, Rows
  <2>10. CASE UNCHANGED vars
    BY <2>10 DEF vars
  <2> QED
    BY <2>1, <2>2, <2>3, <2>4, <2>5, <2>6, <2>7, <2>8, <2>9, <2>10 DEF Next, Process
<1>3. Processing => RunningIsProcessed
  BY DEF Processing, RunningIsProcessed
<1> QED
  BY <1>1, <1>2, <1>3, TypeCorrect, PTL DEF Spec

-----------------------------------------------------------------------------
(***************************************************************************)
(* Proofs about WeeklyBatch, for any number of queue jobs, approvals, jobs *)
(* and attempts.                                                           *)
(*                                                                         *)
(* DigestIsBatch needs where the stored batch comes from (StoredFirst);    *)
(* OneDigest, that a run which may still mail has mailed nothing           *)
(* (MailedAndMarked); DecisionsAgree, that who approves does so with an    *)
(* item of the batch (ApprovesItem).                                       *)
(***************************************************************************)

\* A queue job that is not over has an attempt left.
AttemptLeft == \A w \in Workers : step[w] # "done" => tries[w] < MaxAttempts

\* As long as no two jobs met and none forgot its mail: one is under way at a time, before
\* the mail nobody has one, and after it the batch says so or the job is about to.
MailedAndMarked ==
  /\ \A v, w \in UnderWay : v = w
  /\ \A w \in Workers : step[w] \in {"select", "upsert", "mail", "failed"} => digests = 0
  /\ digests > 0 =>
       batch \in {"SENT", "FAILED"} \/ \E w \in Workers : step[w] \in {"sent", "unsent"}
  /\ digests <= 1

\* Before the batch is stored there is nothing else; an attempt that stored it mails it.
StoredFirst ==
  /\ batch = "none" => Items = {} /\ mailed = {} /\ approved = {}
  /\ batch = "none" => \A w \in Workers : step[w] # "mail"
  /\ reused \/ \A w \in Workers : step[w] = "mail" => picks[w] \subseteq Items
  /\ reused \/ mailed \subseteq Items

\* An approval is about an item, and decides on one that has an application.
ApprovesItem ==
  \A a \in Approvals :
    /\ step[a] \in {"create", "decide"} => at[a] \in Items
    /\ step[a] = "decide" => at[a] \in applied

BatchTypes == BatchTypeOK /\ AttemptLeft

-----------------------------------------------------------------------------
\* A step of a queue job leaves the approvals and the other queue jobs alone.
LEMMA WorkLeaves ==
  ASSUME BatchTypes, NEW w \in Workers, WorkStep(w)
  PROVE  /\ UNCHANGED <<linked, applied, approved, undecided, at>>
         /\ DOMAIN step' = Calls
         /\ \A c \in Calls \ {w} : step'[c] = step[c]
         /\ picks' \in [Workers -> SUBSET Jobs]
         /\ \A v \in Workers \ {w} : picks'[v] = picks[v] /\ tries'[v] = tries[v]
<1> USE DEF BatchTypes, BatchTypeOK, Calls, itemVars, workVars, Goto, Leave
<1>1. UNCHANGED <<linked, applied, approved, undecided, at>>
  BY DEF WorkStep, FindBatch, Select, Upsert, Mail, MailError, Mark, MarkError, Fail
<1>2. DOMAIN step' = Calls /\ \A c \in Calls \ {w} : step'[c] = step[c]
  BY DEF WorkStep, FindBatch, Select, Upsert, Mail, MailError, Mark, MarkError, Fail
<1>3. picks' \in [Workers -> SUBSET Jobs] /\ \A v \in Workers \ {w} : picks'[v] = picks[v]
  BY DEF WorkStep, FindBatch, Select, Upsert, Mail, MailError, Mark, MarkError, Fail
<1>4. \A v \in Workers \ {w} : tries'[v] = tries[v]
  BY DEF WorkStep, FindBatch, Select, Upsert, Mail, MailError, Mark, MarkError, Fail
<1> QED
  BY <1>1, <1>2, <1>3, <1>4

LEMMA WorkTypes ==
  ASSUME BatchTypes, NEW w \in Workers, WorkStep(w)
  PROVE  BatchTypes'
<1> USE WeeklyBatchAssumption DEF BatchTypes, BatchTypeOK, AttemptLeft, Calls, WorkSteps
<1>1. step'[w] \in WorkSteps \cup {"waiting", "done"}
  BY DEF WorkStep, FindBatch, Select, Upsert, Mail, MailError, Mark, MarkError, Fail, Goto, Leave
<1>2. \A v \in Workers : step'[v] \in WorkSteps \cup {"waiting", "done"}
  BY <1>1, WorkLeaves
<1>3. \A a \in Approvals : step'[a] \in {"idle", "create", "decide"}
  BY WorkLeaves
<1>4. /\ batch' \in {"none", "PENDING", "SENT", "FAILED"}
      /\ items' \in [Jobs -> {"none", "PENDING_APPROVAL", "APPROVED", "REJECTED"}]
      /\ mailed' \subseteq Jobs /\ digests' \in Nat
  BY DEF WorkStep, FindBatch, Select, Upsert, Mail, MailError, Mark, MarkError, Fail, itemVars,
    batchVars
<1>5. together' \in BOOLEAN /\ unmarked' \in BOOLEAN /\ reused' \in BOOLEAN /\ dropped' \in BOOLEAN
  <2>1. CASE FindBatch(w)
    BY <2>1 DEF FindBatch
  <2>2. CASE Select(w)
    BY <2>2 DEF Select
  <2>3. CASE Upsert(w)
    BY <2>3 DEF Upsert
  <2>4. CASE Mail(w) \/ MailError(w) \/ Mark(w) \/ MarkError(w)
    BY <2>4 DEF Mail, MailError, Mark, MarkError, batchVars
  <2>5. CASE Fail(w)
    BY <2>5 DEF Fail
  <2> QED
    BY <2>1, <2>2, <2>3, <2>4, <2>5 DEF WorkStep
<1>6. tries' \in [Workers -> 0 .. MaxAttempts] /\ AttemptLeft'
  <2>1. CASE Fail(w)
    <3>1. step[w] # "done" /\ tries[w] \in Nat /\ tries[w] < MaxAttempts
      BY <2>1 DEF Fail
    <3>2. tries[w] + 1 \in 0 .. MaxAttempts
      BY <3>1
    <3>3. tries' = [tries EXCEPT ![w] = tries[w] + 1]
      BY <2>1 DEF Fail
    <3>4. step'[w] # "done" => tries[w] + 1 < MaxAttempts
      BY <2>1, <3>1 DEF Fail, Leave, Goto
    <3> QED
      BY <3>2, <3>3, <3>4, WorkLeaves
  <2>2. CASE ~Fail(w)
    <3>1. UNCHANGED tries /\ step[w] # "done"
      BY <2>2 DEF WorkStep, FindBatch, Select, Upsert, Mail, MailError, Mark, MarkError, workVars
    <3> QED
      BY <3>1, WorkLeaves
  <2> QED
    BY <2>1, <2>2
<1> QED
  BY <1>2, <1>3, <1>4, <1>5, <1>6, WorkLeaves

\* An approval leaves the batch and the queue jobs alone.
LEMMA ApproveLeaves ==
  ASSUME BatchTypes, NEW a \in Approvals, ApproveStep(a)
  PROVE  /\ UNCHANGED <<batch, mailed, digests, together, unmarked, reused, dropped, picks, tries>>
         /\ DOMAIN step' = Calls
         /\ \A c \in Calls \ {a} : step'[c] = step[c]
         /\ \A b \in Approvals \ {a} : at'[b] = at[b]
<1> USE DEF BatchTypes, BatchTypeOK, Calls, batchVars, workVars, Goto, Return
<1>1. UNCHANGED <<batch, mailed, digests, together, unmarked, reused, dropped, picks, tries>>
  BY DEF ApproveStep, Look, Create, Decide, ApproveError
<1>2. DOMAIN step' = Calls /\ \A c \in Calls \ {a} : step'[c] = step[c]
  BY DEF ApproveStep, Look, Create, Decide, ApproveError
<1>3. \A b \in Approvals \ {a} : at'[b] = at[b]
  BY DEF ApproveStep, Look, Create, Decide, ApproveError
<1> QED
  BY <1>1, <1>2, <1>3

LEMMA ApproveTypes ==
  ASSUME BatchTypes, ApprovesItem, NEW a \in Approvals, ApproveStep(a)
  PROVE  BatchTypes'
<1> USE WeeklyBatchAssumption DEF BatchTypes, BatchTypeOK, AttemptLeft, Calls, Items
<1>1. step'[a] \in {"idle", "create", "decide"}
  BY DEF ApproveStep, Look, Create, Decide, ApproveError, Goto, Return
<1>2. \A w \in Workers : step'[w] = step[w]
  BY ApproveLeaves
<1>3. \A b \in Approvals : step'[b] \in {"idle", "create", "decide"}
  BY <1>1, ApproveLeaves
<1>4. /\ items' \in [Jobs -> {"none", "PENDING_APPROVAL", "APPROVED", "REJECTED"}]
      /\ linked' \subseteq Jobs /\ applied' \subseteq Jobs /\ approved' \subseteq Jobs
      /\ undecided' \subseteq Jobs
  BY DEF ApproveStep, Look, Create, Decide, ApproveError, itemVars, ApprovesItem
<1>5. at' \in [Approvals -> Jobs \cup {None}]
  BY DEF ApproveStep, Look, Create, Decide, ApproveError, Return
<1> QED
  BY <1>2, <1>3, <1>4, <1>5, ApproveLeaves

LEMMA OthersType == BatchTypes /\ (Reject \/ ApplyElsewhere \/ UNCHANGED weeklyVars) => BatchTypes'
<1> SUFFICES ASSUME BatchTypes, Reject \/ ApplyElsewhere \/ UNCHANGED weeklyVars
             PROVE  BatchTypes'
  OBVIOUS
<1>1. /\ items' \in [Jobs -> {"none", "PENDING_APPROVAL", "APPROVED", "REJECTED"}]
      /\ applied' \subseteq Jobs
  BY DEF Reject, ApplyElsewhere, weeklyVars, itemVars, BatchTypes, BatchTypeOK
<1>2. UNCHANGED <<batch, linked, mailed, digests, step, picks, at, tries, approved, undecided,
                  together, unmarked, reused, dropped>>
  BY DEF Reject, ApplyElsewhere, weeklyVars, batchVars, itemVars, workVars
<1> QED
  BY <1>1, <1>2 DEF BatchTypes, BatchTypeOK, AttemptLeft

-----------------------------------------------------------------------------
BatchInv == BatchTypes /\ StoredFirst /\ ApprovesItem

LEMMA BatchInvInit == BatchInit => BatchInv
<1> SUFFICES ASSUME BatchInit PROVE BatchInv
  OBVIOUS
<1> USE WeeklyBatchAssumption DEF BatchInit
<1>1. BatchTypeOK
  <2>1. /\ DOMAIN step = Calls
        /\ \A w \in Workers : step[w] = "waiting"
        /\ \A a \in Approvals : step[a] = "idle"
    BY DEF Calls
  <2>2. tries \in [Workers -> 0 .. MaxAttempts]
    OBVIOUS
  <2> QED
    BY <2>1, <2>2 DEF BatchTypeOK
<1>2. AttemptLeft
  BY DEF AttemptLeft
<1>3. \A c \in Calls : step[c] \in {"waiting", "idle"}
  OBVIOUS
<1>4. StoredFirst
  BY <1>3 DEF StoredFirst, Items, Calls
<1>5. ApprovesItem
  BY <1>3 DEF ApprovesItem, Calls
<1> QED
  BY <1>1, <1>2, <1>4, <1>5 DEF BatchInv, BatchTypes

\* An item that there is stays, whatever is decided about it; and an application too.
LEMMA ItemsStay ==
  ASSUME BatchInv, [BatchNext]_weeklyVars
  PROVE  Items \subseteq Items' /\ applied \subseteq applied'
<1> USE DEF BatchInv, BatchTypes, BatchTypeOK
<1>1. ASSUME NEW w \in Workers, WorkStep(w) PROVE Items \subseteq Items' /\ applied \subseteq applied'
  <2>1. UNCHANGED applied
    BY <1>1, WorkLeaves
  <2>2. CASE UNCHANGED items
    BY <2>1, <2>2 DEF Items
  <2>3. CASE batch = "none"
    BY <2>1, <2>3 DEF StoredFirst
  <2> QED
    BY <1>1, <2>2, <2>3 DEF WorkStep, FindBatch, Select, Upsert, Mail, MailError, Mark, MarkError, Fail,
      itemVars
<1>2. ASSUME NEW a \in Approvals, ApproveStep(a)
      PROVE  Items \subseteq Items' /\ applied \subseteq applied'
  BY <1>2 DEF ApproveStep, Look, Create, Decide, ApproveError, itemVars, Items
<1>3. CASE Reject \/ ApplyElsewhere \/ UNCHANGED weeklyVars
  BY <1>3 DEF Reject, ApplyElsewhere, weeklyVars, itemVars, Items
<1> QED
  BY <1>1, <1>2, <1>3 DEF BatchNext

LEMMA WorkStores ==
  ASSUME BatchInv, NEW w \in Workers, WorkStep(w), Items \subseteq Items'
  PROVE  StoredFirst'
<1> USE DEF BatchInv, BatchTypes, BatchTypeOK, StoredFirst
<1>1. \A v \in Workers \ {w} : step'[v] = step[v] /\ picks'[v] = picks[v]
  BY WorkLeaves DEF Calls
<1>2. UNCHANGED approved
  BY WorkLeaves
<1>3. CASE Upsert(w) /\ batch = "none"
  <2>1. /\ batch' = "PENDING" /\ UNCHANGED <<mailed, picks>> /\ mailed = {}
        /\ items' = [j \in Jobs |-> IF j \in picks[w] THEN "PENDING_APPROVAL" ELSE "none"]
    BY <1>3 DEF Upsert, workVars
  <2>2. picks'[w] \subseteq Items'
    BY <2>1 DEF Items
  <2>3. \A v \in Workers : step'[v] = "mail" => v = w
    BY <1>1, <1>3
  <2> QED
    BY <2>1, <2>2, <2>3
<1>4. CASE Upsert(w) /\ batch # "none"
  <2>1. reused' /\ UNCHANGED batch
    BY <1>4 DEF Upsert
  <2> QED
    BY <1>4, <2>1
<1>5. CASE Mail(w) \/ MailError(w)
  <2>1. /\ step[w] = "mail" /\ step'[w] # "mail" /\ batch # "none"
        /\ mailed' \in {mailed, mailed \cup picks[w]}
        /\ UNCHANGED <<batch, reused>>
    BY <1>5 DEF Mail, MailError, Goto, Calls
  <2>2. reused \/ mailed' \subseteq Items'
    BY <2>1
  <2>3. reused \/ \A v \in Workers : step'[v] = "mail" => picks'[v] \subseteq Items'
    BY <1>1, <2>1
  <2> QED
    BY <2>1, <2>2, <2>3
<1>6. CASE ~Upsert(w) /\ ~Mail(w) /\ ~MailError(w)
  <2>1. /\ step'[w] # "mail" /\ UNCHANGED <<mailed, items, reused>>
        /\ batch' = "none" => batch = "none"
    BY <1>6 DEF WorkStep, FindBatch, Select, Mark, MarkError, Fail, Goto, Leave, batchVars,
      itemVars, Calls
  <2> QED
    BY <1>1, <1>2, <2>1 DEF Items
<1> QED
  BY <1>3, <1>4, <1>5, <1>6

LEMMA StoredStep == BatchInv /\ [BatchNext]_weeklyVars => StoredFirst'
<1> SUFFICES ASSUME BatchInv, [BatchNext]_weeklyVars PROVE StoredFirst'
  OBVIOUS
<1>0. Items \subseteq Items'
  BY ItemsStay
<1>1. ASSUME NEW a \in Approvals, ApproveStep(a) PROVE StoredFirst'
  <2>1. UNCHANGED <<batch, mailed, reused, picks>> /\ \A w \in Workers : step'[w] = step[w]
    BY <1>1, ApproveLeaves, WeeklyBatchAssumption DEF BatchInv, Calls
  <2>2. batch = "none" => Items' = {} /\ approved' = {}
    <3> SUFFICES ASSUME batch = "none" PROVE Items' = {} /\ approved' = {}
      OBVIOUS
    <3>1. Items = {} /\ approved = {} /\ step[a] = "idle"
      BY DEF BatchInv, BatchTypes, BatchTypeOK, StoredFirst, ApprovesItem
    <3>2. FALSE
      BY <1>1, <3>1 DEF ApproveStep, Look, Create, Decide, ApproveError
    <3> QED
      BY <3>2
  <2> QED
    BY <1>0, <2>1, <2>2 DEF BatchInv, StoredFirst
<1>2. CASE Reject \/ ApplyElsewhere \/ UNCHANGED weeklyVars
  <2>1. UNCHANGED <<batch, mailed, approved, step, picks, reused>>
    BY <1>2 DEF Reject, ApplyElsewhere, weeklyVars, batchVars, itemVars, workVars
  <2>2. Items = {} => Items' = {}
    BY <1>2 DEF Reject, ApplyElsewhere, weeklyVars, itemVars, Items
  <2> QED
    BY <1>0, <2>1, <2>2 DEF BatchInv, StoredFirst
<1> QED
  BY <1>0, <1>1, <1>2, WorkStores DEF BatchNext

LEMMA ApprovesStep == BatchInv /\ [BatchNext]_weeklyVars => ApprovesItem'
<1> SUFFICES ASSUME BatchInv, [BatchNext]_weeklyVars PROVE ApprovesItem'
  OBVIOUS
<1>0. Items \subseteq Items' /\ applied \subseteq applied'
  BY ItemsStay
<1>1. CASE \A a \in Approvals : step'[a] = step[a] /\ at'[a] = at[a]
  BY <1>0, <1>1 DEF BatchInv, ApprovesItem
<1>2. ASSUME NEW a \in Approvals, ApproveStep(a) PROVE ApprovesItem'
  <2>1. \A b \in Approvals \ {a} : step'[b] = step[b] /\ at'[b] = at[b]
    BY <1>2, ApproveLeaves DEF BatchInv, Calls
  <2>2. CASE Look(a)
    <3>1. step'[a] \in {"create", "decide"} /\ at'[a] \in Items /\ (step'[a] = "decide" => at'[a] \in applied)
      BY <2>2 DEF Look, Goto, BatchInv, BatchTypes, BatchTypeOK, Calls
    <3> QED
      BY <1>0, <2>1, <3>1 DEF BatchInv, ApprovesItem
  <2>3. CASE Create(a) /\ at[a] \notin applied
    <3>1. step[a] = "create" /\ at'[a] = at[a] /\ at[a] \in applied'
      BY <2>3 DEF Create
    <3> QED
      BY <1>0, <2>1, <3>1 DEF BatchInv, ApprovesItem
  <2>4. CASE (Create(a) /\ at[a] \in applied) \/ Decide(a) \/ ApproveError(a)
    <3>1. step'[a] = "idle"
      BY <2>4 DEF Create, Decide, ApproveError, Return, Goto, BatchInv, BatchTypes, BatchTypeOK, Calls
    <3> QED
      BY <1>0, <2>1, <3>1 DEF BatchInv, ApprovesItem
  <2> QED
    BY <1>2, <2>2, <2>3, <2>4 DEF ApproveStep
<1>3. ASSUME NEW w \in Workers, WorkStep(w) PROVE ApprovesItem'
  BY <1>1, <1>3, WorkLeaves, WeeklyBatchAssumption DEF BatchInv, Calls
<1>4. CASE Reject \/ ApplyElsewhere \/ UNCHANGED weeklyVars
  BY <1>1, <1>4 DEF Reject, ApplyElsewhere, weeklyVars
<1> QED
  BY <1>2, <1>3, <1>4 DEF BatchNext

LEMMA BatchInvStep == BatchInv /\ [BatchNext]_weeklyVars => BatchInv'
<1> SUFFICES ASSUME BatchInv, [BatchNext]_weeklyVars PROVE BatchTypes'
  BY StoredStep, ApprovesStep DEF BatchInv
<1> QED
  BY WorkTypes, ApproveTypes, OthersType DEF BatchInv, BatchNext

LEMMA BatchInvAlways == BatchSpec => []BatchInv
BY BatchInvInit, BatchInvStep, PTL DEF BatchSpec

\* Every variable keeps its type, for any number of queue jobs, approvals and attempts.
THEOREM BatchTypeCorrect == BatchSpec => []BatchTypeOK
<1>1. BatchInv => BatchTypeOK
  BY DEF BatchInv, BatchTypes
<1> QED
  BY <1>1, BatchInvAlways, PTL

\* However many queue jobs of one user there are, a digest lists what can be approved,
\* unless an attempt found the batch stored.
THEOREM DigestIsAlwaysBatch == BatchSpec => []DigestIsBatch
<1>1. BatchInv => DigestIsBatch
  BY DEF BatchInv, StoredFirst, DigestIsBatch
<1> QED
  BY <1>1, BatchInvAlways, PTL

-----------------------------------------------------------------------------
LEMMA MailedInit == BatchInit => MailedAndMarked
<1> SUFFICES ASSUME BatchInit PROVE MailedAndMarked
  OBVIOUS
<1>1. digests = 0 /\ \A w \in Workers : step[w] = "waiting"
  BY DEF BatchInit, Calls
<1> QED
  BY <1>1 DEF MailedAndMarked, UnderWay, WorkSteps

LEMMA WorkMails ==
  ASSUME BatchTypes, together \/ unmarked \/ MailedAndMarked, NEW w \in Workers, WorkStep(w)
  PROVE  together' \/ unmarked' \/ MailedAndMarked'
<1> USE DEF BatchTypes, BatchTypeOK, UnderWay, WorkSteps
<1> SUFFICES ASSUME ~together', ~unmarked' PROVE MailedAndMarked'
  OBVIOUS
<1>1. ~together /\ ~unmarked
  BY DEF WorkStep, FindBatch, Select, Upsert, Mail, MailError, Mark, MarkError, Fail, batchVars
<1>2. MailedAndMarked
  BY <1>1
<1>3. \A v \in Workers \ {w} : step'[v] = step[v]
  BY WorkLeaves DEF Calls
<1>4. CASE FindBatch(w)
  <2>1. UNCHANGED <<batch, digests>>
    BY <1>4 DEF FindBatch
  <2>2. CASE step'[w] = "select"
    <3>1. batch \in {"none", "PENDING"} /\ UnderWay = {}
      BY <1>4, <2>2 DEF FindBatch, Goto, Calls
    <3>2. digests = 0
      BY <1>2, <3>1 DEF MailedAndMarked
    <3> QED
      BY <1>3, <2>1, <2>2, <3>1, <3>2 DEF MailedAndMarked
  <2>3. CASE step'[w] = "done"
    BY <1>2, <1>3, <1>4, <2>1, <2>3 DEF MailedAndMarked, FindBatch
  <2> QED
    BY <1>4, <2>2, <2>3 DEF FindBatch, Goto, Calls
\* Whoever makes another step is the one under way.
<1>5. CASE ~FindBatch(w)
  <2>1. step[w] \in WorkSteps /\ \A v \in Workers \ {w} : step'[v] \notin WorkSteps
    BY <1>2, <1>3, <1>5 DEF WorkStep, Select, Upsert, Mail, MailError, Mark, MarkError, Fail,
      MailedAndMarked
  <2>2. CASE Select(w) \/ Upsert(w)
    <3>1. digests' = 0
      BY <1>2, <2>2 DEF Select, Upsert, MailedAndMarked
    <3> QED
      BY <2>1, <3>1 DEF MailedAndMarked
  <2>3. CASE Mail(w) \/ MailError(w)
    <3>1. \/ digests' = 0 /\ step'[w] \in {"sent", "failed"}
          \/ digests' = 1 /\ step'[w] \in {"sent", "unsent"}
      BY <1>2, <2>3 DEF Mail, MailError, MailedAndMarked, Goto, Calls
    <3> QED
      BY <2>1, <3>1 DEF MailedAndMarked
  <2>4. CASE Mark(w)
    <3>1. digests' = digests /\ batch' \in {"SENT", "FAILED"} /\ step'[w] = "done"
      BY <2>4 DEF Mark, Leave, Goto, Calls
    <3> QED
      BY <1>2, <2>1, <3>1 DEF MailedAndMarked
  <2>5. CASE MarkError(w)
    <3>1. digests' = digests /\ step'[w] = "unsent"
      BY <2>5 DEF MarkError, Goto, Calls, batchVars
    <3> QED
      BY <1>2, <2>1, <3>1 DEF MailedAndMarked
  <2>6. CASE Fail(w)
    <3>1. step[w] \in {"select", "upsert", "mail", "failed"}
      BY <2>6 DEF Fail
    <3>2. digests' = 0 /\ step'[w] \in {"waiting", "done"}
      BY <1>2, <2>6, <3>1 DEF Fail, Leave, Goto, Calls, MailedAndMarked
    <3> QED
      BY <2>1, <3>2 DEF MailedAndMarked
  <2> QED
    BY <1>5, <2>2, <2>3, <2>4, <2>5, <2>6 DEF WorkStep
<1> QED
  BY <1>4, <1>5

LEMMA MailedStep ==
  BatchInv /\ (together \/ unmarked \/ MailedAndMarked) /\ [BatchNext]_weeklyVars
    => together' \/ unmarked' \/ MailedAndMarked'
<1> SUFFICES ASSUME BatchInv, together \/ unmarked \/ MailedAndMarked, [BatchNext]_weeklyVars
             PROVE  together' \/ unmarked' \/ MailedAndMarked'
  OBVIOUS
<1>1. CASE /\ UNCHANGED <<batch, digests, together, unmarked>>
           /\ \A w \in Workers : step'[w] = step[w]
  BY <1>1 DEF MailedAndMarked, UnderWay
<1>2. ASSUME NEW a \in Approvals, ApproveStep(a)
      PROVE  together' \/ unmarked' \/ MailedAndMarked'
  BY <1>1, <1>2, ApproveLeaves, WeeklyBatchAssumption DEF BatchInv, Calls
<1>3. CASE Reject \/ ApplyElsewhere \/ UNCHANGED weeklyVars
  BY <1>1, <1>3 DEF Reject, ApplyElsewhere, weeklyVars, batchVars
<1> QED
  BY <1>2, <1>3, WorkMails DEF BatchInv, BatchNext

LEMMA MailedAlways == BatchSpec => [](together \/ unmarked \/ MailedAndMarked)
BY MailedInit, MailedStep, BatchInvAlways, PTL DEF BatchSpec

\* A user gets at most one digest a week, however many queue jobs and attempts there are,
\* unless two jobs met or an attempt forgot that it had mailed.
THEOREM AtMostOneDigest == BatchSpec => []OneDigest
<1>1. together \/ unmarked \/ MailedAndMarked => OneDigest
  BY DEF MailedAndMarked, OneDigest
<1> QED
  BY <1>1, MailedAlways, PTL

-----------------------------------------------------------------------------
LEMMA DecidesInit == BatchInit => DecisionsAgree
BY DEF BatchInit, DecisionsAgree

LEMMA ApproveDecides ==
  ASSUME BatchInv, DecisionsAgree, NEW a \in Approvals, ApproveStep(a)
  PROVE  DecisionsAgree'
<1> USE DEF BatchInv, BatchTypes, BatchTypeOK
<1>1. \A b \in Approvals \ {a} : step'[b] = step[b] /\ at'[b] = at[b]
  BY ApproveLeaves DEF Calls
<1>2. CASE Look(a)
  <2>1. UNCHANGED <<items, applied, linked, approved, undecided>> /\ step[a] # "decide"
    BY <1>2 DEF Look, itemVars
  <2> QED
    BY <1>1, <2>1 DEF DecisionsAgree
<1>3. CASE Create(a) /\ at[a] \in applied
  <2>1. UNCHANGED <<items, applied, linked, approved, undecided>> /\ step[a] # "decide"
    BY <1>3 DEF Create
  <2> QED
    BY <1>1, <2>1 DEF DecisionsAgree
<1>4. CASE Create(a) /\ at[a] \notin applied
  <2>1. /\ UNCHANGED <<items, linked, undecided, at>>
        /\ applied' = applied \cup {at[a]} /\ approved' = approved \cup {at[a]}
        /\ step[a] # "decide" /\ step'[a] = "decide"
    BY <1>4 DEF Create, Goto, Calls
  <2> QED
    BY <1>1, <2>1 DEF DecisionsAgree
<1>5. CASE Decide(a)
  <2>1. /\ items' = [items EXCEPT ![at[a]] = "APPROVED"] /\ linked' = linked \cup {at[a]}
        /\ undecided' = undecided \ {at[a]} /\ UNCHANGED <<applied, approved>>
        /\ at[a] \in Jobs /\ at[a] \in applied
    BY <1>5 DEF Decide, ApprovesItem, Items
  <2> QED
    BY <1>1, <2>1 DEF DecisionsAgree
<1>6. CASE ApproveError(a)
  <2>1. UNCHANGED <<items, linked, applied, approved>> /\ undecided \subseteq undecided'
    BY <1>6 DEF ApproveError
  <2>2. step[a] = "decide" /\ at[a] \in approved => at[a] \in undecided'
    BY <1>6 DEF ApproveError
  <2> QED
    BY <1>1, <2>1, <2>2 DEF DecisionsAgree
<1> QED
  BY <1>2, <1>3, <1>4, <1>5, <1>6 DEF ApproveStep

LEMMA DecidesStep == BatchInv /\ DecisionsAgree /\ [BatchNext]_weeklyVars => DecisionsAgree'
<1> SUFFICES ASSUME BatchInv, DecisionsAgree, [BatchNext]_weeklyVars PROVE DecisionsAgree'
  OBVIOUS
<1> USE DEF BatchInv, BatchTypes, BatchTypeOK
<1>1. ASSUME NEW w \in Workers, WorkStep(w) PROVE DecisionsAgree'
  <2>1. UNCHANGED <<linked, applied, approved, undecided, at>> /\ \A a \in Approvals : step'[a] = step[a]
    BY <1>1, WorkLeaves, WeeklyBatchAssumption DEF Calls
  <2>2. CASE UNCHANGED items
    BY <2>1, <2>2 DEF DecisionsAgree
  <2>3. CASE Upsert(w) /\ batch = "none"
    <3>1. \A j \in Jobs : items'[j] # "APPROVED" /\ j \notin approved
      BY <2>3 DEF Upsert, StoredFirst
    <3> QED
      BY <2>1, <3>1 DEF DecisionsAgree
  <2> QED
    BY <1>1, <2>2, <2>3 DEF WorkStep, FindBatch, Select, Upsert, Mail, MailError, Mark, MarkError, Fail,
      itemVars
<1>2. CASE Reject
  <2>1. UNCHANGED <<linked, applied, approved, undecided, at, step>>
        /\ \A j \in Jobs : items'[j] # "REJECTED" => items'[j] = items[j]
    BY <1>2 DEF Reject
  <2> QED
    BY <2>1 DEF DecisionsAgree
<1>3. CASE ApplyElsewhere \/ UNCHANGED weeklyVars
  <2>1. UNCHANGED <<items, linked, approved, undecided, at, step>> /\ applied \subseteq applied'
    BY <1>3 DEF ApplyElsewhere, weeklyVars, itemVars
  <2> QED
    BY <2>1 DEF DecisionsAgree
<1> QED
  BY <1>1, <1>2, <1>3, ApproveDecides DEF BatchNext

\* Items and applications agree, however many approvals, rejections and applications from
\* elsewhere meet.
THEOREM DecisionsAlwaysAgree == BatchSpec => []DecisionsAgree
BY DecidesInit, DecidesStep, BatchInvAlways, PTL DEF BatchSpec
=============================================================================

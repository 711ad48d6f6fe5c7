----------------------------- MODULE WeeklyBatch -----------------------------
(***************************************************************************)
(* The weekly curated batch of one user, in one week: the queue jobs that  *)
(* pick the jobs, store the batch and mail the digest, and the user who    *)
(* approves and rejects its items, while others apply to the same jobs.    *)
(*                                                                         *)
(* The batch's row is unique, and its status is all that tells a queue job *)
(* that another attempt, or another job of the same user, has been there.  *)
(***************************************************************************)
EXTENDS Naturals, FiniteSets

CONSTANTS
  Jobs,         \* the postings that match
  Workers,      \* `run-for-user' jobs of the queue, for the same user
  Approvals,    \* calls of ApproveCuratedItemUseCase
  BatchSize,    \* how many postings are picked
  MaxAttempts,  \* DEFAULT_JOB_OPTIONS.attempts
  None,         \* no posting
  BatchFaults   \* what may go wrong

BatchFaultKinds == {"db", "mail", "crash"}
Calls == Workers \cup Approvals

ASSUME WeeklyBatchAssumption ==
  /\ Workers \cap Approvals = {}
  /\ None \notin Jobs
  /\ BatchSize \in Nat
  /\ MaxAttempts \in Nat \ {0}
  /\ BatchFaults \subseteq BatchFaultKinds

VARIABLES
  batch,       \* the status of the week's batch, if there is one
  items,       \* the status of the item of each posting, if there is one
  linked,      \* the items that have an applicationId
  applied,     \* the postings that have an application of the user
  mailed,      \* the postings that the user has had a digest about
  digests,     \* how many digests the user has had
  step,        \* where each call is
  picks,       \* what a queue job has selected
  at,          \* the posting of the item that an approval is about
  tries,       \* attempts of each queue job
  approved,    \* history: the applications that an approval submitted
  undecided,   \* history: those whose item could not be updated
  together,    \* history: two queue jobs were at it at once
  unmarked,    \* history: an attempt that had mailed ended without writing it down
  reused,      \* history: an attempt has found the batch stored already
  dropped      \* history: a queue job ended with the batch still to be sent

batchVars == <<batch, mailed, digests, together, unmarked, reused, dropped>>
itemVars == <<items, linked, applied, approved, undecided>>
workVars == <<picks, tries>>
weeklyVars == <<batchVars, itemVars, workVars, step, at>>

WorkSteps == {"select", "upsert", "mail", "sent", "unsent", "failed"}

BatchInit ==
  /\ batch = "none"
  /\ items = [j \in Jobs |-> "none"]
  /\ linked = {}
  /\ applied = {}
  /\ mailed = {}
  /\ digests = 0
  /\ step = [c \in Calls |-> IF c \in Workers THEN "waiting" ELSE "idle"]
  /\ picks = [w \in Workers |-> {}]
  /\ at = [a \in Approvals |-> None]
  /\ tries = [w \in Workers |-> 0]
  /\ approved = {}
  /\ undecided = {}
  /\ together = FALSE
  /\ unmarked = FALSE
  /\ reused = FALSE
  /\ dropped = FALSE

Items == {j \in Jobs : items[j] # "none"}
UnderWay == {w \in Workers : step[w] \in WorkSteps}

Goto(c, where) == step' = [step EXCEPT ![c] = where]

-----------------------------------------------------------------------------
(* The queue job. *)

\* The attempt is over, and its local variables with it.
Leave(w, where) ==
  /\ Goto(w, where)
  /\ picks' = [picks EXCEPT ![w] = {}]

\* Slip: the status is not looked at.
FindBatch_Any(w) ==
  /\ step[w] = "waiting"
  /\ Goto(w, "select")
  /\ together' = (together \/ UnderWay # {})
  /\ UNCHANGED <<batch, mailed, digests, unmarked, reused, dropped, itemVars, workVars, at>>

\* "Idempotent: one batch per user per week."
FindBatch(w) ==
  /\ step[w] = "waiting"
  /\ Goto(w, IF batch \in {"none", "PENDING"} THEN "select" ELSE "done")
  /\ together' = (together \/ (batch \in {"none", "PENDING"} /\ UnderWay # {}))
  /\ UNCHANGED <<batch, mailed, digests, unmarked, reused, dropped, itemVars, workVars, at>>

\* CuratedSelectorService: among the postings without an application.  Without a pick
\* the job is over, and so is a batch that waits to be sent.
Select(w) ==
  /\ step[w] = "select"
  /\ \E set \in SUBSET (Jobs \ applied) :
       /\ Cardinality(set) <= BatchSize
       /\ picks' = [picks EXCEPT ![w] = set]
       /\ Goto(w, IF set = {} THEN "done" ELSE "upsert")
       /\ dropped' = (dropped \/ (set = {} /\ batch = "PENDING"))
  /\ UNCHANGED <<batch, mailed, digests, together, unmarked, reused, itemVars, tries, at>>

\* Slip: the items are left for later.
Upsert_NoItems(w) ==
  /\ step[w] = "upsert"
  /\ batch' = IF batch = "none" THEN "PENDING" ELSE batch
  /\ reused' = (reused \/ batch # "none")
  /\ Goto(w, "mail")
  /\ UNCHANGED <<mailed, digests, together, unmarked, dropped, itemVars, workVars, at>>

\* The batch with its items, unless it is there: "items pre-exist if this is a retry".
Upsert(w) ==
  /\ step[w] = "upsert"
  /\ IF batch = "none"
       THEN /\ batch' = "PENDING"
            /\ items' = [j \in Jobs |-> IF j \in picks[w] THEN "PENDING_APPROVAL" ELSE "none"]
            /\ UNCHANGED reused
       ELSE reused' = TRUE /\ UNCHANGED <<batch, items>>
  /\ Goto(w, "mail")
  /\ UNCHANGED <<mailed, digests, together, unmarked, dropped, linked, applied, approved,
                 undecided, workVars, at>>

\* Slip: a failed mail ends the job.
MailError_Silent(w) ==
  /\ step[w] = "mail"
  /\ "mail" \in BatchFaults
  /\ Leave(w, "done")
  /\ UNCHANGED <<batchVars, itemVars, tries, at>>

\* The digest lists what this attempt has picked; a user without an address gets none.
Mail(w) ==
  /\ step[w] = "mail"
  /\ \/ digests' = digests + 1 /\ mailed' = mailed \cup picks[w]
     \/ UNCHANGED <<digests, mailed>>
  /\ Goto(w, "sent")
  /\ UNCHANGED <<batch, together, unmarked, reused, dropped, itemVars, workVars, at>>

\* The transport throws; the mail may have gone out all the same, its reply lost.
MailError(w) ==
  /\ step[w] = "mail"
  /\ "mail" \in BatchFaults
  /\ \/ Goto(w, "failed") /\ UNCHANGED <<digests, mailed>>
     \/ Goto(w, "unsent") /\ digests' = digests + 1 /\ mailed' = mailed \cup picks[w]
  /\ UNCHANGED <<batch, together, unmarked, reused, dropped, itemVars, workVars, at>>

\* The outcome, SENT or FAILED, in the batch.
Mark(w) ==
  /\ \/ step[w] = "sent" /\ batch' = "SENT"
     \/ step[w] \in {"unsent", "failed"} /\ batch' = "FAILED"
  /\ Leave(w, "done")
  /\ UNCHANGED <<mailed, digests, together, unmarked, reused, dropped, itemVars, tries, at>>

\* SENT cannot be written: the same handler as for the mail, which writes FAILED.
MarkError(w) ==
  /\ step[w] = "sent"
  /\ "db" \in BatchFaults
  /\ Goto(w, "unsent")
  /\ UNCHANGED <<batchVars, itemVars, workVars, at>>

\* The attempt throws, or its pod dies; BullMQ runs the job again while it has attempts.
Fail(w) ==
  /\ \/ step[w] \in {"select", "upsert", "unsent", "failed"} /\ "db" \in BatchFaults
     \/ step[w] \in WorkSteps /\ "crash" \in BatchFaults
  /\ tries' = [tries EXCEPT ![w] = @ + 1]
  /\ Leave(w, IF tries[w] + 1 >= MaxAttempts THEN "done" ELSE "waiting")
  /\ unmarked' = (unmarked \/ step[w] \in {"sent", "unsent"})
  /\ dropped' = (dropped \/ (tries[w] + 1 >= MaxAttempts /\ batch = "PENDING"))
  /\ UNCHANGED <<batch, mailed, digests, together, reused, itemVars, at>>

WorkStep(w) ==
  FindBatch(w) \/ Select(w) \/ Upsert(w) \/ Mail(w) \/ MailError(w) \/ Mark(w) \/ MarkError(w) \/ Fail(w)

-----------------------------------------------------------------------------
(* The user. *)

Return(a) == Goto(a, "idle") /\ at' = [at EXCEPT ![a] = None]

\* Slip: an application that is there already is thought to mean an approval.
Look_Early(a) ==
  /\ step[a] = "idle"
  /\ \E j \in Items :
       /\ at' = [at EXCEPT ![a] = j]
       /\ Goto(a, IF items[j] = "PENDING_APPROVAL" THEN "decide" ELSE "create")
  /\ UNCHANGED <<batchVars, itemVars, workVars>>

\* An approval of any item, decided or not, looks for an application first.
Look(a) ==
  /\ step[a] = "idle"
  /\ \E j \in Items :
       /\ at' = [at EXCEPT ![a] = j]
       /\ Goto(a, IF j \in applied THEN "decide" ELSE "create")
  /\ UNCHANGED <<batchVars, itemVars, workVars>>

\* Slip: a new application is thought to be all there is to do.
Create_NoDecision(a) ==
  /\ step[a] = "create"
  /\ applied' = applied \cup {at[a]}
  /\ approved' = IF at[a] \in applied THEN approved ELSE approved \cup {at[a]}
  /\ Return(a)
  /\ UNCHANGED <<batchVars, items, linked, undecided, workVars>>

\* The application, unless the unique key refuses it, and then the call fails.
Create(a) ==
  /\ step[a] = "create"
  /\ IF at[a] \in applied
       THEN Return(a) /\ UNCHANGED <<applied, approved>>
       ELSE /\ applied' = applied \cup {at[a]}
            /\ approved' = approved \cup {at[a]}
            /\ Goto(a, "decide")
            /\ UNCHANGED at
  /\ UNCHANGED <<batchVars, items, linked, undecided, workVars>>

\* updateItemDecision.
Decide(a) ==
  /\ step[a] = "decide"
  /\ items' = [items EXCEPT ![at[a]] = "APPROVED"]
  /\ linked' = linked \cup {at[a]}
  /\ undecided' = undecided \ {at[a]}
  /\ Return(a)
  /\ UNCHANGED <<batchVars, applied, approved, workVars>>

\* The call fails, or its pod dies.
ApproveError(a) ==
  /\ step[a] \in {"create", "decide"}
  /\ BatchFaults \cap {"db", "crash"} # {}
  /\ undecided' = IF step[a] = "decide" /\ at[a] \in approved THEN undecided \cup {at[a]} ELSE undecided
  /\ Return(a)
  /\ UNCHANGED <<batchVars, items, linked, applied, approved, workVars>>

\* RejectCuratedItemUseCase, of any item as well.
Reject ==
  /\ \E j \in Items : items' = [items EXCEPT ![j] = "REJECTED"]
  /\ UNCHANGED <<batchVars, linked, applied, approved, undecided, workVars, step, at>>

\* The other ways to apply: the user's own, a rage run, an auto-apply job.
ApplyElsewhere ==
  /\ \E j \in Jobs : applied' = applied \cup {j}
  /\ UNCHANGED <<batchVars, items, linked, approved, undecided, workVars, step, at>>

ApproveStep(a) == Look(a) \/ Create(a) \/ Decide(a) \/ ApproveError(a)

BatchNext ==
  \/ \E w \in Workers : WorkStep(w)
  \/ \E a \in Approvals : ApproveStep(a)
  \/ Reject \/ ApplyElsewhere

BatchSpec == BatchInit /\ [][BatchNext]_weeklyVars

\* The queue runs what is in it.
FairBatchSpec == BatchSpec /\ \A w \in Workers : WF_weeklyVars(WorkStep(w))

-----------------------------------------------------------------------------
(* Properties. *)

BatchTypeOK ==
  /\ batch \in {"none", "PENDING", "SENT", "FAILED"}
  /\ items \in [Jobs -> {"none", "PENDING_APPROVAL", "APPROVED", "REJECTED"}]
  /\ linked \subseteq Jobs /\ applied \subseteq Jobs /\ mailed \subseteq Jobs
  /\ approved \subseteq Jobs /\ undecided \subseteq Jobs /\ digests \in Nat
  /\ DOMAIN step = Calls
  /\ \A w \in Workers : step[w] \in WorkSteps \cup {"waiting", "done"}
  /\ \A a \in Approvals : step[a] \in {"idle", "create", "decide"}
  /\ picks \in [Workers -> SUBSET Jobs] /\ at \in [Approvals -> Jobs \cup {None}]
  /\ tries \in [Workers -> 0 .. MaxAttempts]
  /\ together \in BOOLEAN /\ unmarked \in BOOLEAN /\ reused \in BOOLEAN /\ dropped \in BOOLEAN

\* The user gets one digest a week, unless two queue jobs were at it at once or an
\* attempt ended between the mail and its note in the batch.
OneDigest == digests <= 1 \/ together \/ unmarked

\* What a digest lists can be approved, unless an attempt found the batch stored
\* already: it lists what it has picked itself.
DigestIsBatch == mailed \subseteq Items \/ reused

\* An item and its application agree: an approved item has its application and says
\* so, and one whose application an approval has submitted is not left undecided,
\* unless the approval failed after it; then approving once more will mend it.
DecisionsAgree ==
  \A j \in Jobs :
    /\ items[j] = "APPROVED" => j \in applied \cap linked
    /\ j \in approved \ undecided /\ items[j] = "PENDING_APPROVAL" =>
         \E a \in Approvals : step[a] = "decide" /\ at[a] = j

\* A stored batch is sent or given up, unless a job used up its attempts or a retry
\* found nothing to pick: then the batch waits for ever.
BatchEnds == batch = "PENDING" ~> (batch \in {"SENT", "FAILED"} \/ dropped)
=============================================================================

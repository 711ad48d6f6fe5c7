----------------------------- MODULE MatchCache -----------------------------
(***************************************************************************)
(* The cached match of one resume with one job for one user: callers of    *)
(* ComputeMatch, who take it from the cache or compute it under a brief    *)
(* lock, and the two ways in which an edit invalidates it.  An edit of the *)
(* resume goes through a queue, under a fixed job id; an edit of the job   *)
(* deletes at once, and through another queue when that fails.             *)
(*                                                                         *)
(* A match is the editions it was computed from, the oldest where they     *)
(* were read more than once: of the resume, of the job, and of the fit,    *)
(* which stands for the vector of the user and the sliders of the job.     *)
(* The fit is the source nobody listens for: submitted answers and sliders *)
(* publish an event for the cache's sake, to which no invalidation         *)
(* subscribes, and the erasure of a vector publishes none.                 *)
(* Redis and BullMQ are external: a key expires; an add whose id exists is *)
(* dropped; a finished job is kept for a while.                            *)
(***************************************************************************)
EXTENDS Naturals

CONSTANTS
  Callers,     \* calls of ComputeMatch that may be under way at once
  MaxEdits,    \* bound: edits in all
  MaxAttempts, \* DEFAULT_JOB_OPTIONS.attempts
  None,        \* no match, no caller
  Faults       \* what may go wrong

FaultKinds == {"cache", "queue", "crash"}

Sources == {"resume", "job", "fit"}

\* The sources with an invalidation behind them.
Heard == {"resume", "job"}

Editions == [Sources -> Nat]

ASSUME MatchAssumption ==
  /\ MaxEdits \in Nat
  /\ MaxAttempts \in Nat \ {0}
  /\ None \notin Editions \cup Callers
  /\ Faults \subseteq FaultKinds

VARIABLES
  edition,  \* the sources as they are
  events,   \* how many events of each are still to be handled
  queue,    \* the job with id `match-invalidate:resume:<resume>'
  fallback, \* how many invalidations wait in the queue `cache-invalidation'
  cached,   \* the cached match
  lock,     \* who set the lock key, while it is there
  pc,       \* where each caller is
  read,     \* what each caller has read, while it is under way
  raced,    \* history: the cached match was old when cached, with no invalidation to come
  lost      \* history: an invalidation was dropped since it was cached

vars == <<edition, events, queue, fallback, cached, lock, pc, read, raced, lost>>
callVars == <<lock, pc, read>>

NothingRead == [s \in Sources |-> 0]
NoJob == [state |-> "none", tries |-> 0]

TypeOK ==
  /\ edition \in Editions
  /\ events \in [Heard -> Nat]
  /\ queue \in [state : {"none", "waiting", "active", "deleted", "completed", "failed"},
                tries : 0..MaxAttempts]
  /\ fallback \in Nat
  /\ cached \in Editions \cup {None}
  /\ lock \in Callers \cup {None}
  /\ pc \in [Callers -> {"idle", "get", "lock", "wait", "compute", "set", "release"}]
  /\ read \in [Callers -> Editions]
  /\ raced \in BOOLEAN /\ lost \in BOOLEAN

Init ==
  /\ edition = [s \in Sources |-> 0]
  /\ events = [s \in Heard |-> 0]
  /\ queue = NoJob
  /\ fallback = 0
  /\ cached = None
  /\ lock = None
  /\ pc = [x \in Callers |-> "idle"]
  /\ read = [x \in Callers |-> NothingRead]
  /\ raced = FALSE
  /\ lost = FALSE

\* An invalidation of what depends on a source is on its way.
Pending(s) ==
  \/ s \in Heard /\ events[s] > 0
  \/ s = "resume" /\ queue.state \in {"waiting", "active"}
  \/ s = "job" /\ fallback > 0

-----------------------------------------------------------------------------
(* Edits and their invalidations. *)

\* The key is gone, and with it what had gone wrong with its match.
Delete == cached' = None /\ raced' = FALSE /\ lost' = FALSE

Edits == edition["resume"] + edition["job"] + edition["fit"]

\* The row is written, then the event published, and handled later.
Edit(s) ==
  /\ Edits < MaxEdits
  /\ edition' = [edition EXCEPT ![s] = @ + 1]
  /\ events' = [events EXCEPT ![s] = @ + 1]
  /\ UNCHANGED <<queue, fallback, cached, callVars, raced, lost>>

\* The pod dies between the write and the event.
EditUnpublished(s) ==
  /\ "crash" \in Faults
  /\ Edits < MaxEdits
  /\ edition' = [edition EXCEPT ![s] = @ + 1]
  /\ lost' = TRUE
  /\ UNCHANGED <<events, queue, fallback, cached, callVars, raced>>

\* Answers are submitted, sliders set, or a vector erased.  UserFitProfileUpdated and
\* JobFitProfileUpdated, where they are published, reach no handler of the cache.
EditFit ==
  /\ Edits < MaxEdits
  /\ edition' = [edition EXCEPT !["fit"] = @ + 1]
  /\ UNCHANGED <<events, queue, fallback, cached, callVars, raced, lost>>

\* JobMatchRecomputeOnResumeUpdated: added, or dropped when the id exists.
OnResumeUpdated ==
  /\ events["resume"] > 0
  /\ events' = [events EXCEPT !["resume"] = @ - 1]
  /\ IF queue.state = "none"
       THEN queue' = [state |-> "waiting", tries |-> 0] /\ lost' = lost
       ELSE queue' = queue /\ lost' = (lost \/ queue.state \in {"deleted", "completed", "failed"})
  /\ UNCHANGED <<edition, fallback, cached, callVars, raced>>

\* The add fails; nobody waits for the handler's exception.
OnResumeUpdatedError ==
  /\ events["resume"] > 0
  /\ "queue" \in Faults
  /\ events' = [events EXCEPT !["resume"] = @ - 1]
  /\ lost' = TRUE
  /\ UNCHANGED <<edition, queue, fallback, cached, callVars, raced>>

\* InvalidateMatchCacheOnJobUpdated.
OnJobUpdated ==
  /\ events["job"] > 0
  /\ events' = [events EXCEPT !["job"] = @ - 1]
  /\ Delete
  /\ UNCHANGED <<edition, queue, fallback, callVars>>

\* Slip: the failed deletion is only logged.
OnJobUpdatedError_NoFallback ==
  /\ events["job"] > 0
  /\ "cache" \in Faults
  /\ events' = [events EXCEPT !["job"] = @ - 1]
  /\ UNCHANGED <<edition, queue, fallback, cached, callVars, raced, lost>>

\* The deletion fails and is handed to the other queue, which may refuse it too.
OnJobUpdatedError ==
  /\ events["job"] > 0
  /\ "cache" \in Faults
  /\ events' = [events EXCEPT !["job"] = @ - 1]
  /\ \/ fallback' = fallback + 1 /\ lost' = lost
     \/ "queue" \in Faults /\ lost' = TRUE /\ fallback' = fallback
  /\ UNCHANGED <<edition, queue, cached, callVars, raced>>

\* The other queue's worker, and the end of its retries.
ApplyFallback ==
  /\ fallback > 0
  /\ fallback' = fallback - 1
  /\ \/ Delete
     \/ "cache" \in Faults /\ lost' = TRUE /\ UNCHANGED <<cached, raced>>
  /\ UNCHANGED <<edition, events, queue, callVars>>

PickUp ==
  /\ queue.state = "waiting"
  /\ queue' = [queue EXCEPT !.state = "active"]
  /\ UNCHANGED <<edition, events, fallback, cached, callVars, raced, lost>>

\* JobMatchRecomputeWorker deletes what matches the resume, and the job is not
\* finished yet.
Invalidate ==
  /\ queue.state = "active"
  /\ queue' = [queue EXCEPT !.state = "deleted"]
  /\ Delete
  /\ UNCHANGED <<edition, events, fallback, callVars>>

Finish ==
  /\ queue.state = "deleted"
  /\ queue' = [queue EXCEPT !.state = "completed"]
  /\ UNCHANGED <<edition, events, fallback, cached, callVars, raced, lost>>

\* Slip: the attempts are not counted.
InvalidateError_Uncounted ==
  /\ queue.state \in {"active", "deleted"}
  /\ Faults \cap {"cache", "crash"} # {}
  /\ queue' = [queue EXCEPT !.state = "waiting"]
  /\ UNCHANGED <<edition, events, fallback, cached, callVars, raced, lost>>

\* The deletion throws, or the worker dies before or after it: the job is retried
\* while it has attempts.
InvalidateError ==
  /\ \/ queue.state = "active" /\ Faults \cap {"cache", "crash"} # {}
     \/ queue.state = "deleted" /\ "crash" \in Faults
  /\ LET spent == queue.tries + 1 >= MaxAttempts IN
       /\ queue' = [state |-> IF spent THEN "failed" ELSE "waiting", tries |-> queue.tries + 1]
       /\ lost' = (lost \/ spent)
  /\ UNCHANGED <<edition, events, fallback, cached, callVars, raced>>

\* The finished job's time is up.
Forget ==
  /\ queue.state \in {"completed", "failed"}
  /\ queue' = NoJob
  /\ UNCHANGED <<edition, events, fallback, cached, callVars, raced, lost>>

-----------------------------------------------------------------------------
(* ComputeMatch. *)

Others == <<edition, events, queue, fallback, raced, lost>>

\* The call is over, and what it had read is gone.
Leave(x) ==
  /\ pc' = [pc EXCEPT ![x] = "idle"]
  /\ read' = [read EXCEPT ![x] = NothingRead]

\* The job is loaded with the checks, before anything is looked up.
Load(x) ==
  /\ pc[x] = "idle"
  /\ read' = [read EXCEPT ![x]["job"] = edition["job"]]
  /\ pc' = [pc EXCEPT ![x] = "get"]
  /\ UNCHANGED <<cached, lock, Others>>

\* The cache is read, the first time or after waiting for the leader.
Get(x) ==
  /\ pc[x] \in {"get", "wait"}
  /\ IF cached = None
       THEN read' = read /\ pc' = [pc EXCEPT ![x] = IF @ = "get" THEN "lock" ELSE "compute"]
       ELSE Leave(x)
  /\ UNCHANGED <<cached, lock, Others>>

\* Redis does not answer, which is a miss.
GetError(x) ==
  /\ pc[x] \in {"get", "wait"}
  /\ "cache" \in Faults
  /\ pc' = [pc EXCEPT ![x] = IF @ = "get" THEN "lock" ELSE "compute"]
  /\ UNCHANGED <<cached, lock, read, Others>>

\* SET NX: the leader goes on, whoever is second waits.
AcquireLock(x) ==
  /\ pc[x] = "lock"
  /\ IF lock = None THEN lock' = x /\ pc' = [pc EXCEPT ![x] = "compute"]
                    ELSE lock' = lock /\ pc' = [pc EXCEPT ![x] = "wait"]
  /\ UNCHANGED <<cached, read, Others>>

\* An error counts as a lock that somebody else has; it may have been set.
AcquireError(x) ==
  /\ pc[x] = "lock"
  /\ "cache" \in Faults
  /\ lock' \in IF lock = None THEN {None, x} ELSE {lock}
  /\ pc' = [pc EXCEPT ![x] = "wait"]
  /\ UNCHANGED <<cached, read, Others>>

\* The four providers; those that read the resume, the vector and the sliders do so now.
Compute(x) ==
  /\ pc[x] = "compute"
  /\ read' = [read EXCEPT ![x]["resume"] = edition["resume"], ![x]["fit"] = edition["fit"]]
  /\ pc' = [pc EXCEPT ![x] = "set"]
  /\ UNCHANGED <<cached, lock, Others>>

Set(x) ==
  /\ pc[x] = "set"
  /\ cached' = read[x]
  /\ raced' = (\E s \in Heard : read[x][s] # edition[s] /\ ~Pending(s))
  /\ lost' = FALSE
  /\ pc' = [pc EXCEPT ![x] = "release"]
  /\ UNCHANGED <<edition, events, queue, fallback, lock, read>>

SetError(x) ==
  /\ pc[x] = "set"
  /\ "cache" \in Faults
  /\ pc' = [pc EXCEPT ![x] = "release"]
  /\ UNCHANGED <<cached, lock, read, Others>>

\* The result is published and the lock released, by a method that the injected
\* cache does not have: the exception is caught and the key stays.
Release(x) ==
  /\ pc[x] = "release"
  /\ Leave(x)
  /\ UNCHANGED <<cached, lock, Others>>

Crash(x) ==
  /\ pc[x] # "idle"
  /\ "crash" \in Faults
  /\ Leave(x)
  /\ UNCHANGED <<cached, lock, Others>>

\* Thirty seconds, and a day.
LockExpires ==
  /\ lock # None
  /\ lock' = None
  /\ UNCHANGED <<cached, pc, read, Others>>

MatchExpires ==
  /\ cached # None
  /\ Delete
  /\ UNCHANGED <<edition, events, queue, fallback, callVars>>

-----------------------------------------------------------------------------
Handle ==
  \/ OnResumeUpdated \/ OnResumeUpdatedError
  \/ OnJobUpdated \/ OnJobUpdatedError

Work == PickUp \/ Invalidate \/ Finish \/ InvalidateError

Call(x) ==
  \/ Load(x) \/ Get(x) \/ GetError(x) \/ AcquireLock(x) \/ AcquireError(x)
  \/ Compute(x) \/ Set(x) \/ SetError(x) \/ Release(x)

Next ==
  \/ \E s \in Heard : Edit(s) \/ EditUnpublished(s)
  \/ EditFit
  \/ Handle \/ Work \/ ApplyFallback \/ Forget
  \/ \E x \in Callers : Call(x) \/ Crash(x)
  \/ LockExpires \/ MatchExpires

Spec == Init /\ [][Next]_vars

\* Events are handled and jobs are worked on; nothing is assumed of callers or keys.
FairSpec ==
  /\ Spec
  /\ WF_vars(OnResumeUpdated \/ OnResumeUpdatedError)
  /\ WF_vars(OnJobUpdated \/ OnJobUpdatedError)
  /\ WF_vars(Work)
  /\ WF_vars(ApplyFallback)

-----------------------------------------------------------------------------
Stale(s) == cached # None /\ cached[s] # edition[s]

\* A match that misses an edit of the resume or of the job never stays unnoticed: an
\* invalidation is on its way to it, or one was dropped since it was cached, or it was
\* computed from what was read before the edit and cached after the invalidation.
\* Whatever went wrong before ends with the next match that is cached.  Nothing of the
\* kind holds of the fit: a match that misses an edit of it stays until its key goes.
StaleIsPending == \A s \in Heard : Stale(s) => Pending(s) \/ raced \/ lost

\* And the invalidation that is on its way arrives.
InvalidationArrives ==
  \A s \in Heard : Stale(s) ~> (~Stale(s) \/ raced \/ lost)
=============================================================================

-------------------------- MODULE QualityRecompute --------------------------
(***************************************************************************)
(* The quality score of one resume.  An edit publishes ResumeUpdated; its  *)
(* handler puts a recompute on the queue, always under the same job id;    *)
(* a worker runs ComputeQuality, which loads the resume, scores it and     *)
(* appends a row to the score history.  The owner may run ComputeQuality   *)
(* directly as well.                                                       *)
(*                                                                         *)
(* The resume is two counters: edits of the text the AI grades and edits   *)
(* of the rest.  A score is the edition it was computed from and the       *)
(* edition of the text its AI half grades.  The queue is BullMQ, external: *)
(* an add whose id exists, in whatever state, is dropped; an active job    *)
(* cannot be removed; a finished job is kept for a while; a job whose      *)
(* worker died goes back to waiting or fails.                              *)
(***************************************************************************)
EXTENDS Naturals, FiniteSets

CONSTANTS
  Handlers,    \* events that may be in handling at once
  Workers,     \* queue consumers
  Callers,     \* concurrent calls of POST .../quality/recompute
  EditKinds,   \* what is edited: "text", "rest"
  MaxEdits,    \* bound: edits in all
  MaxAttempts, \* DEFAULT_JOB_OPTIONS.attempts
  NoScore,     \* no AI score
  NoRow,       \* no score row
  Faults       \* what may go wrong

FaultKinds == {"db", "queue", "ai", "crash"}

ASSUME RecomputeAssumption ==
  /\ Workers \cap Callers = {}
  /\ EditKinds \subseteq {"text", "rest"}
  /\ MaxEdits \in Nat
  /\ MaxAttempts \in Nat \ {0}
  /\ NoScore \notin Nat
  /\ NoRow \notin [text : Nat, rest : Nat, graded : Nat \cup {NoScore}]
  /\ NoRow \notin [text : Nat, rest : Nat]
  /\ Faults \subseteq FaultKinds

VARIABLES
  resume,   \* the edition of the resume
  latest,   \* the newest row of ResumeQualityScoreHistory
  handler,  \* where each handler of an event is
  job,      \* the job with id `resume-quality:<resume>'
  comp,     \* where each ComputeQuality is
  due,      \* history: the edition that an accepted job has promised to score
  direct    \* history: a recompute was called for directly

vars == <<resume, latest, handler, job, comp, due, direct>>

Computers == Workers \cup Callers

Editions == [text : Nat, rest : Nat]
Scores == [text : Nat, rest : Nat, graded : Nat \cup {NoScore}]

NoJob == [state |-> "none", runAi |-> FALSE, tries |-> 0]
Idle == [pc |-> "idle", runAi |-> FALSE, read |-> NoRow, score |-> NoScore]

TypeOK ==
  /\ resume \in Editions
  /\ latest \in Scores \cup {NoRow}
  /\ handler \in [Handlers -> {"idle", "remove", "addAi", "add"}]
  /\ job \in [state : {"none", "delayed", "waiting", "active", "completed", "failed"},
              runAi : BOOLEAN,
              tries : 0..MaxAttempts]
  /\ comp \in [Computers -> [pc : {"idle", "load", "content", "save", "publish"},
                             runAi : BOOLEAN,
                             read : Editions \cup {NoRow},
                             score : Nat \cup {NoScore}]]
  /\ due \in Editions \cup {NoRow}
  /\ direct \in BOOLEAN

\* The resume was just created; ResumeCreated's handler has scored it, with or
\* without the AI, or has failed and swallowed that.
Init ==
  /\ resume = [text |-> 0, rest |-> 0]
  /\ latest \in {[text |-> 0, rest |-> 0, graded |-> g] : g \in {0, NoScore}} \cup {NoRow}
  /\ handler = [h \in Handlers |-> "idle"]
  /\ job = NoJob
  /\ comp = [x \in Computers |-> Idle]
  /\ due = NoRow
  /\ direct = FALSE

Working(w) == comp[w].pc # "idle"

\* The job has been added and has not read the resume yet.
Unread ==
  \/ job.state \in {"none", "delayed", "waiting"}
  \/ job.state = "active" /\ \A w \in Workers : comp[w].pc \in {"idle", "load"}

-----------------------------------------------------------------------------
(* The event and its handler. *)

\* The resume is written, then ResumeUpdated is published; publish does not wait
\* for the handler.
Edit(kind, h) ==
  /\ resume.text + resume.rest < MaxEdits
  /\ handler[h] = "idle"
  /\ resume' = [resume EXCEPT ![kind] = @ + 1]
  /\ handler' = [handler EXCEPT ![h] = IF kind = "text" THEN "remove" ELSE "add"]
  /\ UNCHANGED <<latest, job, comp, due, direct>>

\* The pod dies between the write and the event.
EditUnpublished(kind) ==
  /\ "crash" \in Faults
  /\ resume.text + resume.rest < MaxEdits
  /\ resume' = [resume EXCEPT ![kind] = @ + 1]
  /\ UNCHANGED <<latest, handler, job, comp, due, direct>>

\* Slip: the active job is taken away as well.
Remove_EvenActive(h) ==
  /\ handler[h] = "remove"
  /\ job' = NoJob
  /\ handler' = [handler EXCEPT ![h] = "addAi"]
  /\ UNCHANGED <<resume, latest, comp, due, direct>>

\* queue.remove: of a missing or running job it is a no-op.
Remove(h) ==
  /\ handler[h] = "remove"
  /\ job' = IF job.state = "active" THEN job ELSE NoJob
  /\ handler' = [handler EXCEPT ![h] = "addAi"]
  /\ UNCHANGED <<resume, latest, comp, due, direct>>

\* The adapter swallows an error of remove.
RemoveError(h) ==
  /\ handler[h] = "remove"
  /\ "queue" \in Faults
  /\ handler' = [handler EXCEPT ![h] = "addAi"]
  /\ UNCHANGED <<resume, latest, job, comp, due, direct>>

\* queue.enqueue: added, or silently dropped when the id exists.
Enqueue(h) ==
  /\ handler[h] \in {"addAi", "add"}
  /\ LET ai == handler[h] = "addAi" IN
       job' = IF job.state = "none"
                THEN [state |-> IF ai THEN "delayed" ELSE "waiting",
                      runAi |-> ai, tries |-> 0]
                ELSE job
  /\ due' = IF Unread THEN resume ELSE due
  /\ handler' = [handler EXCEPT ![h] = "idle"]
  /\ UNCHANGED <<resume, latest, comp, direct>>

\* The add fails or is refused, and nobody waits for the handler's exception; or
\* the pod dies first.  When there is no job, because it was removed, what was
\* accepted is accepted no more.
EnqueueError(h) ==
  /\ handler[h] \in {"addAi", "add"}
  /\ Faults \cap {"queue", "crash"} # {}
  /\ handler' = [handler EXCEPT ![h] = "idle"]
  /\ due' = IF job.state = "none" THEN NoRow ELSE due
  /\ UNCHANGED <<resume, latest, job, comp, direct>>

-----------------------------------------------------------------------------
(* The queue. *)

\* The debounce window or the backoff of a retry ends.
DelayEnds ==
  /\ job.state = "delayed"
  /\ job' = [job EXCEPT !.state = "waiting"]
  /\ UNCHANGED <<resume, latest, handler, comp, due, direct>>

PickUp(w) ==
  /\ job.state = "waiting"
  /\ ~Working(w)
  /\ job' = [job EXCEPT !.state = "active"]
  /\ comp' = [comp EXCEPT ![w] = [Idle EXCEPT !.pc = "load", !.runAi = job.runAi]]
  /\ UNCHANGED <<resume, latest, handler, due, direct>>

\* removeOnComplete, removeOnFail: the finished job's time is up.
Forget ==
  /\ job.state \in {"completed", "failed"}
  /\ job' = NoJob
  /\ UNCHANGED <<resume, latest, handler, comp, due, direct>>

Crash(w) ==
  /\ Working(w)
  /\ "crash" \in Faults
  /\ comp' = [comp EXCEPT ![w] = Idle]
  /\ UNCHANGED <<resume, latest, handler, job, due, direct>>

\* The queue notices that the job's worker is gone.
Stalled ==
  /\ job.state = "active"
  /\ \A w \in Workers : ~Working(w)
  /\ \/ job' = [job EXCEPT !.state = "waiting"] /\ due' = due
     \/ job' = [job EXCEPT !.state = "failed"] /\ due' = NoRow
  /\ UNCHANGED <<resume, latest, handler, comp, direct>>

-----------------------------------------------------------------------------
(* ComputeQuality. *)

\* The owner asks for a recompute; the AI always runs.
CallRecompute(c) ==
  /\ c \in Callers
  /\ ~Working(c)
  /\ comp' = [comp EXCEPT ![c] = [Idle EXCEPT !.pc = "load", !.runAi = TRUE]]
  /\ direct' = TRUE
  /\ UNCHANGED <<resume, latest, handler, job, due>>

Load(x) ==
  /\ comp[x].pc = "load"
  /\ comp' = [comp EXCEPT ![x].pc = "content", ![x].read = resume]
  /\ UNCHANGED <<resume, latest, handler, job, due, direct>>

\* analyzeContent, which answers null when the AI fails or is switched off.
AnalyzeContent(x) ==
  /\ comp[x].pc = "content"
  /\ comp[x].runAi
  /\ \E s \in {comp[x].read.text} \cup (IF "ai" \in Faults THEN {NoScore} ELSE {}) :
       comp' = [comp EXCEPT ![x].pc = "save", ![x].score = s]
  /\ UNCHANGED <<resume, latest, handler, job, due, direct>>

\* reusePreviousContent: the newest row's AI half, carried over.
ReuseContent(x) ==
  /\ comp[x].pc = "content"
  /\ ~comp[x].runAi
  /\ comp' = [comp EXCEPT ![x].pc = "save",
                          ![x].score = IF latest = NoRow THEN NoScore ELSE latest.graded]
  /\ UNCHANGED <<resume, latest, handler, job, due, direct>>

\* repository.save appends the row.
Save(x) ==
  /\ comp[x].pc = "save"
  /\ latest' = [text |-> comp[x].read.text, rest |-> comp[x].read.rest,
                graded |-> comp[x].score]
  /\ comp' = [comp EXCEPT ![x].pc = "publish"]
  /\ UNCHANGED <<resume, handler, job, due, direct>>

\* The event is out and the job is complete.
Finish(x) ==
  /\ comp[x].pc = "publish"
  /\ comp' = [comp EXCEPT ![x] = Idle]
  /\ job' = IF x \in Workers THEN [job EXCEPT !.state = "completed"] ELSE job
  /\ UNCHANGED <<resume, latest, handler, due, direct>>

\* Slip: the worker runs in the failure mode that swallows.
ComputeError_Swallowed(x) ==
  /\ comp[x].pc # "idle"
  /\ "db" \in Faults
  /\ comp' = [comp EXCEPT ![x] = Idle]
  /\ job' = IF x \in Workers THEN [job EXCEPT !.state = "completed"] ELSE job
  /\ UNCHANGED <<resume, latest, handler, due, direct>>

\* A step throws.  The worker's job is retried until its attempts are spent;
\* the caller gets the error.  What was saved stays.
ComputeError(x) ==
  /\ comp[x].pc # "idle"
  /\ comp[x].pc = "content" => ~comp[x].runAi
  /\ "db" \in Faults
  /\ comp' = [comp EXCEPT ![x] = Idle]
  /\ IF x \in Workers
       THEN LET spent == job.tries + 1 >= MaxAttempts IN
            /\ job' = [job EXCEPT !.state = IF spent THEN "failed" ELSE "delayed",
                                  !.tries = @ + 1]
            /\ due' = IF spent THEN NoRow ELSE due
       ELSE UNCHANGED <<job, due>>
  /\ UNCHANGED <<resume, latest, handler, direct>>

-----------------------------------------------------------------------------
Handle(h) == Remove(h) \/ Enqueue(h) \/ RemoveError(h) \/ EnqueueError(h)

Compute(x) ==
  Load(x) \/ AnalyzeContent(x) \/ ReuseContent(x) \/ Save(x) \/ Finish(x) \/ ComputeError(x)

Next ==
  \/ \E kind \in EditKinds : EditUnpublished(kind) \/ \E h \in Handlers : Edit(kind, h)
  \/ \E h \in Handlers : Handle(h)
  \/ DelayEnds \/ Forget \/ Stalled
  \/ \E w \in Workers : PickUp(w) \/ Crash(w)
  \/ \E c \in Callers : CallRecompute(c)
  \/ \E x \in Computers : Compute(x)

Spec == Init /\ [][Next]_vars

-----------------------------------------------------------------------------
\* Nothing is under way.
Settled ==
  /\ \A h \in Handlers : handler[h] = "idle"
  /\ job.state \notin {"delayed", "waiting", "active"}
  /\ \A x \in Computers : ~Working(x)

AtLeast(score, edition) ==
  score # NoRow /\ score.text >= edition.text /\ score.rest >= edition.rest

\* The fixed job id keeps the recomputes of a resume apart, however many events,
\* workers, crashes and retries there are: two workers never grade it at once.
OneGrader == \A v, w \in Workers : Working(v) /\ Working(w) => v = w

\* An edit whose add found the job missing, or found one that had not read the
\* resume yet, is in the score when all is done: replacing and dropping jobs
\* loses nothing that was accepted, unless the job failed for good, or was removed
\* and its replacement refused.  (Until a direct call is made: what that saves last
\* may be older.)
AcceptedIsScored == Settled /\ due # NoRow /\ ~direct => AtLeast(latest, due)

\* Until a recompute is called for directly, the score a reader sees never falls
\* back to an older edition of the resume, nor its AI half to an older text.
ScoreNeverGoesBack ==
  [][~direct' /\ latest # NoRow /\ latest' # latest =>
       /\ AtLeast(latest', latest)
       /\ latest.graded # NoScore /\ latest'.graded # NoScore =>
            latest'.graded >= latest.graded]_vars
=============================================================================

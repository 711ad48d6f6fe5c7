---------------------------- MODULE Applications ----------------------------
(***************************************************************************)
(* The job applications of one user and everything that submits them while *)
(* the user is not looking: rage runs, the hourly auto-apply jobs, and,    *)
(* beside them, the user's own applying.                                   *)
(*                                                                         *)
(* The unique key on job and user is the only thing they share.  A rage    *)
(* run may be guarded by a counter of the day and a lock, when the use     *)
(* case is given a cache; an auto-apply job counts the applications of the *)
(* last hour before it starts.  Which jobs match, and how a resume is      *)
(* tailored to one, is nobody's concern here.                              *)
(***************************************************************************)
EXTENDS Naturals, FiniteSets

CONSTANTS
  Jobs,             \* the jobs that match
  Rages,            \* calls of RunRageApplyUseCase
  Autos,            \* `run-for-user' jobs of the queue
  Applies,          \* calls of ApplyToJobUseCase
  MaxApplications,  \* of one rage run
  DailyLimit,       \* RAGE_APPLY_DAILY_LIMIT
  HourlyCap,        \* HOURLY_CAP_PER_USER
  MaxAttempts,      \* DEFAULT_JOB_OPTIONS.attempts
  Wirings,          \* whether the rage runs are given a cache: what is possible
  None,             \* nobody, no job
  Faults            \* what may go wrong

FaultKinds == {"tailor", "db", "cache", "crash"}

Runs == Rages \cup Autos
Calls == Runs \cup Applies

ASSUME ApplicationsAssumption ==
  /\ Rages \cap Autos = {} /\ Rages \cap Applies = {} /\ Autos \cap Applies = {}
  /\ None \notin Calls \cup Jobs
  /\ IsFiniteSet(Jobs)
  /\ MaxApplications \in Nat /\ HourlyCap \in Nat
  /\ DailyLimit \in Nat /\ MaxAttempts \in Nat \ {0}
  /\ Wirings \subseteq BOOLEAN
  /\ Faults \subseteq FaultKinds

VARIABLES
  by,         \* who submitted the application to each job
  recent,     \* the applications of the last hour
  timeline,   \* the applications that have their SUBMITTED event
  guarded,    \* the rage runs were given a cache
  lock,       \* the rage run whose key is there
  counter,    \* the rage runs counted today
  stage,      \* where each call is
  picks,      \* the jobs a run has still to look at
  target,     \* the job a call is at
  budget,     \* how many applications an auto-apply job has left
  hopeless,   \* every pick of an auto-apply job has failed so far
  tries,      \* attempts of each auto-apply job
  written,    \* what a rage run is about to write to the counter
  begun,      \* history: the rage runs that got past the guards
  fresh,      \* history: who has checked the counter since a run was last under way
  unsure,     \* history: two rage runs overlapped, or one ended uncounted
  overtaken   \* history: the auto-apply jobs that somebody else applied beside

appVars == <<by, recent, timeline>>
guardVars == <<guarded, lock, counter, written, begun, fresh, unsure>>
autoVars == <<budget, hopeless, tries>>
applicationsVars == <<appVars, guardVars, autoVars, stage, picks, target, overtaken>>

ApplicationsInit ==
  /\ by = [j \in Jobs |-> None]
  /\ recent = {}
  /\ timeline = {}
  /\ guarded \in Wirings
  /\ lock = None
  /\ counter = 0
  /\ stage = [c \in Calls |-> "idle"]
  /\ picks = [c \in Runs |-> {}]
  /\ target = [c \in Calls |-> None]
  /\ budget = [a \in Autos |-> 0]
  /\ hopeless = [a \in Autos |-> TRUE]
  /\ tries = [a \in Autos |-> 0]
  /\ written = [r \in Rages |-> 0]
  /\ begun = {}
  /\ fresh = {}
  /\ unsure = FALSE
  /\ overtaken = {}

Open == {j \in Jobs : by[j] = None}

\* The rage runs past their guards.
UnderWay == {r \in Rages : stage[r] \notin {"idle", "lock", "done"}}

Goto(c, where) == stage' = [stage EXCEPT ![c] = where]

\* The call is over, and its local variables with it.
Leave(c, where) ==
  /\ Goto(c, where)
  /\ target' = [target EXCEPT ![c] = None]
  /\ picks' = [x \in Runs |-> IF x = c THEN {} ELSE picks[x]]

\* The call is done with the job it was at.
Return(c, where) == Goto(c, where) /\ target' = [target EXCEPT ![c] = None]

\* A row of JobApplication.
Submit(c, j) ==
  /\ by' = [by EXCEPT ![j] = c]
  /\ recent' = recent \cup {j}
  /\ overtaken' = overtaken \cup {a \in Autos \ {c} : stage[a] \notin {"idle", "done"}}

-----------------------------------------------------------------------------
(* The guards of a rage run. *)

\* The day's counter, before the lock.
CheckLimit(r) ==
  /\ stage[r] = "idle"
  /\ guarded
  /\ fresh' = IF UnderWay = {} THEN fresh \cup {r} ELSE fresh \ {r}
  /\ Goto(r, IF counter >= DailyLimit THEN "done" ELSE "lock")
  /\ UNCHANGED <<appVars, autoVars, guarded, lock, counter, written, begun, unsure, picks, target,
                 overtaken>>

\* The run is past its guards.
Begin(r) ==
  /\ Goto(r, "select")
  /\ begun' = begun \cup {r}
  /\ fresh' = {}
  /\ unsure' = (unsure \/ r \notin fresh)

TakeLock(r) ==
  /\ stage[r] = "lock"
  /\ IF lock = None
       THEN lock' = r /\ Begin(r)
       ELSE lock' = lock /\ Goto(r, "done") /\ UNCHANGED <<begun, fresh, unsure>>
  /\ UNCHANGED <<appVars, autoVars, guarded, counter, written, picks, target, overtaken>>

\* "The user is on the legacy code path and we simply proceed."
SkipGuards(r) ==
  /\ stage[r] = "idle"
  /\ ~guarded
  /\ Begin(r)
  /\ UNCHANGED <<appVars, autoVars, guarded, lock, counter, written, picks, target, overtaken>>

ReadCounter(r) ==
  /\ stage[r] = "read"
  /\ written' = [written EXCEPT ![r] = counter + 1]
  /\ Goto(r, "write")
  /\ UNCHANGED <<appVars, autoVars, guarded, lock, counter, begun, fresh, unsure, picks, target,
                 overtaken>>

WriteCounter(r) ==
  /\ stage[r] = "write"
  /\ counter' = written[r]
  /\ written' = [written EXCEPT ![r] = 0]
  /\ Goto(r, "release")
  /\ UNCHANGED <<appVars, autoVars, guarded, lock, begun, fresh, unsure, picks, target, overtaken>>

\* The `finally': the key is deleted, whose it may be.
EndRun(r) ==
  /\ stage[r] = "release"
  /\ lock' = IF guarded THEN None ELSE lock
  /\ Leave(r, "done")
  /\ UNCHANGED <<appVars, autoVars, guarded, counter, written, begun, fresh, unsure, overtaken>>

\* The selection throws, or the counter cannot be read or written.
RunError(r) ==
  /\ \/ stage[r] = "select" /\ "db" \in Faults
     \/ stage[r] \in {"read", "write"} /\ "cache" \in Faults
  /\ unsure' = TRUE
  /\ Goto(r, "release")
  /\ written' = [written EXCEPT ![r] = 0]
  /\ UNCHANGED <<appVars, autoVars, guarded, lock, counter, begun, fresh, picks, target, overtaken>>

\* Slip: the day is only counted when something was submitted.
RunSelect_Uncounted(r) ==
  /\ stage[r] = "select"
  /\ \E set \in SUBSET Open :
       /\ Cardinality(set) <= MaxApplications
       /\ picks' = [picks EXCEPT ![r] = set]
       /\ Goto(r, IF set = {} THEN "release" ELSE "next")
  /\ UNCHANGED <<appVars, autoVars, guardVars, target, overtaken>>

\* CuratedSelectorService: among the jobs that have no application yet.
RunSelect(r) ==
  /\ stage[r] = "select"
  /\ \E set \in SUBSET Open :
       /\ Cardinality(set) <= MaxApplications
       /\ picks' = [picks EXCEPT ![r] = set]
  /\ Goto(r, "next")
  /\ UNCHANGED <<appVars, autoVars, guardVars, target, overtaken>>

RunEnd(r) ==
  /\ stage[r] = "next"
  /\ picks[r] = {}
  /\ Goto(r, IF guarded THEN "read" ELSE "release")
  /\ UNCHANGED <<appVars, autoVars, guardVars, picks, target, overtaken>>

-----------------------------------------------------------------------------
(* The auto-apply job. *)

\* Slip: only what the job itself has submitted counts.
Count_OnlyOwn(a) ==
  /\ stage[a] = "idle"
  /\ LET n == Cardinality({j \in recent : by[j] = a}) IN
       IF n >= HourlyCap
         THEN Goto(a, "done") /\ UNCHANGED budget
         ELSE Goto(a, "select") /\ budget' = [budget EXCEPT ![a] = HourlyCap - n]
  /\ UNCHANGED <<appVars, guardVars, hopeless, tries, picks, target, overtaken>>

\* The applications of the last hour, whoever submitted them.
Count(a) ==
  /\ stage[a] = "idle"
  /\ LET n == Cardinality(recent) IN
       IF n >= HourlyCap
         THEN Goto(a, "done") /\ UNCHANGED budget
         ELSE Goto(a, "select") /\ budget' = [budget EXCEPT ![a] = HourlyCap - n]
  /\ UNCHANGED <<appVars, guardVars, hopeless, tries, picks, target, overtaken>>

Select(a) ==
  /\ stage[a] = "select"
  /\ \E set \in SUBSET Open :
       /\ Cardinality(set) <= budget[a]
       /\ picks' = [picks EXCEPT ![a] = set]
       /\ Goto(a, IF set = {} THEN "done" ELSE "next")
  /\ budget' = [budget EXCEPT ![a] = 0]
  /\ UNCHANGED <<appVars, guardVars, hopeless, tries, target, overtaken>>

\* The attempt is over.
Finish(a, where) ==
  /\ Leave(a, where)
  /\ budget' = [budget EXCEPT ![a] = 0]
  /\ hopeless' = [hopeless EXCEPT ![a] = TRUE]
  /\ overtaken' = overtaken \ {a}

\* The attempt has failed; BullMQ runs the job again while it has attempts.
Retry(a) ==
  /\ tries' = [tries EXCEPT ![a] = @ + 1]
  /\ Finish(a, IF tries[a] + 1 >= MaxAttempts THEN "done" ELSE "idle")

\* The job is over; when every pick has failed it is run again.
End(a) ==
  /\ stage[a] = "next"
  /\ picks[a] = {}
  /\ IF hopeless[a] THEN Retry(a) ELSE Finish(a, "done") /\ UNCHANGED tries
  /\ UNCHANGED <<appVars, guardVars>>

\* Counting or selecting throws, or the worker dies and the job is run again.
AutoError(a) ==
  /\ \/ stage[a] \in {"idle", "select"} /\ "db" \in Faults
     \/ stage[a] \notin {"idle", "done"} /\ "crash" \in Faults
  /\ Retry(a)
  /\ UNCHANGED <<appVars, guardVars>>

-----------------------------------------------------------------------------
(* What the runs do with a pick. *)

\* A pick of an auto-apply job did not fail.
Succeeded(c) == hopeless' = [a \in Autos |-> hopeless[a] /\ a # c]

\* The next pick, unless there is an application already.
Find(c) ==
  /\ stage[c] = "next"
  /\ \E j \in picks[c] :
       /\ picks' = [picks EXCEPT ![c] = @ \ {j}]
       /\ IF by[j] # None
            THEN Succeeded(c) /\ UNCHANGED <<stage, target>>
            ELSE Goto(c, "tailor") /\ target' = [target EXCEPT ![c] = j] /\ UNCHANGED hopeless
  /\ UNCHANGED <<appVars, guardVars, budget, tries, overtaken>>

\* The look throws: the pick has failed, the run goes on with the next one.
FindError(c) ==
  /\ stage[c] = "next" /\ "db" \in Faults
  /\ \E j \in picks[c] : picks' = [picks EXCEPT ![c] = @ \ {j}]
  /\ UNCHANGED <<appVars, guardVars, autoVars, stage, target, overtaken>>

Tailor(c) ==
  /\ stage[c] = "tailor"
  /\ Goto(c, IF c \in Autos THEN "recheck" ELSE "create")
  /\ UNCHANGED <<appVars, guardVars, autoVars, picks, target, overtaken>>

\* The auto-apply job looks once more, in the transaction that creates.
Recheck(c) ==
  /\ stage[c] = "recheck"
  /\ IF by[target[c]] # None
       THEN Return(c, "next") /\ Succeeded(c)
       ELSE Goto(c, "create") /\ UNCHANGED <<target, hopeless>>
  /\ UNCHANGED <<appVars, guardVars, budget, tries, picks, overtaken>>

\* Slip: the key is not unique, and the later row wins.
Create_Overwrite(c) ==
  /\ stage[c] = "create" /\ c \in Runs
  /\ Submit(c, target[c])
  /\ Succeeded(c)
  /\ Return(c, "next")
  /\ UNCHANGED <<timeline, guardVars, budget, tries, picks>>

\* The row, unless the unique key refuses it, which is a failed pick.
Create(c) ==
  /\ stage[c] = "create" /\ c \in Runs
  /\ IF by[target[c]] = None
       THEN Submit(c, target[c]) /\ Succeeded(c)
       ELSE UNCHANGED <<by, recent, overtaken, hopeless>>
  /\ Return(c, "next")
  /\ UNCHANGED <<timeline, guardVars, budget, tries, picks>>

\* The tailoring or the database throws: the pick has failed, the run goes on.
PickError(c) ==
  /\ \/ stage[c] = "tailor" /\ "tailor" \in Faults
     \/ stage[c] \in {"recheck", "create"} /\ c \in Runs /\ "db" \in Faults
  /\ Return(c, "next")
  /\ UNCHANGED <<appVars, guardVars, autoVars, picks, overtaken>>

-----------------------------------------------------------------------------
(* The user's own applying. *)

\* ApplyToJobUseCase looks for an application first.
Look(p) ==
  /\ stage[p] = "idle"
  /\ \E j \in Jobs :
       IF by[j] # None
         THEN Goto(p, "done") /\ UNCHANGED target
         ELSE Goto(p, "create") /\ target' = [target EXCEPT ![p] = j]
  /\ UNCHANGED <<appVars, guardVars, autoVars, picks, overtaken>>

\* It creates one, or the unique key's error is the caller's.
Apply(p) ==
  /\ stage[p] = "create"
  /\ IF by[target[p]] = None
       THEN Submit(p, target[p]) /\ Goto(p, "event") /\ UNCHANGED target
       ELSE Return(p, "done") /\ UNCHANGED <<by, recent, overtaken>>
  /\ UNCHANGED <<timeline, guardVars, autoVars, picks>>

\* ensureSubmittedEvent opens the timeline.
RecordSubmitted(p) ==
  /\ stage[p] = "event"
  /\ timeline' = timeline \cup {target[p]}
  /\ Return(p, "done")
  /\ UNCHANGED <<by, recent, guardVars, autoVars, picks, overtaken>>

ApplyError(p) ==
  /\ \/ stage[p] \in {"create", "event"} /\ "db" \in Faults
     \/ stage[p] = "event" /\ "crash" \in Faults
  /\ Return(p, "done")
  /\ UNCHANGED <<appVars, guardVars, autoVars, picks, overtaken>>

-----------------------------------------------------------------------------
(* The surroundings. *)

\* The pod of a rage run dies; its key stays.
RunCrash(r) ==
  /\ r \in UnderWay
  /\ "crash" \in Faults
  /\ Leave(r, "done")
  /\ unsure' = TRUE
  /\ written' = [written EXCEPT ![r] = 0]
  /\ UNCHANGED <<appVars, autoVars, guarded, lock, counter, begun, fresh, overtaken>>

\* Ten minutes, and an hour since an application.
LockExpires ==
  /\ lock # None
  /\ lock' = None
  /\ UNCHANGED <<appVars, autoVars, guarded, counter, written, begun, fresh, unsure, stage, picks,
                 target, overtaken>>

HourPasses ==
  /\ \E j \in recent : recent' = recent \ {j}
  /\ UNCHANGED <<by, timeline, guardVars, autoVars, stage, picks, target, overtaken>>

RageStep(r) ==
  \/ CheckLimit(r) \/ TakeLock(r) \/ SkipGuards(r)
  \/ RunSelect(r) \/ RunEnd(r) \/ RunError(r)
  \/ ReadCounter(r) \/ WriteCounter(r) \/ EndRun(r)

AutoStep(a) == Count(a) \/ Select(a) \/ End(a) \/ AutoError(a)

PickStep(c) == Find(c) \/ FindError(c) \/ Tailor(c) \/ Recheck(c) \/ Create(c) \/ PickError(c)

ApplyStep(p) == Look(p) \/ Apply(p) \/ RecordSubmitted(p) \/ ApplyError(p)

ApplicationsNext ==
  \/ \E r \in Rages : RageStep(r) \/ PickStep(r) \/ RunCrash(r)
  \/ \E a \in Autos : AutoStep(a) \/ PickStep(a)
  \/ \E p \in Applies : ApplyStep(p)
  \/ LockExpires \/ HourPasses

ApplicationsSpec == ApplicationsInit /\ [][ApplicationsNext]_applicationsVars

-----------------------------------------------------------------------------
(* Properties. *)

Picking == {"select", "next", "tailor", "create"}

ApplicationsTypeOK ==
  /\ by \in [Jobs -> Calls \cup {None}] /\ recent \subseteq Jobs /\ timeline \subseteq Jobs
  /\ guarded \in BOOLEAN /\ lock \in Rages \cup {None} /\ counter \in Nat
  /\ DOMAIN stage = Calls
  /\ \A r \in Rages : stage[r] \in Picking \cup {"idle", "lock", "read", "write", "release", "done"}
  /\ \A a \in Autos : stage[a] \in Picking \cup {"idle", "recheck", "done"}
  /\ \A p \in Applies : stage[p] \in {"idle", "create", "event", "done"}
  /\ picks \in [Runs -> SUBSET Jobs] /\ target \in [Calls -> Jobs \cup {None}]
  /\ budget \in [Autos -> Nat] /\ hopeless \in [Autos -> BOOLEAN]
  /\ tries \in [Autos -> 0 .. MaxAttempts] /\ written \in [Rages -> Nat]
  /\ begun \subseteq Rages /\ fresh \subseteq Rages /\ unsure \in BOOLEAN
  /\ overtaken \subseteq Autos

\* An auto-apply job never takes the user past the cap of the hour, whatever it retries
\* and skips, unless somebody else applied while it was at it.
CapRespected ==
  [][\A a \in Autos, j \in Jobs :
       by[j] = None /\ by'[j] = a /\ a \notin overtaken
         => Cardinality(recent') <= HourlyCap]_applicationsVars

\* With a cache, the user is held to the limit of the day, as long as runs neither
\* overlap (the counter is checked before the lock) nor end uncounted.
LimitRespected == guarded /\ ~unsure => Cardinality(begun) <= DailyLimit

\* An application is never replaced or taken over by another run: the unique key
\* decides every race between a look and a create.
FirstComeFirstServed == [][\A j \in Jobs : by[j] # None => by'[j] = by[j]]_applicationsVars
=============================================================================

-------------------------- MODULE Matching_proofs --------------------------
(***************************************************************************)
(* What a match is made of: the cached match, for any number of callers,   *)
(* edits and attempts, and, below, the fit profile. They share nothing but *)
(* this file.                                                              *)
(***************************************************************************)
EXTENDS MatchCache, FitProfile, FiniteSetTheorems, TLAPS

\* A job that is not finished has an attempt left, which its count needs to stay small.
TriesLeft == queue.state \in {"waiting", "active", "deleted"} => queue.tries < MaxAttempts

Jobs == [state : {"none", "waiting", "active", "deleted", "completed", "failed"},
         tries : 0..MaxAttempts]

\* A caller's step touches the cache, the lock and the caller only.
LEMMA CallType ==
  ASSUME TypeOK, NEW x \in Callers, Call(x) \/ Crash(x)
  PROVE  /\ cached' \in Editions \cup {None}
         /\ lock' \in Callers \cup {None}
         /\ pc' \in [Callers -> {"idle", "get", "lock", "wait", "compute", "set", "release"}]
         /\ read' \in [Callers -> Editions]
         /\ raced' \in BOOLEAN /\ lost' \in BOOLEAN
         /\ UNCHANGED <<edition, events, queue, fallback>>
<1> USE DEF TypeOK, Others
<1>1. NothingRead \in Editions
  BY DEF NothingRead, Editions
<1>2. CASE Load(x)
  BY <1>2 DEF Load, Editions, Sources
<1>3. CASE Get(x) \/ GetError(x)
  BY <1>1, <1>3 DEF Get, GetError, Leave
<1>4. CASE AcquireLock(x) \/ AcquireError(x)
  BY <1>4 DEF AcquireLock, AcquireError
<1>5. CASE Compute(x)
  BY <1>5 DEF Compute, Editions, Sources
<1>6. CASE Set(x)
  <2>1. raced' \in BOOLEAN
    BY <1>6 DEF Set
  <2> QED
    BY <1>6, <2>1 DEF Set
<1>7. CASE SetError(x) \/ Release(x) \/ Crash(x)
  BY <1>1, <1>7 DEF SetError, Release, Crash, Leave
<1> QED
  BY <1>2, <1>3, <1>4, <1>5, <1>6, <1>7 DEF Call

LEMMA QueueType ==
  ASSUME TypeOK, TriesLeft, Handle \/ Work \/ Forget
  PROVE  queue' \in Jobs /\ TriesLeft'
<1> USE MatchAssumption DEF TypeOK, TriesLeft, Jobs
<1>1. CASE Handle
  BY <1>1 DEF Handle, OnResumeUpdated, OnResumeUpdatedError, OnJobUpdated, OnJobUpdatedError
<1>2. CASE PickUp \/ Invalidate \/ Finish \/ Forget
  BY <1>2 DEF PickUp, Invalidate, Finish, Forget, NoJob
<1>3. CASE InvalidateError
  <2>1. queue.tries \in 0..MaxAttempts /\ queue.tries < MaxAttempts
    BY <1>3 DEF InvalidateError
  <2>2. queue.tries + 1 \in 0..MaxAttempts
    BY <2>1
  <2>3. CASE queue.tries + 1 >= MaxAttempts
    BY <1>3, <2>2, <2>3 DEF InvalidateError
  <2>4. CASE ~(queue.tries + 1 >= MaxAttempts)
    BY <1>3, <2>1, <2>2, <2>4 DEF InvalidateError
  <2> QED
    BY <2>3, <2>4
<1> QED
  BY <1>1, <1>2, <1>3 DEF Work

LEMMA TypeStep == TypeOK /\ TriesLeft /\ [Next]_vars => TypeOK' /\ TriesLeft'
<1> SUFFICES ASSUME TypeOK, TriesLeft, [Next]_vars PROVE TypeOK' /\ TriesLeft'
  OBVIOUS
<1>1. ASSUME NEW s \in Heard, Edit(s) \/ EditUnpublished(s) PROVE TypeOK' /\ TriesLeft'
  <2>1. edition' \in Editions
    BY <1>1 DEF Edit, EditUnpublished, TypeOK, Editions, Sources, Heard
  <2>2. events' \in [Heard -> Nat]
    BY <1>1 DEF Edit, EditUnpublished, TypeOK, Heard
  <2>3. UNCHANGED <<queue, fallback, cached, lock, pc, read, raced>> /\ lost' \in BOOLEAN
    BY <1>1 DEF Edit, EditUnpublished, TypeOK, callVars
  <2> QED
    BY <2>1, <2>2, <2>3 DEF TypeOK, TriesLeft
<1>7. CASE EditFit
  <2>1. edition' \in Editions
    BY <1>7 DEF EditFit, TypeOK, Editions, Sources
  <2> QED
    BY <1>7, <2>1 DEF EditFit, TypeOK, TriesLeft, callVars
<1>2. CASE Handle
  <2>1. events' \in [Heard -> Nat]
    BY <1>2 DEF Handle, OnResumeUpdated, OnResumeUpdatedError, OnJobUpdated,
      OnJobUpdatedError, TypeOK, Heard
  <2>2. fallback' \in Nat /\ cached' \in {cached, None}
    BY <1>2 DEF Handle, OnResumeUpdated, OnResumeUpdatedError, OnJobUpdated,
      OnJobUpdatedError, Delete, TypeOK
  <2>3. lost' \in BOOLEAN /\ raced' \in BOOLEAN
    BY <1>2 DEF Handle, OnResumeUpdated, OnResumeUpdatedError, OnJobUpdated,
      OnJobUpdatedError, Delete, TypeOK
  <2>4. UNCHANGED <<edition, lock, pc, read>>
    BY <1>2 DEF Handle, OnResumeUpdated, OnResumeUpdatedError, OnJobUpdated,
      OnJobUpdatedError, callVars
  <2> QED
    BY <1>2, <2>1, <2>2, <2>3, <2>4, QueueType DEF TypeOK, Jobs
<1>3. CASE Work \/ Forget
  <2>1. cached' \in {cached, None} /\ lost' \in BOOLEAN /\ raced' \in BOOLEAN
    BY <1>3 DEF Work, PickUp, Invalidate, Finish, InvalidateError, Forget, Delete, TypeOK
  <2>2. UNCHANGED <<edition, events, fallback, lock, pc, read>>
    BY <1>3 DEF Work, PickUp, Invalidate, Finish, InvalidateError, Forget, callVars
  <2> QED
    BY <1>3, <2>1, <2>2, QueueType DEF TypeOK, Jobs
<1>4. CASE ApplyFallback
  <2>1. fallback' \in Nat /\ cached' \in {cached, None}
    BY <1>4 DEF ApplyFallback, Delete, TypeOK
  <2>2. lost' \in BOOLEAN /\ raced' \in BOOLEAN
    BY <1>4 DEF ApplyFallback, Delete, TypeOK
  <2>3. UNCHANGED <<edition, events, queue, lock, pc, read>>
    BY <1>4 DEF ApplyFallback, callVars
  <2> QED
    BY <2>1, <2>2, <2>3 DEF TypeOK, TriesLeft
<1>5. ASSUME NEW x \in Callers, Call(x) \/ Crash(x) PROVE TypeOK' /\ TriesLeft'
  <2>1. UNCHANGED <<edition, events, queue, fallback>>
    BY <1>5, CallType
  <2> QED
    BY <1>5, <2>1, CallType DEF TypeOK, TriesLeft
<1>6. CASE LockExpires \/ MatchExpires \/ UNCHANGED vars
  <2>1. CASE LockExpires \/ MatchExpires
    BY <2>1 DEF LockExpires, MatchExpires, Delete, callVars, Others, TypeOK, TriesLeft
  <2>2. CASE UNCHANGED vars
    BY <2>2 DEF vars, callVars, TypeOK, TriesLeft
  <2> QED
    BY <1>6, <2>1, <2>2
<1> QED
  BY <1>1, <1>2, <1>3, <1>4, <1>5, <1>6, <1>7 DEF Next

LEMMA TypeInit == Init => TypeOK /\ TriesLeft
<1> SUFFICES ASSUME Init PROVE TypeOK /\ TriesLeft
  OBVIOUS
<1>1. edition \in Editions /\ events \in [Heard -> Nat] /\ fallback \in Nat
  BY DEF Init, Editions
<1>2. queue \in Jobs /\ TriesLeft
  BY MatchAssumption DEF Init, NoJob, Jobs, TriesLeft
<1>3. /\ pc \in [Callers -> {"idle", "get", "lock", "wait", "compute", "set", "release"}]
      /\ read \in [Callers -> Editions]
  BY DEF Init, NothingRead, Editions
<1> QED
  BY <1>1, <1>2, <1>3 DEF Init, TypeOK, Jobs

LEMMA TypeAlways == Spec => [](TypeOK /\ TriesLeft)
BY TypeInit, TypeStep, PTL DEF Spec

\* Every variable keeps its type, for any number of callers, edits and attempts: the
\* invalidation job never has more attempts than its queue gives it.
THEOREM TypeCorrect == Spec => []TypeOK
BY TypeAlways, PTL

-----------------------------------------------------------------------------
\* What makes a cached match old, or takes an invalidation away, one action at a time.
LEMMA StaleStep == TypeOK /\ StaleIsPending /\ [Next]_vars => StaleIsPending'
<1> SUFFICES ASSUME TypeOK, StaleIsPending, [Next]_vars,
                    NEW s \in Heard, Stale(s)'
             PROVE  Pending(s)' \/ raced' \/ lost'
  BY DEF StaleIsPending
<1>0. cached' # None /\ cached'[s] # edition'[s] /\ s \in Sources
  BY DEF Stale, Heard, Sources
<1>1. \/ cached' = cached /\ edition'[s] = edition[s] => Pending(s) \/ raced \/ lost
      \/ cached' # cached \/ edition'[s] # edition[s]
  BY <1>0 DEF StaleIsPending, Stale
<1>2. ASSUME NEW t \in Heard, Edit(t) \/ EditUnpublished(t) PROVE Pending(s)' \/ raced' \/ lost'
  <2>1. CASE EditUnpublished(t)
    BY <2>1 DEF EditUnpublished
  <2>2. CASE Edit(t) /\ t = s
    <3>1. events'[s] > 0
      BY <2>2 DEF Edit, TypeOK
    <3> QED
      BY <3>1 DEF Pending
  <2>3. CASE Edit(t) /\ t # s
    <3>1. /\ cached' = cached /\ edition'[s] = edition[s] /\ events'[s] = events[s]
          /\ UNCHANGED <<queue, fallback, raced, lost>>
      BY <1>0, <2>3 DEF Edit, TypeOK, Editions
    <3> QED
      BY <1>1, <3>1 DEF Pending
  <2> QED
    BY <1>2, <2>1, <2>2, <2>3
<1>11. CASE EditFit
  <2>1. /\ cached' = cached /\ edition'[s] = edition[s]
        /\ UNCHANGED <<events, queue, fallback, raced, lost>>
    BY <1>0, <1>11 DEF EditFit, TypeOK, Editions, Heard
  <2> QED
    BY <1>1, <2>1 DEF Pending
<1>3. CASE OnResumeUpdated
  <2>1. cached' = cached /\ UNCHANGED <<edition, fallback, raced>> /\ events'["job"] = events["job"]
    BY <1>3 DEF OnResumeUpdated, TypeOK, Heard
  <2>2. CASE s = "job"
    <3>1. lost => lost'
      BY <1>3 DEF OnResumeUpdated
    <3> QED
      BY <1>1, <2>1, <2>2, <3>1 DEF Pending
  <2>3. CASE s = "resume" /\ queue.state \in {"none", "waiting", "active"}
    <3>1. queue'.state \in {"waiting", "active"}
      BY <1>3, <2>3 DEF OnResumeUpdated
    <3> QED
      BY <2>3, <3>1 DEF Pending
  <2>4. CASE queue.state \in {"deleted", "completed", "failed"}
    BY <1>3, <2>4 DEF OnResumeUpdated
  <2> QED
    BY <2>2, <2>3, <2>4 DEF TypeOK, Heard
<1>4. CASE OnResumeUpdatedError \/ OnJobUpdated
  BY <1>0, <1>4 DEF OnResumeUpdatedError, OnJobUpdated, Delete
<1>5. CASE OnJobUpdatedError
  <2>1. cached' = cached /\ UNCHANGED <<edition, queue, raced>> /\ events'["resume"] = events["resume"]
    BY <1>5 DEF OnJobUpdatedError, TypeOK, Heard
  <2>2. CASE lost' = TRUE
    BY <2>2
  <2>3. CASE fallback' = fallback + 1 /\ lost' = lost
    BY <1>1, <2>1, <2>3 DEF Pending, TypeOK, Heard
  <2> QED
    BY <1>5, <2>2, <2>3 DEF OnJobUpdatedError
<1>6. CASE ApplyFallback \/ Invalidate \/ MatchExpires
  BY <1>0, <1>6 DEF ApplyFallback, Invalidate, MatchExpires, Delete
<1>7. CASE PickUp \/ Finish \/ Forget
  <2>1. /\ cached' = cached /\ UNCHANGED <<edition, events, fallback, raced, lost>>
        /\ queue.state \in {"waiting", "active"} => queue'.state \in {"waiting", "active"}
    BY <1>7 DEF PickUp, Finish, Forget, NoJob, TypeOK
  <2> QED
    BY <1>1, <2>1 DEF Pending
<1>8. CASE InvalidateError
  <2>1. cached' = cached /\ UNCHANGED <<edition, events, fallback, raced>>
    BY <1>8 DEF InvalidateError
  <2>2. CASE queue.tries + 1 >= MaxAttempts
    BY <1>8, <2>2 DEF InvalidateError
  <2>3. CASE ~(queue.tries + 1 >= MaxAttempts)
    <3>1. queue'.state = "waiting"
      BY <1>8, <2>3 DEF InvalidateError
    <3>2. lost' = lost
      BY <1>8, <2>3 DEF InvalidateError, TypeOK
    <3> QED
      BY <1>1, <2>1, <3>1, <3>2 DEF Pending
  <2> QED
    BY <2>2, <2>3
<1>9. ASSUME NEW x \in Callers, Call(x) \/ Crash(x) PROVE Pending(s)' \/ raced' \/ lost'
  <2>1. UNCHANGED <<edition, events, queue, fallback>>
    BY <1>9, CallType
  <2>2. CASE Set(x)
    <3>1. read[x][s] # edition[s]
      BY <1>0, <2>1, <2>2 DEF Set
    <3>2. Pending(s) \/ raced'
      BY <2>2, <3>1 DEF Set
    <3> QED
      BY <2>1, <3>2 DEF Pending
  <2>3. CASE ~Set(x)
    <3>1. cached' = cached /\ raced' = raced /\ lost' = lost
      BY <1>9, <2>3 DEF Call, Crash, Load, Get, GetError, AcquireLock, AcquireError, Compute,
        SetError, Release, Others
    <3> QED
      BY <1>1, <2>1, <3>1 DEF Pending
  <2> QED
    BY <2>2, <2>3
<1>10. CASE LockExpires \/ UNCHANGED vars
  <2>1. UNCHANGED <<cached, edition, events, queue, fallback, raced, lost>>
    BY <1>10 DEF LockExpires, vars, Others
  <2> QED
    BY <1>1, <2>1 DEF Pending
<1> QED
  BY <1>2, <1>3, <1>4, <1>5, <1>6, <1>7, <1>8, <1>9, <1>10, <1>11 DEF Next, Handle, Work

\* However many edits, callers and attempts there are, a match in the cache that misses
\* an edit of the resume or of the job has an invalidation on its way, was cached by a
\* computation that the edit had overtaken, or an invalidation was dropped since.  Of
\* the fit, whose edits invalidate nothing, it says nothing.
THEOREM StaleIsNoticed == Spec => []StaleIsPending
<1>1. Init => StaleIsPending
  BY DEF Init, StaleIsPending, Stale
<1> QED
  BY <1>1, TypeAlways, StaleStep, PTL DEF Spec

-----------------------------------------------------------------------------
(***************************************************************************)
(* Proofs about FitProfile, for any number of looks, submissions and       *)
(* erasures.                                                               *)
(*                                                                         *)
(* A version is given with the vector and not before (VersionFollows).     *)
(* What had ended when an erasure began cannot store again (EndedStays).   *)
(* As long as no two looks met, one creates at a time, and only when no    *)
(* set is open (OneCreates).  Two submissions for one set met or stopped,  *)
(* and one that has returned has completed its set, so that a later one is *)
(* refused (OneCounts).                                                    *)
(***************************************************************************)

\* What was shown or is answered is a set that exists, what is anonymized a row that does.
RowsExist ==
  /\ \A l \in Looks : shown[l] # NoRow => shown[l].set \in DOMAIN sets
  /\ \A s \in Submits : spc[s] # "new" => form[s] # NoRow /\ form[s].set \in DOMAIN sets
  /\ \A e \in Erasures : epc[e] = "vector" => profile # NoRow

FitTypes == FitTypeOK /\ RowsExist

\* A submission has a version from the time its vector is stored.
VersionFollows ==
  /\ \A s \in Submits : spc[s] \in {"new", "match", "answers", "vector"} => version[s] = 0
  /\ \A s \in Submits : spc[s] \in {"snapshot", "complete"} => version[s] > 0

\* What had ended when an erasure began stays ended, and stores nothing again.
EndedStays ==
  \A e \in Erasures :
    /\ \A s \in ended[e] : spc[s] # "new" /\ ~AtWork(s) /\ s \notin answers
    /\ epc[e] = "answers" => ended[e] = {}
    /\ epc[e] = "done" /\ profile # NoRow => profile.vector \notin ended[e]

Creates(l) == lpc[l] \in {"count", "create"}

\* As long as no two looks have met, one at a time creates a set, when none is open, and
\* the generation of a set is its place.
OneCreates ==
  /\ \A k, l \in Looks : Creates(k) /\ Creates(l) => k = l
  /\ \A l \in Looks : Creates(l) => OpenSets = {}
  /\ \A l \in Looks : lpc[l] = "create" => lgen[l] = Len(sets) + 1
  /\ \A i \in DOMAIN sets : sets[i].gen = i
  /\ \A i, j \in OpenSets : i = j

\* A submission that is at work or has left something.
Counts(s) == AtWork(s) \/ s \in answers \/ version[s] > 0

\* Two that count for one set met or stopped; one that has returned has completed its set.
OneCounts ==
  /\ \A s, t \in Submits :
       s # t /\ Counts(s) /\ Counts(t) /\ form[s].set = form[t].set
         => s \in beside \cup stopped \/ t \in beside \cup stopped
  /\ \A s \in Submits : spc[s] \in {"new", "match", "answers"} => s \notin answers
  /\ \A s \in Submits :
       spc[s] = "done" /\ (s \in answers \/ version[s] > 0) => sets[form[s].set].done
  /\ \A i \in DOMAIN sets : sets[i].done => \E s \in Submits : version[s] > 0 /\ form[s].set = i

-----------------------------------------------------------------------------
LEMMA SetType ==
  ASSUME FitTypeOK, NEW i \in DOMAIN sets
  PROVE  sets[i] \in [gen : Nat, done : BOOLEAN]
<1> DEFINE T == [gen : Nat, done : BOOLEAN]
<1>1. sets \in Seq(T)
  BY DEF FitTypeOK
<1> HIDE DEF T
<1>2. sets[i] \in T
  BY <1>1
<1> QED
  BY <1>2 DEF T

LEMMA LookTypes ==
  ASSUME FitTypes, NEW l \in Looks, LookStep(l)
  PROVE  FitTypes'
<1> USE DEF FitTypes, FitTypeOK, data, submitting, erasing, history
<1>0. UNCHANGED <<pool, answers, profile, snapshots, spc, form, version, stopped, epc, ended>>
  BY DEF LookStep, ListActive, FindOpen, CountSets, CreateSet, LookError
<1>1. CASE ListActive(l) \/ CountSets(l) \/ LookError(l)
  <2>1. /\ lpc' \in [Looks -> {"list", "find", "count", "create", "done"}]
        /\ lpool' \in [Looks -> Pools] /\ lgen' \in [Looks -> Nat]
        /\ UNCHANGED <<sets, shown, beside, crowded>>
    <3>1. CASE ListActive(l)
      BY <3>1 DEF ListActive
    <3>2. CASE CountSets(l)
      BY <3>2 DEF CountSets
    <3>3. CASE LookError(l)
      BY <3>3 DEF LookError
    <3> QED
      BY <1>1, <3>1, <3>2, <3>3
  <2> QED
    BY <1>0, <2>1 DEF RowsExist
<1>2. CASE FindOpen(l)
  <2>1. /\ lpc' \in [Looks -> {"list", "find", "count", "create", "done"}]
        /\ UNCHANGED <<sets, lpool, lgen, beside>>
    BY <1>2 DEF FindOpen
  <2>2. crowded' \in BOOLEAN
    BY <1>2 DEF FindOpen
  <2>3. CASE UNCHANGED shown
    BY <1>0, <2>1, <2>2, <2>3 DEF RowsExist
  <2>4. ASSUME NEW i \in OpenSets,
               shown' = [shown EXCEPT ![l] = [set |-> i, pool |-> lpool[l]]]
        PROVE  FitTypes'
    <3>1. i \in DOMAIN sets /\ i \in Nat
      BY DEF OpenSets
    <3>2. [set |-> i, pool |-> lpool[l]] \in Shown
      BY <3>1 DEF Shown
    <3>3. shown' \in [Looks -> Shown \cup {NoRow}]
      BY <2>4, <3>2
    <3>4. RowsExist'
      BY <1>0, <2>1, <2>4, <3>1 DEF RowsExist
    <3> QED
      BY <1>0, <2>1, <2>2, <3>3, <3>4
  <2> QED
    BY <1>2, <2>3, <2>4 DEF FindOpen
<1>3. CASE CreateSet(l)
  <2>1. /\ lpc' \in [Looks -> {"list", "find", "count", "create", "done"}]
        /\ UNCHANGED <<lpool, lgen, beside, crowded>>
    BY <1>3 DEF CreateSet
  <2>2. [gen |-> lgen[l], done |-> FALSE] \in [gen : Nat, done : BOOLEAN]
    OBVIOUS
  <2>3. /\ sets' \in Seq([gen : Nat, done : BOOLEAN])
        /\ Len(sets') = Len(sets) + 1 /\ DOMAIN sets' = 1 .. Len(sets) + 1
        /\ DOMAIN sets = 1 .. Len(sets) /\ Len(sets) \in Nat
    BY <1>3, <2>2 DEF CreateSet
  <2>4. [set |-> Len(sets) + 1, pool |-> lpool[l]] \in Shown
    BY <2>3 DEF Shown
  <2>5. shown' = [shown EXCEPT ![l] = [set |-> Len(sets) + 1, pool |-> lpool[l]]]
    BY <1>3 DEF CreateSet
  <2>6. shown' \in [Looks -> Shown \cup {NoRow}]
    BY <2>4, <2>5
  <2>7. RowsExist'
    BY <1>0, <2>3, <2>5 DEF RowsExist
  <2> QED
    BY <1>0, <2>1, <2>3, <2>6, <2>7
<1> QED
  BY <1>1, <1>2, <1>3 DEF LookStep

LEMMA SubmitTypes ==
  ASSUME FitTypes, NEW s \in Submits, SubmitStep(s)
  PROVE  FitTypes'
<1> USE DEF FitTypes, FitTypeOK, data, looking, erasing, history
<1>0. UNCHANGED <<pool, lpc, lpool, lgen, shown, epc, ended, crowded>>
  BY DEF SubmitStep, FindSet, MatchSample, SaveAnswers, UpsertVector, AppendSnapshot,
    MarkCompleted, SubmitError
<1>1. spc' \in [Submits -> {"new", "match", "answers", "vector", "snapshot", "complete", "done"}]
  BY DEF SubmitStep, FindSet, MatchSample, SaveAnswers, UpsertVector, AppendSnapshot,
    MarkCompleted, SubmitError, Goto
<1>2. \A t \in Submits : spc'[t] # "new" => t = s \/ spc[t] # "new"
  BY DEF SubmitStep, FindSet, MatchSample, SaveAnswers, UpsertVector, AppendSnapshot,
    MarkCompleted, SubmitError, Goto
<1>3. CASE FindSet(s)
  <2>1. PICK l \in Looks : shown[l] # NoRow /\ form' = [form EXCEPT ![s] = shown[l]]
    BY <1>3 DEF FindSet
  <2>2. form' \in [Submits -> Shown \cup {NoRow}]
    BY <2>1
  <2>3. beside' \subseteq Submits
    BY <1>3 DEF FindSet
  <2>4. UNCHANGED <<sets, answers, profile, snapshots, version, stopped>>
    BY <1>3 DEF FindSet
  <2>5. RowsExist'
    BY <1>0, <1>2, <2>1, <2>4 DEF RowsExist
  <2> QED
    BY <1>0, <1>1, <2>2, <2>3, <2>4, <2>5
<1>4. CASE MatchSample(s) \/ SaveAnswers(s) \/ AppendSnapshot(s) \/ SubmitError(s)
  <2>1. /\ answers' \subseteq Submits /\ snapshots' \subseteq Submits /\ stopped' \subseteq Submits
        /\ UNCHANGED <<sets, profile, form, version, beside>>
    BY <1>4 DEF MatchSample, SaveAnswers, AppendSnapshot, SubmitError
  <2>2. \A t \in Submits : spc'[t] # "new" => spc[t] # "new"
    BY <1>2, <1>4 DEF MatchSample, SaveAnswers, AppendSnapshot, SubmitError, At, AtWork
  <2> QED
    BY <1>0, <1>1, <2>1, <2>2 DEF RowsExist
<1>5. CASE UpsertVector(s)
  <2>1. NextVersion \in Nat
    BY FitAssumption DEF NextVersion, Rows
  <2>2. profile' \in Rows /\ version' \in [Submits -> Nat]
    BY <1>5, <2>1 DEF UpsertVector, Rows
  <2>5. profile' # NoRow
    BY <2>2, FitAssumption
  <2>3. UNCHANGED <<sets, answers, snapshots, form, stopped, beside>>
    BY <1>5 DEF UpsertVector
  <2>4. \A t \in Submits : spc'[t] # "new" => spc[t] # "new"
    BY <1>2, <1>5 DEF UpsertVector, At
  <2> QED
    BY <1>0, <1>1, <2>2, <2>3, <2>4, <2>5 DEF RowsExist
<1>6. CASE MarkCompleted(s)
  <2>1. form[s].set \in DOMAIN sets
    BY <1>6 DEF MarkCompleted, At, RowsExist
  <2>2. sets' \in Seq([gen : Nat, done : BOOLEAN]) /\ DOMAIN sets' = DOMAIN sets
    <3>1. sets[form[s].set] \in [gen : Nat, done : BOOLEAN]
      BY <2>1, SetType
    <3>2. [sets[form[s].set] EXCEPT !.done = TRUE] \in [gen : Nat, done : BOOLEAN]
      BY <3>1
    <3>3. PICK r \in [gen : Nat, done : BOOLEAN] : sets' = [sets EXCEPT ![form[s].set] = r]
      BY <1>6, <3>2 DEF MarkCompleted
    <3> QED
      BY <2>1, <3>3
  <2>3. UNCHANGED <<answers, profile, snapshots, form, version, stopped, beside>>
    BY <1>6 DEF MarkCompleted
  <2>4. \A t \in Submits : spc'[t] # "new" => spc[t] # "new"
    BY <1>2, <1>6 DEF MarkCompleted, At
  <2> QED
    BY <1>0, <1>1, <2>2, <2>3, <2>4 DEF RowsExist
<1> QED
  BY <1>3, <1>4, <1>5, <1>6 DEF SubmitStep

LEMMA EraseTypes ==
  ASSUME FitTypes, NEW e \in Erasures, EraseStep(e)
  PROVE  FitTypes'
<1> USE DEF FitTypes, FitTypeOK, looking, submitting, history, data
<1>1. /\ epc' \in [Erasures -> {"answers", "profile", "vector", "done", "failed"}]
      /\ ended' \in [Erasures -> SUBSET Submits]
      /\ answers' \subseteq Submits
  BY DEF EraseStep, DeleteAnswers, FindProfile, Anonymize, EraseError
<1>2. profile' \in Rows \cup {NoRow} /\ (profile # NoRow => profile' # NoRow)
  <2>1. CASE Anonymize(e)
    <3>1. profile \in Rows /\ profile' = [profile EXCEPT !.vector = NoRow]
      BY <2>1 DEF Anonymize, RowsExist
    <3>2. profile' \in Rows
      BY <3>1 DEF Rows
    <3> QED
      BY <3>2, FitAssumption
  <2>2. CASE ~Anonymize(e)
    BY <2>2 DEF EraseStep, DeleteAnswers, FindProfile, EraseError
  <2> QED
    BY <2>1, <2>2
<1>3. UNCHANGED <<pool, sets, snapshots, lpc, lpool, lgen, shown, spc, form, version, stopped,
                  beside, crowded>>
  BY DEF EraseStep, DeleteAnswers, FindProfile, Anonymize, EraseError
<1>4. \A f \in Erasures : epc'[f] = "vector" => profile' # NoRow
  BY <1>2 DEF EraseStep, DeleteAnswers, FindProfile, Anonymize, EraseError, RowsExist
<1> QED
  BY <1>1, <1>2, <1>3, <1>4 DEF RowsExist

LEMMA FitTypeStep == FitTypes /\ [FitNext]_fitVars => FitTypes'
<1> SUFFICES ASSUME FitTypes, [FitNext]_fitVars PROVE FitTypes'
  OBVIOUS
<1>1. CASE ChangePool \/ UNCHANGED fitVars
  BY <1>1 DEF ChangePool, fitVars, data, looking, submitting, erasing, history, FitTypes,
    FitTypeOK, RowsExist
<1> QED
  BY <1>1, LookTypes, SubmitTypes, EraseTypes DEF FitNext

LEMMA FitTypeInit == FitInit => FitTypes
<1> SUFFICES ASSUME FitInit PROVE FitTypes
  OBVIOUS
<1>1. sets \in Seq([gen : Nat, done : BOOLEAN])
  BY DEF FitInit
<1>2. /\ \A l \in Looks : shown[l] = NoRow
      /\ \A s \in Submits : spc[s] = "new"
      /\ \A e \in Erasures : epc[e] = "answers"
  BY DEF FitInit
<1>3. FitTypeOK
  BY <1>1, FitAssumption DEF FitInit, FitTypeOK
<1> QED
  BY <1>2, <1>3 DEF FitTypes, RowsExist

LEMMA FitTypeAlways == FitSpec => []FitTypes
BY FitTypeInit, FitTypeStep, PTL DEF FitSpec

\* Every variable keeps its type, for any number of looks, submissions and erasures.
THEOREM FitTypeCorrect == FitSpec => []FitTypeOK
<1>1. FitTypes => FitTypeOK
  BY DEF FitTypes
<1> QED
  BY <1>1, FitTypeAlways, PTL

-----------------------------------------------------------------------------
\* What the calls leave to the others.
LEMMA LookLeaves ==
  ASSUME NEW l \in Looks, LookStep(l)
  PROVE  UNCHANGED <<pool, answers, profile, snapshots, spc, form, version, stopped, epc, ended,
                     beside>>
BY DEF LookStep, ListActive, FindOpen, CountSets, CreateSet, LookError, data, submitting,
  erasing, history

LEMMA SubmitLeaves ==
  ASSUME NEW s \in Submits, SubmitStep(s)
  PROVE  UNCHANGED <<pool, lpc, lpool, lgen, shown, epc, ended, crowded>>
BY DEF SubmitStep, FindSet, MatchSample, SaveAnswers, UpsertVector, AppendSnapshot,
  MarkCompleted, SubmitError, data, looking, erasing, history

LEMMA EraseLeaves ==
  ASSUME NEW e \in Erasures, EraseStep(e)
  PROVE  UNCHANGED <<pool, sets, snapshots, lpc, lpool, lgen, shown, spc, form, version, stopped,
                     beside, crowded>>
BY DEF EraseStep, DeleteAnswers, FindProfile, Anonymize, EraseError, data, looking, submitting,
  erasing, history

LEMMA IdleLeaves ==
  ASSUME ChangePool \/ UNCHANGED fitVars
  PROVE  UNCHANGED <<sets, answers, profile, snapshots, lpc, lpool, lgen, shown, spc, form,
                     version, stopped, epc, ended, beside, crowded>>
BY DEF ChangePool, fitVars, data, looking, submitting, erasing, history

-----------------------------------------------------------------------------
LEMMA UpsertGivesNext ==
  ASSUME FitTypes, VersionFollows, VersionsDistinct, NEW s \in Submits, UpsertVector(s)
  PROVE  VersionFollows' /\ VersionsDistinct'
<1> USE DEF FitTypes, FitTypeOK
<1>1. spc[s] = "vector" /\ version[s] = 0
  BY DEF UpsertVector, At, VersionFollows
<1>2. NextVersion \in Nat /\ NextVersion > 0 /\ \A t \in Scored : version[t] < NextVersion
  BY FitAssumption DEF NextVersion, Rows, VersionsDistinct, Scored
<1>3. /\ profile' = [vector |-> s, version |-> NextVersion] /\ profile' \in Rows
      /\ version' = [version EXCEPT ![s] = NextVersion]
      /\ spc' = [spc EXCEPT ![s] = "snapshot"]
  BY <1>2 DEF UpsertVector, Goto, Rows
<1>4. profile' # NoRow
  BY <1>3, FitAssumption
<1>5. Scored' = Scored \cup {s} /\ s \notin Scored
  BY <1>1, <1>2, <1>3 DEF Scored
<1>6. VersionFollows'
  BY <1>2, <1>3 DEF VersionFollows
<1>7. \A t, u \in Scored' : t # u => version'[t] # version'[u]
  BY <1>2, <1>3, <1>5 DEF VersionsDistinct, Scored
<1>8. \A t \in Scored' : profile' # NoRow /\ version'[t] <= profile'.version
  BY <1>2, <1>3, <1>4, <1>5 DEF Scored
<1>9. version'[profile'.vector] = profile'.version
  BY <1>3
<1> QED
  BY <1>6, <1>7, <1>8, <1>9 DEF VersionsDistinct

LEMMA VersionStep ==
  FitTypes /\ VersionFollows /\ VersionsDistinct /\ [FitNext]_fitVars
    => VersionFollows' /\ VersionsDistinct'
<1> SUFFICES ASSUME FitTypes, VersionFollows, VersionsDistinct, [FitNext]_fitVars
             PROVE  VersionFollows' /\ VersionsDistinct'
  OBVIOUS
<1> USE DEF FitTypes, FitTypeOK
<1>1. CASE UNCHANGED <<spc, version, profile>>
  BY <1>1 DEF VersionFollows, VersionsDistinct, Scored
<1>2. ASSUME NEW s \in Submits,
             FindSet(s) \/ MatchSample(s) \/ SaveAnswers(s) \/ AppendSnapshot(s) \/ MarkCompleted(s)
      PROVE  VersionFollows' /\ VersionsDistinct'
  <2>1. UNCHANGED <<version, profile>>
    BY <1>2 DEF FindSet, MatchSample, SaveAnswers, AppendSnapshot, MarkCompleted, data
  <2>2. VersionFollows'
    BY <1>2, <2>1 DEF FindSet, MatchSample, SaveAnswers, AppendSnapshot, MarkCompleted, At, Goto,
      VersionFollows
  <2> QED
    BY <2>1, <2>2 DEF VersionsDistinct, Scored
<1>3. ASSUME NEW s \in Submits, SubmitError(s)
      PROVE  VersionFollows' /\ VersionsDistinct'
  BY <1>1, <1>3 DEF SubmitError, data
<1>4. ASSUME NEW e \in Erasures, Anonymize(e)
      PROVE  VersionFollows' /\ VersionsDistinct'
  <2>1. profile \in Rows /\ profile' = [profile EXCEPT !.vector = NoRow]
    BY <1>4 DEF Anonymize, RowsExist
  <2>2. profile' \in Rows /\ profile'.vector = NoRow /\ profile'.version = profile.version
    BY <2>1 DEF Rows
  <2>3. profile # NoRow /\ profile' # NoRow
    BY <2>1, <2>2, FitAssumption
  <2>4. UNCHANGED <<spc, version>>
    BY <1>4, EraseLeaves DEF EraseStep
  <2> QED
    BY <2>2, <2>3, <2>4 DEF VersionFollows, VersionsDistinct, Scored
<1>5. ASSUME NEW e \in Erasures, EraseStep(e)
      PROVE  VersionFollows' /\ VersionsDistinct'
  BY <1>1, <1>4, <1>5, EraseLeaves DEF EraseStep, DeleteAnswers, FindProfile, EraseError, data
<1> QED
  BY <1>1, <1>2, <1>3, <1>5, UpsertGivesNext, LookLeaves, IdleLeaves DEF FitNext, SubmitStep

LEMMA VersionInit == FitInit => VersionFollows /\ VersionsDistinct
BY DEF FitInit, VersionFollows, VersionsDistinct, Scored

LEMMA VersionAlways == FitSpec => [](VersionFollows /\ VersionsDistinct)
BY VersionInit, VersionStep, FitTypeAlways, PTL DEF FitSpec

\* However many submissions and erasures run beside each other, no two submissions get one
\* version, the newest vector is the one of the newest version, and an erasure keeps the
\* version.
THEOREM VersionsAlwaysDistinct == FitSpec => []VersionsDistinct
BY VersionAlways, PTL

-----------------------------------------------------------------------------
LEMMA EndedInit == FitInit => EndedStays
BY DEF FitInit, EndedStays

LEMMA EndedStep == FitTypes /\ EndedStays /\ [FitNext]_fitVars => EndedStays'
<1> SUFFICES ASSUME FitTypes, EndedStays, [FitNext]_fitVars PROVE EndedStays'
  OBVIOUS
<1> USE DEF FitTypes, FitTypeOK
<1>1. CASE UNCHANGED <<answers, profile, spc, stopped, epc, ended>>
  BY <1>1 DEF EndedStays, AtWork
<1>2. ASSUME NEW s \in Submits, SubmitStep(s)
      PROVE  EndedStays'
  <2>1. \A t \in Submits : spc[t] # "new" /\ ~AtWork(t) =>
          spc'[t] # "new" /\ ~AtWork(t)' /\ t # s
    BY <1>2 DEF SubmitStep, FindSet, MatchSample, SaveAnswers, UpsertVector, AppendSnapshot,
      MarkCompleted, SubmitError, At, AtWork, Goto
  <2>2. answers' \subseteq answers \cup {s}
    BY <1>2 DEF SubmitStep, FindSet, MatchSample, SaveAnswers, UpsertVector, AppendSnapshot,
      MarkCompleted, SubmitError, data
  <2>3. profile' = profile \/ profile'.vector = s
    BY <1>2 DEF SubmitStep, FindSet, MatchSample, SaveAnswers, UpsertVector, AppendSnapshot,
      MarkCompleted, SubmitError, data
  <2>4. UNCHANGED <<epc, ended>>
    BY <1>2, SubmitLeaves
  <2> QED
    BY <2>1, <2>2, <2>3, <2>4 DEF EndedStays
<1>3. ASSUME NEW e \in Erasures, EraseStep(e)
      PROVE  EndedStays'
  <2>1. UNCHANGED <<spc, stopped>>
    BY <1>3, EraseLeaves
  <2>2. CASE DeleteAnswers(e)
    <3>1. /\ answers' = {} /\ profile' = profile
          /\ epc' = [epc EXCEPT ![e] = "profile"]
          /\ ended' = [ended EXCEPT ![e] = {s \in Submits : spc[s] # "new" /\ ~AtWork(s)}]
      BY <2>2 DEF DeleteAnswers
    <3> QED
      BY <2>1, <3>1 DEF EndedStays, AtWork
  <2>3. CASE FindProfile(e) \/ EraseError(e)
    BY <2>1, <2>3 DEF FindProfile, EraseError, EndedStays, AtWork, data
  <2>4. CASE Anonymize(e)
    <3>1. profile \in Rows /\ profile' = [profile EXCEPT !.vector = NoRow]
      BY <2>4 DEF Anonymize, RowsExist
    <3>2. profile'.vector = NoRow /\ NoRow \notin Submits
      BY <3>1, FitAssumption DEF Rows
    <3>3. \A f \in Erasures : NoRow \notin ended[f]
      BY <3>2
    <3>4. UNCHANGED <<answers, ended>> /\ epc' = [epc EXCEPT ![e] = "done"]
      BY <2>4 DEF Anonymize
    <3> QED
      BY <2>1, <3>2, <3>3, <3>4 DEF EndedStays, AtWork
  <2> QED
    BY <1>3, <2>2, <2>3, <2>4 DEF EraseStep
<1> QED
  BY <1>1, <1>2, <1>3, LookLeaves, IdleLeaves DEF FitNext

LEMMA EndedAlways == FitSpec => []EndedStays
BY EndedInit, EndedStep, FitTypeAlways, PTL DEF FitSpec

\* An erasure that has returned leaves no answers and no vector of the submissions that
\* had ended when it began, however many others and however many erasures run beside it.
\* The snapshots of those submissions stay, and are no part of what is stated.
THEOREM ErasedAlwaysStaysErased == FitSpec => []ErasedStaysErased
<1>1. EndedStays => ErasedStaysErased
  BY DEF EndedStays, ErasedStaysErased
<1> QED
  BY <1>1, EndedAlways, PTL

-----------------------------------------------------------------------------
LEMMA CreatesInit == FitInit => OneCreates
BY DEF FitInit, OneCreates, Creates, OpenSets

LEMMA FindOpenCreates ==
  ASSUME FitTypes, crowded \/ OneCreates, NEW l \in Looks, FindOpen(l)
  PROVE  crowded' \/ OneCreates'
<1> USE DEF FitTypes, FitTypeOK
<1>1. SUFFICES ASSUME ~crowded' PROVE OneCreates'
  OBVIOUS
<1>2. ~crowded /\ UNCHANGED <<sets, lgen>> /\ lpc[l] = "find"
  BY <1>1 DEF FindOpen, data
<1>3. OneCreates
  BY <1>2
<1>4. CASE lpc' = [lpc EXCEPT ![l] = "done"]
  BY <1>2, <1>3, <1>4 DEF OneCreates, Creates, OpenSets
<1>5. CASE OpenSets = {} /\ lpc' = [lpc EXCEPT ![l] = "count"]
  <2>1. \A k \in Looks \ {l} : ~Creates(k)
    BY <1>1, <1>5 DEF FindOpen, Creates
  <2> QED
    BY <1>2, <1>3, <1>5, <2>1 DEF OneCreates, Creates, OpenSets
<1> QED
  BY <1>4, <1>5 DEF FindOpen

LEMMA CreateSetCreates ==
  ASSUME FitTypes, OneCreates, NEW l \in Looks, CreateSet(l)
  PROVE  OneCreates'
<1> USE DEF FitTypes, FitTypeOK
<1>1. /\ lpc[l] = "create" /\ lgen[l] = Len(sets) + 1 /\ OpenSets = {}
      /\ \A k \in Looks \ {l} : ~Creates(k)
  BY DEF CreateSet, OneCreates, Creates
<1>2. /\ lpc' = [lpc EXCEPT ![l] = "done"]
      /\ sets' = Append(sets, [gen |-> lgen[l], done |-> FALSE])
  BY DEF CreateSet
<1>3. /\ Len(sets) \in Nat /\ DOMAIN sets = 1 .. Len(sets) /\ DOMAIN sets' = 1 .. Len(sets) + 1
      /\ \A i \in DOMAIN sets : sets'[i] = sets[i]
      /\ sets'[Len(sets) + 1] = [gen |-> lgen[l], done |-> FALSE]
  BY <1>2
<1>4. \A k \in Looks : ~Creates(k)'
  BY <1>1, <1>2 DEF Creates
<1>8. \A i \in DOMAIN sets' : i \in DOMAIN sets \/ i = Len(sets) + 1
  BY <1>3
<1>9. sets'[Len(sets) + 1].gen = Len(sets) + 1
  BY <1>1, <1>3
<1>5. \A i \in DOMAIN sets' : sets'[i].gen = i
  BY <1>3, <1>8, <1>9 DEF OneCreates
<1>6. \A i \in OpenSets' : i = Len(sets) + 1
  BY <1>1, <1>3, <1>8 DEF OpenSets
<1>7. \A k \in Looks : lpc'[k] # "create"
  BY <1>4 DEF Creates
<1> QED
  BY <1>4, <1>5, <1>6, <1>7 DEF OneCreates

LEMMA MarkCompletedCreates ==
  ASSUME FitTypes, OneCreates, NEW s \in Submits, MarkCompleted(s)
  PROVE  OneCreates'
<1> USE DEF FitTypes, FitTypeOK
<1>1. form[s].set \in DOMAIN sets
  BY DEF MarkCompleted, At, RowsExist
<1>2. /\ DOMAIN sets' = DOMAIN sets /\ Len(sets') = Len(sets)
      /\ \A i \in DOMAIN sets \ {form[s].set} : sets'[i] = sets[i]
      /\ sets'[form[s].set] = [sets[form[s].set] EXCEPT !.done = TRUE]
  BY <1>1 DEF MarkCompleted
<1>3. sets'[form[s].set].done /\ sets'[form[s].set].gen = sets[form[s].set].gen
  BY <1>1, <1>2, SetType
<1>4. OpenSets' \subseteq OpenSets
  BY <1>2, <1>3 DEF OpenSets
<1>5. \A i \in DOMAIN sets' : sets'[i].gen = i
  BY <1>2, <1>3 DEF OneCreates
<1>6. UNCHANGED <<lpc, lgen>>
  BY DEF MarkCompleted, looking
<1> QED
  BY <1>2, <1>4, <1>5, <1>6 DEF OneCreates, Creates

LEMMA CreatesStep ==
  FitTypes /\ (crowded \/ OneCreates) /\ [FitNext]_fitVars => (crowded' \/ OneCreates')
<1> SUFFICES ASSUME FitTypes, crowded \/ OneCreates, [FitNext]_fitVars
             PROVE  crowded' \/ OneCreates'
  OBVIOUS
<1> USE DEF FitTypes, FitTypeOK
<1>1. CASE UNCHANGED <<sets, lpc, lgen, crowded>>
  BY <1>1 DEF OneCreates, Creates, OpenSets
<1>2. ASSUME NEW l \in Looks, ListActive(l) \/ LookError(l)
      PROVE  crowded' \/ OneCreates'
  <2>1. /\ lpc'[l] \notin {"count", "create"}
        /\ \A k \in Looks \ {l} : lpc'[k] = lpc[k]
        /\ UNCHANGED <<sets, lgen, crowded>>
    BY <1>2 DEF ListActive, LookError, data, history
  <2>2. OpenSets' = OpenSets
    BY <2>1 DEF OpenSets
  <2> QED
    BY <2>1, <2>2 DEF OneCreates, Creates
<1>3. ASSUME NEW l \in Looks, CountSets(l)
      PROVE  crowded' \/ OneCreates'
  <2>1. /\ lpc[l] = "count" /\ lpc' = [lpc EXCEPT ![l] = "create"]
        /\ lgen' = [lgen EXCEPT ![l] = Len(sets) + 1]
        /\ UNCHANGED <<sets, crowded>>
    BY <1>3 DEF CountSets, data, history
  <2> QED
    BY <2>1 DEF OneCreates, Creates, OpenSets
<1>4. ASSUME NEW l \in Looks, CreateSet(l)
      PROVE  crowded' \/ OneCreates'
  BY <1>4, CreateSetCreates DEF CreateSet, history
<1>5. ASSUME NEW s \in Submits, MarkCompleted(s)
      PROVE  crowded' \/ OneCreates'
  BY <1>5, MarkCompletedCreates DEF MarkCompleted, history
<1>6. ASSUME NEW s \in Submits, SubmitStep(s)
      PROVE  crowded' \/ OneCreates'
  BY <1>1, <1>5, <1>6, SubmitLeaves DEF SubmitStep, FindSet, MatchSample, SaveAnswers,
    UpsertVector, AppendSnapshot, SubmitError, data
<1> QED
  BY <1>1, <1>2, <1>3, <1>4, <1>6, FindOpenCreates, EraseLeaves, IdleLeaves DEF FitNext, LookStep

LEMMA CreatesAlways == FitSpec => [](crowded \/ OneCreates)
BY CreatesInit, CreatesStep, FitTypeAlways, PTL DEF FitSpec

\* As long as no two looks found none side by side, a user has one open set at most, and
\* no two sets have one generation, however many looks and submissions there are.
THEOREM OneSetIsOpen == FitSpec => []OneOpenSet
<1>1. OneCreates => OneOpenSet
  <2> SUFFICES ASSUME OneCreates PROVE OneOpenSet
    OBVIOUS
  <2>1. Cardinality(OpenSets) <= 1
    <3>1. CASE OpenSets = {}
      BY <3>1, FS_EmptySet
    <3>2. ASSUME NEW i \in OpenSets PROVE Cardinality(OpenSets) <= 1
      <4>1. OpenSets = {i}
        BY <3>2 DEF OneCreates
      <4>2. Cardinality({i}) = 1
        BY FS_Singleton
      <4> QED
        BY <4>1, <4>2
    <3> QED
      BY <3>1, <3>2
  <2>2. \A i, j \in DOMAIN sets : sets[i].gen = sets[j].gen => i = j
    BY DEF OneCreates
  <2> QED
    BY <2>1, <2>2 DEF OneOpenSet
<1>2. crowded \/ OneCreates => OneOpenSet
  BY <1>1 DEF OneOpenSet
<1> QED
  BY <1>2, CreatesAlways, PTL

-----------------------------------------------------------------------------
LEMMA CountsInit == FitInit => OneCounts
BY DEF FitInit, OneCounts, Counts, AtWork

\* The sets grow at the end, and the ones that are there keep what they are.
LEMMA LookKeepsSets ==
  ASSUME FitTypes, NEW l \in Looks, LookStep(l)
  PROVE  /\ DOMAIN sets \subseteq DOMAIN sets'
         /\ \A i \in DOMAIN sets : sets'[i] = sets[i]
         /\ \A i \in DOMAIN sets' \ DOMAIN sets : ~sets'[i].done
<1> USE DEF FitTypes, FitTypeOK
<1>1. CASE UNCHANGED sets
  BY <1>1
<1>2. CASE CreateSet(l)
  <2>1. sets' = Append(sets, [gen |-> lgen[l], done |-> FALSE])
    BY <1>2 DEF CreateSet
  <2>2. /\ Len(sets) \in Nat /\ DOMAIN sets = 1 .. Len(sets) /\ DOMAIN sets' = 1 .. Len(sets) + 1
        /\ \A i \in DOMAIN sets : sets'[i] = sets[i]
        /\ sets'[Len(sets) + 1] = [gen |-> lgen[l], done |-> FALSE]
    BY <2>1
  <2>3. \A i \in DOMAIN sets' : i \in DOMAIN sets \/ i = Len(sets) + 1
    BY <2>2
  <2> QED
    BY <2>2, <2>3
<1> QED
  BY <1>1, <1>2 DEF LookStep, ListActive, FindOpen, CountSets, LookError, data

LEMMA LookCounts ==
  ASSUME FitTypes, OneCounts, NEW l \in Looks, LookStep(l)
  PROVE  OneCounts'
<1>1. UNCHANGED <<answers, spc, form, version, stopped, beside>>
  BY LookLeaves
<1>2. \A s \in Submits : spc[s] # "new" => form[s].set \in DOMAIN sets
  BY DEF FitTypes, RowsExist
<1>3. \A s \in Submits : s \in answers \/ version[s] > 0 => spc[s] # "new" \/ version[s] > 0
  BY DEF OneCounts
<1> QED
  BY <1>1, <1>2, LookKeepsSets DEF OneCounts, Counts, AtWork

\* A submission that is let in is the only one that counts for its set, or beside another.
LEMMA FindSetCounts ==
  ASSUME FitTypes, VersionFollows, OneCounts, NEW s \in Submits, FindSet(s)
  PROVE  OneCounts'
<1> USE DEF FitTypes, FitTypeOK
<1>1. PICK l \in Looks :
        /\ shown[l] # NoRow
        /\ form' = [form EXCEPT ![s] = shown[l]]
        /\ spc' = [spc EXCEPT ![s] = IF ~sets[shown[l].set].done THEN "match" ELSE "done"]
        /\ beside' = IF ~sets[shown[l].set].done
                          /\ \E t \in Submits : AtWork(t) /\ form[t].set = shown[l].set
                       THEN beside \cup {s} ELSE beside
  BY DEF FindSet, Goto
<1>2. spc[s] = "new" /\ s \notin answers /\ version[s] = 0 /\ ~Counts(s)
  BY DEF FindSet, OneCounts, VersionFollows, Counts, AtWork
<1>3. UNCHANGED <<sets, answers, version, stopped>>
  BY DEF FindSet, data
<1>4. \A t \in Submits \ {s} : (Counts(t)' <=> Counts(t)) /\ form'[t] = form[t] /\ spc'[t] = spc[t]
  BY <1>1, <1>3 DEF Counts, AtWork
<1>5. beside \subseteq beside'
  BY <1>1
<1>6. ASSUME NEW t \in Submits \ {s}, Counts(s)', Counts(t), form[t].set = form'[s].set
      PROVE  s \in beside' \cup stopped' \/ t \in beside' \cup stopped'
  <2>1. ~sets[shown[l].set].done /\ form[t].set = shown[l].set
    BY <1>1, <1>2, <1>3, <1>6 DEF Counts, AtWork
  <2>2. CASE AtWork(t)
    BY <1>1, <2>1, <2>2
  <2>3. CASE ~AtWork(t)
    <3>1. t \in answers \/ version[t] > 0
      BY <1>6, <2>3 DEF Counts
    <3>2. spc[t] # "new"
      BY <3>1 DEF OneCounts, VersionFollows
    <3>3. spc[t] # "done"
      BY <2>1, <3>1 DEF OneCounts
    <3> QED
      BY <1>3, <2>3, <3>2, <3>3 DEF AtWork
  <2> QED
    BY <2>2, <2>3
<1>7. \A t, u \in Submits :
        t # u /\ Counts(t)' /\ Counts(u)' /\ form'[t].set = form'[u].set
          => t \in beside' \cup stopped' \/ u \in beside' \cup stopped'
  <2> SUFFICES ASSUME NEW t \in Submits, NEW u \in Submits, t # u, Counts(t)', Counts(u)',
                      form'[t].set = form'[u].set
               PROVE  t \in beside' \cup stopped' \/ u \in beside' \cup stopped'
    OBVIOUS
  <2>1. CASE t = s
    BY <1>4, <1>6, <2>1
  <2>2. CASE u = s
    BY <1>4, <1>6, <2>2
  <2>3. CASE t # s /\ u # s
    BY <1>3, <1>4, <1>5, <2>3 DEF OneCounts
  <2> QED
    BY <2>1, <2>2, <2>3
<1>8. \A i \in DOMAIN sets' : sets'[i].done => \E t \in Submits : version'[t] > 0 /\ form'[t].set = i
  <2> SUFFICES ASSUME NEW i \in DOMAIN sets, sets[i].done
               PROVE  \E t \in Submits : version'[t] > 0 /\ form'[t].set = i
    BY <1>3
  <2>1. PICK t \in Submits : version[t] > 0 /\ form[t].set = i
    BY DEF OneCounts
  <2>2. t # s
    BY <1>2, <2>1
  <2> QED
    BY <1>3, <1>4, <2>1, <2>2
<1>9. \A t \in Submits : spc'[t] \in {"new", "match", "answers"} => t \notin answers'
  BY <1>2, <1>3, <1>4 DEF OneCounts
<1>10. \A t \in Submits :
         spc'[t] = "done" /\ (t \in answers' \/ version'[t] > 0) => sets'[form'[t].set].done
  <2>1. s \notin answers' /\ ~(version'[s] > 0)
    BY <1>2, <1>3
  <2> QED
    BY <1>3, <1>4, <2>1 DEF OneCounts
<1> QED
  BY <1>7, <1>8, <1>9, <1>10 DEF OneCounts

\* One that is at work counts already, and goes on in its set.
LEMMA WorkCounts ==
  ASSUME FitTypes, VersionFollows, OneCounts, NEW s \in Submits, SubmitStep(s), ~FindSet(s)
  PROVE  OneCounts'
<1> USE DEF FitTypes, FitTypeOK
<1>1. AtWork(s) /\ UNCHANGED <<form, beside>>
  <2>1. UNCHANGED <<form, beside>>
    BY DEF SubmitStep, MatchSample, SaveAnswers, UpsertVector, AppendSnapshot, MarkCompleted,
      SubmitError, history
  <2>2. \E place \in {"match", "answers", "vector", "snapshot", "complete"} :
          At(s, place) \/ AtWork(s)
    BY DEF SubmitStep, MatchSample, SaveAnswers, UpsertVector, AppendSnapshot, MarkCompleted,
      SubmitError
  <2>3. AtWork(s)
    BY <2>2 DEF At, AtWork
  <2> QED
    BY <2>1, <2>3
<1>2. \A t \in Submits \ {s} :
        spc'[t] = spc[t] /\ version'[t] = version[t] /\ (t \in answers' <=> t \in answers)
          /\ (t \in stopped' <=> t \in stopped)
  BY DEF SubmitStep, MatchSample, SaveAnswers, UpsertVector, AppendSnapshot, MarkCompleted,
    SubmitError, Goto, data
<1>3. stopped \subseteq stopped' /\ (version[s] > 0 => version'[s] > 0)
  <2>1. CASE UpsertVector(s)
    <3>1. version[s] = 0
      BY <2>1 DEF UpsertVector, At, VersionFollows
    <3> QED
      BY <2>1, <3>1 DEF UpsertVector
  <2>2. CASE ~UpsertVector(s)
    BY <2>2 DEF SubmitStep, MatchSample, SaveAnswers, AppendSnapshot, MarkCompleted, SubmitError
  <2> QED
    BY <2>1, <2>2
<1>4. form[s].set \in DOMAIN sets
  BY <1>1 DEF AtWork, RowsExist
<1>5. /\ DOMAIN sets' = DOMAIN sets
      /\ \A i \in DOMAIN sets : sets[i].done => sets'[i].done
      /\ \A i \in DOMAIN sets : sets'[i].done => sets[i].done \/ (i = form[s].set /\ version[s] > 0)
      /\ MarkCompleted(s) => sets'[form[s].set].done
  <2>1. CASE MarkCompleted(s)
    <3>1. /\ DOMAIN sets' = DOMAIN sets
          /\ \A i \in DOMAIN sets \ {form[s].set} : sets'[i] = sets[i]
          /\ sets'[form[s].set] = [sets[form[s].set] EXCEPT !.done = TRUE]
      BY <1>4, <2>1 DEF MarkCompleted
    <3>2. sets'[form[s].set].done
      BY <1>4, <3>1, SetType
    <3>3. version[s] > 0
      BY <2>1 DEF MarkCompleted, At, VersionFollows
    <3> QED
      BY <3>1, <3>2, <3>3
  <2>2. CASE ~MarkCompleted(s)
    BY <2>2 DEF SubmitStep, MatchSample, SaveAnswers, UpsertVector, AppendSnapshot, SubmitError,
      data
  <2> QED
    BY <2>1, <2>2
<1>6. \A t \in Submits : Counts(t)' => Counts(t)
  BY <1>1, <1>2 DEF Counts, AtWork
<1>7. \A t, u \in Submits :
        t # u /\ Counts(t)' /\ Counts(u)' /\ form'[t].set = form'[u].set
          => t \in beside' \cup stopped' \/ u \in beside' \cup stopped'
  BY <1>1, <1>3, <1>6 DEF OneCounts
<1>8. \A t \in Submits : spc'[t] \in {"new", "match", "answers"} => t \notin answers'
  <2>1. spc'[s] \in {"new", "match", "answers"} => s \notin answers'
    BY <1>1 DEF SubmitStep, MatchSample, SaveAnswers, UpsertVector, AppendSnapshot, MarkCompleted,
      SubmitError, Goto, At, AtWork, OneCounts, data
  <2> QED
    BY <1>2, <2>1 DEF OneCounts
<1>9. \A t \in Submits :
        spc'[t] = "done" /\ (t \in answers' \/ version'[t] > 0) => sets'[form'[t].set].done
  <2>1. CASE MatchSample(s)
    <3>1. s \notin answers' /\ ~(version'[s] > 0)
      BY <2>1 DEF MatchSample, At, OneCounts, VersionFollows, data
    <3> QED
      BY <1>1, <1>2, <1>5, <3>1 DEF OneCounts, RowsExist
  <2>2. CASE MarkCompleted(s)
    BY <1>1, <1>2, <1>5, <2>2 DEF OneCounts, RowsExist
  <2>3. CASE ~MatchSample(s) /\ ~MarkCompleted(s)
    <3>1. spc'[s] # "done"
      BY <1>1, <2>3 DEF SubmitStep, SaveAnswers, UpsertVector, AppendSnapshot, SubmitError, Goto,
        AtWork
    <3> QED
      BY <1>1, <1>2, <1>5, <3>1 DEF OneCounts, RowsExist
  <2> QED
    BY <2>1, <2>2, <2>3
<1>10. \A i \in DOMAIN sets' :
         sets'[i].done => \E t \in Submits : version'[t] > 0 /\ form'[t].set = i
  <2> SUFFICES ASSUME NEW i \in DOMAIN sets, sets'[i].done
               PROVE  \E t \in Submits : version'[t] > 0 /\ form'[t].set = i
    BY <1>5
  <2>1. PICK t \in Submits : version[t] > 0 /\ form[t].set = i
    BY <1>5 DEF OneCounts
  <2>2. version'[t] > 0
    BY <1>2, <1>3, <2>1
  <2> QED
    BY <1>1, <2>1, <2>2
<1> QED
  BY <1>7, <1>8, <1>9, <1>10 DEF OneCounts

LEMMA CountsStep ==
  FitTypes /\ VersionFollows /\ OneCounts /\ [FitNext]_fitVars => OneCounts'
<1> SUFFICES ASSUME FitTypes, VersionFollows, OneCounts, [FitNext]_fitVars PROVE OneCounts'
  OBVIOUS
<1>1. CASE ChangePool \/ UNCHANGED fitVars
  BY <1>1, IdleLeaves DEF OneCounts, Counts, AtWork
<1>2. ASSUME NEW e \in Erasures, EraseStep(e) PROVE OneCounts'
  <2>1. answers' \subseteq answers
    BY <1>2 DEF EraseStep, DeleteAnswers, FindProfile, Anonymize, EraseError, data
  <2> QED
    BY <1>2, <2>1, EraseLeaves DEF OneCounts, Counts, AtWork
<1> QED
  BY <1>1, <1>2, LookCounts, FindSetCounts, WorkCounts DEF FitNext

LEMMA CountsAlways == FitSpec => []OneCounts
BY CountsInit, CountsStep, FitTypeAlways, VersionAlways, PTL DEF FitSpec

\* A completed set has been scored, and two submissions leave something for one set only
\* when they met or one of them stopped, however many there are and whatever is erased.
THEOREM ScoredAtMostOnce == FitSpec => []ScoredOnce
<1>1. FitTypes /\ OneCounts => ScoredOnce
  BY DEF OneCounts, Counts, ScoredOnce, Scored, FitTypes, FitTypeOK
<1> QED
  BY <1>1, CountsAlways, FitTypeAlways, PTL
=============================================================================

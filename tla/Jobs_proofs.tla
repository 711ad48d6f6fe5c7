---------------------------- MODULE Jobs_proofs ----------------------------
(***************************************************************************)
(* The two models of the jobs context: first the lock with the reminder    *)
(* sweep under it, then, from ApplicationsTypeCorrect's lemmas on, the     *)
(* applications of a user. They share nothing but this file.               *)
(*                                                                         *)
(* Proofs about DistributedLock and about ReminderSweep, its composition   *)
(* with the body it guards, for any number of pods, tokens, applications   *)
(* and thresholds and any lease.                                           *)
(*                                                                         *)
(* The lock.  The inductive invariant is KeepsItsKey together with the     *)
(* facts that keep it so: a key has a lease exactly while it exists,       *)
(* nobody but a pod with a handle or a SET under way has a token, and no   *)
(* two pods have the same one.                                             *)
(*                                                                         *)
(* The sweep.  Every step of it is a step of the lock or leaves the lock   *)
(* alone, so whatever is proved of the lock holds of the sweep.  What that *)
(* buys is that at most one body is in time.  A reminder that was mailed   *)
(* and is not at risk is in the log or in the hands of the one body in     *)
(* time; hence a body in time that finds no log row has not been preceded. *)
(***************************************************************************)
EXTENDS ReminderSweep, Applications, FiniteSetTheorems, TLAPS

-----------------------------------------------------------------------------
(* The lock. *)

\* The lease of a key is positive exactly while the key exists.
LeaseWhileKey == store = NoToken <=> left = 0

\* A pod has a token from the moment it sends its SET to the end of its release.
TokenWhileBusy ==
  \A p \in Pods : tok[p] # NoToken <=> pc[p] \in Holding \cup {"acquiring"}

\* Two pods never have the same token: randomUUID draws a fresh one each time.
TokensDiffer ==
  \A p, q \in Pods : p # q /\ tok[p] # NoToken => tok[p] # tok[q]

\* A token that is still on its way to Redis is not the key's value.
NotYetStored == \A p \in Pods : pc[p] = "acquiring" => store # tok[p]

IInv ==
  /\ TypeOK
  /\ LeaseWhileKey
  /\ TokenWhileBusy
  /\ TokensDiffer
  /\ NotYetStored
  /\ KeepsItsKey

\* The lease is a positive number of ticks.
LEMMA LockTtlPositive == LockTtl \in Nat /\ LockTtl > 0
BY DurationAssumption DEF LockTtl

LEMMA InitIInv == Init => IInv
BY LockTtlPositive, TokenAssumption, DurationAssumption
   DEF Init, IInv, TypeOK, PCs, LeaseWhileKey, TokenWhileBusy, TokensDiffer,
       NotYetStored, KeepsItsKey, InTime, Holding

LEMMA StepIInv == IInv /\ [Next]_vars => IInv'
<1> SUFFICES ASSUME IInv, [Next]_vars PROVE IInv'
  OBVIOUS
<1> USE LockTtlPositive, TokenAssumption, DurationAssumption
    DEF IInv, TypeOK, PCs, LeaseWhileKey, TokenWhileBusy, TokensDiffer,
        NotYetStored, KeepsItsKey, InTime, Holding
<1>1. ASSUME NEW p \in Pods, Fire(p) PROVE IInv'
  BY <1>1 DEF Fire, Fresh
<1>2. ASSUME NEW p \in Pods, AcquireGranted(p) PROVE IInv'
  BY <1>2 DEF AcquireGranted, SetKey
<1>3. ASSUME NEW p \in Pods, AcquireBusyRetry(p) PROVE IInv'
  BY <1>3 DEF AcquireBusyRetry
<1>4. ASSUME NEW p \in Pods, AcquireBusySkip(p) PROVE IInv'
  BY <1>4 DEF AcquireBusySkip, Settle
<1>5. ASSUME NEW p \in Pods, AcquireError(p) PROVE IInv'
  BY <1>5 DEF AcquireError, SetKey, Settle
<1>6. ASSUME NEW p \in Pods, BeginBody(p) PROVE IInv'
  BY <1>6 DEF BeginBody
<1>7. ASSUME NEW p \in Pods, EndBody(p) PROVE IInv'
  BY <1>7 DEF EndBody
<1>8. ASSUME NEW p \in Pods, Release(p) PROVE IInv'
  BY <1>8 DEF Release, ReleaseScript, Settle
<1>9. ASSUME NEW p \in Pods, ReleaseError(p) PROVE IInv'
  BY <1>9 DEF ReleaseError, Settle
<1>10. ASSUME NEW p \in Pods, Crash(p) PROVE IInv'
  BY <1>10 DEF Crash, Settle
<1>11. ASSUME NEW p \in Pods, Restart(p) PROVE IInv'
  BY <1>11 DEF Restart
<1>12. CASE Tick
  BY <1>12 DEF Tick
<1>13. CASE UNCHANGED vars
  BY <1>13 DEF vars
<1> QED
  BY <1>1, <1>2, <1>3, <1>4, <1>5, <1>6, <1>7, <1>8, <1>9, <1>10, <1>11, <1>12,
     <1>13 DEF Next, PodStep

\* Every reachable state satisfies the inductive invariant.
THEOREM Invariance == Spec => []IInv
BY InitIInv, StepIInv, PTL DEF Spec

\* The types of the lock's state, for any number of pods and any lease.
THEOREM TypeCorrect == Spec => []TypeOK
<1>1. IInv => TypeOK
  BY DEF IInv
<1> QED
  BY Invariance, <1>1, PTL

\* A pod within its lease owns the key for as long as the lease lasts: the
\* token check of RELEASE_SCRIPT protects it from every other pod.
THEOREM HolderKeepsKey == Spec => []KeepsItsKey
<1>1. IInv => KeepsItsKey
  BY DEF IInv
<1> QED
  BY Invariance, <1>1, PTL

\* Two pods that both own the key have the same token, which only one has.
LEMMA OneInTime == IInv => \A p, q \in InTime : p = q
BY TokenAssumption DEF IInv, TypeOK, KeepsItsKey, InTime, TokensDiffer, TokenWhileBusy, Holding

\* runGuardedJob's promise: no worker runs on two pods at once unless one of
\* them has outlived its lease.
THEOREM MutualExclusion == Spec => []NoDoubleExecution
<1>1. IInv => NoDoubleExecution
  BY OneInTime, LockTtlPositive DEF IInv, TypeOK, NoDoubleExecution, InTime
<1> QED
  BY Invariance, <1>1, PTL

\* A step changes the set of pods in time by one grant, when there was none,
\* or by one end, or not at all.
LEMMA LeaseStep == IInv /\ IInv' /\ [Next]_vars => [L!Next]_InTime
<1> SUFFICES ASSUME IInv, IInv', [Next]_vars, InTime' # InTime PROVE L!Next
  OBVIOUS
<1>1. PICK p \in Pods : (p \in InTime /\ p \notin InTime') \/ (p \notin InTime /\ p \in InTime')
  BY DEF InTime
<1>2. CASE p \in InTime
  <2>1. InTime = {p}
    BY <1>2, OneInTime
  <2>2. ~ \E q \in Pods : AcquireGranted(q)
    BY <1>2 DEF IInv, TypeOK, KeepsItsKey, TokenWhileBusy, AcquireGranted, SetKey, InTime, Holding
  <2>3. ASSUME NEW q \in Pods, q \in InTime' PROVE q \in InTime
    BY <2>2, <2>3, LockTtlPositive
       DEF Next, PodStep, vars, Fire, AcquireBusyRetry, AcquireBusySkip, AcquireError, BeginBody,
           EndBody, Release, ReleaseError, Crash, Restart, Tick, Settle, InTime, Holding, IInv,
           TypeOK
  <2>4. InTime' = {}
    BY <1>1, <1>2, <2>1, <2>3 DEF InTime
  <2> QED
    BY <1>1, <2>1, <2>4 DEF L!Next, L!End
<1>3. CASE p \notin InTime /\ p \in InTime'
  <2>1. PICK q \in Pods : AcquireGranted(q)
    BY <1>3, LockTtlPositive
       DEF Next, PodStep, vars, Fire, AcquireBusyRetry, AcquireBusySkip, AcquireError, BeginBody,
           EndBody, Release, ReleaseError, Crash, Restart, Tick, Settle, InTime, Holding, IInv,
           TypeOK
  <2>2. InTime = {}
    BY <2>1
       DEF IInv, TypeOK, KeepsItsKey, TokenWhileBusy, AcquireGranted, SetKey, InTime, Holding
  <2>3. InTime' = {p}
    BY <1>3, <2>1, <2>2 DEF AcquireGranted, InTime, Holding, IInv, TypeOK
  <2> QED
    BY <2>2, <2>3 DEF L!Next, L!Grant
<1> QED
  BY <1>1, <1>2, <1>3

\* The lock implements the abstract lease: every step of a pod, of Redis or of
\* the clock is a grant to a pod that finds nobody in time, an end, or neither.
THEOREM Refinement == Spec => ImplementsLease
<1>1. Init => L!Init
  BY DEF Init, L!Init, InTime, Holding
<1> QED
  BY <1>1, Invariance, LeaseStep, PTL DEF Spec, ImplementsLease, L!Spec

-----------------------------------------------------------------------------
(* The sweep. *)

\* A reminder is in the hands of a running body only.
ItemWhileRunning == \A p \in Pods : at[p] # "none" => pc[p] = "running"

\* The notification is in before the body goes on to the log.
NotedFirst == \A p \in Pods : at[p] = "notified" => item[p] \in notes

\* A reminder that was mailed and is not at risk is in the log, or a body has
\* it in its hands and is about to log it.
Accounted ==
  \A r \in mailed : AtRisk(r) \/ r \in log \/ \E p \in Pods : r \in Unlogged(p)

\* A body in time that is about to mail is the first, unless others failed.
NotMailedYet ==
  \A p \in Pods : at[p] = "checked" /\ ~Late(p) => item[p] \notin mailed \/ AtRisk(item[p])

SInv ==
  /\ IInv
  /\ SweepTypeOK
  /\ ItemWhileRunning
  /\ NotedFirst
  /\ Accounted
  /\ NotMailedYet
  /\ RemindedOnce

\* A step of the sweep is a step of the lock or none of its business.
LEMMA SweepStepIsLockStep == [SweepNext]_sweepVars => [Next]_vars
BY DEF SweepNext, sweepVars, SweepStep, AroundBody, BeginSweep, Check, SkipUser, Mail, Notify,
       Record, EndSweep, CrashSweep, Clock, DaysPass, RecordEvent, Next, PodStep, vars

\* So what holds of the lock holds of the lock under the sweep.
THEOREM SweepHasLock == SweepSpec => Spec
<1>1. SweepInit => Init
  BY DEF SweepInit
<1> QED
  BY <1>1, SweepStepIsLockStep, PTL DEF SweepSpec, Spec

LEMMA InitSInv == SweepInit => SInv
BY InitIInv, LadderAssumption, ItemAssumption
   DEF SweepInit, SInv, SweepTypeOK, Stages, ItemWhileRunning, NotedFirst, Accounted, NotMailedYet,
       RemindedOnce

\* Only one of two running bodies is in time.
LEMMA OneRunsInTime ==
  IInv => \A p, q \in Pods : pc[p] = "running" /\ pc[q] = "running" /\ p # q => Late(p) \/ Late(q)
BY OneInTime, LockTtlPositive DEF IInv, TypeOK, InTime, Holding, Late

LEMMA SweepTypeStep == SInv /\ [SweepNext]_sweepVars => SweepTypeOK'
<1> SUFFICES ASSUME SInv, [SweepNext]_sweepVars PROVE SweepTypeOK'
  OBVIOUS
<1> USE ItemAssumption, LadderAssumption DEF SInv, SweepTypeOK, Stages
<1>1. ASSUME NEW p \in Pods, AroundBody(p) PROVE SweepTypeOK'
  BY <1>1 DEF AroundBody, sweep, local, rows, applications
<1>2. ASSUME NEW p \in Pods, BeginSweep(p) PROVE SweepTypeOK'
  <2>1. Due \subseteq Reminders
    BY DEF Due, Reminders
  <2> QED
    BY <1>2, <2>1 DEF BeginSweep, rows, applications
<1>3. ASSUME NEW p \in Pods, Check(p) PROVE SweepTypeOK'
  BY <1>3 DEF Check, rows, applications
<1>4. ASSUME NEW p \in Pods, SkipUser(p) PROVE SweepTypeOK'
  BY <1>4 DEF SkipUser, PutDown, rows, applications
<1>5. ASSUME NEW p \in Pods, Mail(p) PROVE SweepTypeOK'
  BY <1>5 DEF Mail, applications
<1>6. ASSUME NEW p \in Pods, Notify(p) PROVE SweepTypeOK'
  BY <1>6 DEF Notify, applications
<1>7. ASSUME NEW p \in Pods, Record(p) PROVE SweepTypeOK'
  BY <1>7 DEF Record, PutDown, applications
<1>8. ASSUME NEW p \in Pods, EndSweep(p) \/ CrashSweep(p) PROVE SweepTypeOK'
  BY <1>8 DEF EndSweep, CrashSweep, PutDown, Unlogged, applications
<1>9. ASSUME NEW a \in Apps, DaysPass(a) PROVE SweepTypeOK'
  BY <1>9 DEF DaysPass, local, rows
<1>10. ASSUME NEW a \in Apps, RecordEvent(a) PROVE SweepTypeOK'
  BY <1>10 DEF RecordEvent, local, rows
<1>11. CASE Clock \/ UNCHANGED sweepVars
  BY <1>11 DEF Clock, sweepVars, sweep, local, rows, applications
<1> QED
  BY <1>1, <1>2, <1>3, <1>4, <1>5, <1>6, <1>7, <1>8, <1>9, <1>10, <1>11 DEF SweepNext, SweepStep

\* The steps that leave the reminders and their rows alone, and what they leave.
Idle == UNCHANGED <<item, at, rows>>

\* What the sweep's invariant asks of a step that touches no reminder: bodies
\* in the middle of one go on running, and nobody comes back into its lease.
LEMMA IdleStep ==
  ASSUME SInv, Idle, SweepTypeOK',  IInv',
         \A p \in Pods : at[p] # "none" => pc'[p] = "running" /\ (Late(p) => Late(p)')
  PROVE  SInv'
<1>1. \A p \in Pods : Unlogged(p)' = Unlogged(p)
  BY DEF Idle, Unlogged
<1>2. \A p \in Pods : Unlogged(p) # {} => at[p] # "none"
  BY DEF Unlogged
<1>3. \A r : AtRisk(r) => AtRisk(r)'
  BY <1>1, <1>2 DEF AtRisk, Idle, rows
<1>4. ItemWhileRunning' /\ NotedFirst'
  BY DEF SInv, Idle, rows, ItemWhileRunning, NotedFirst
<1>5. Accounted'
  BY <1>1, <1>3 DEF SInv, Idle, rows, Accounted
<1>6. NotMailedYet'
  BY <1>3 DEF SInv, Idle, rows, NotMailedYet
<1>7. RemindedOnce'
  BY <1>3 DEF SInv, Idle, rows, RemindedOnce
<1> QED
  BY <1>4, <1>5, <1>6, <1>7 DEF SInv

\* Taking a candidate: in time and without a log row, it cannot have been
\* mailed by a body that is still about to log it, for that one would be in
\* time as well.
LEMMA CheckStep == ASSUME SInv, SweepTypeOK', IInv', NEW p \in Pods, Check(p) PROVE SInv'
<1> USE DEF SInv, SweepTypeOK
<1>1. \A q \in Pods : Unlogged(q)' = Unlogged(q) /\ (Late(q)' <=> Late(q))
  BY DEF Check, Unlogged, Late, vars
<1>2. \A r : AtRisk(r)' <=> AtRisk(r)
  BY <1>1 DEF AtRisk, Check, rows
<1>3. ItemWhileRunning' /\ NotedFirst'
  BY DEF Check, rows, vars, ItemWhileRunning, NotedFirst
<1>4. Accounted' /\ RemindedOnce'
  BY <1>1, <1>2 DEF Check, rows, Accounted, RemindedOnce
<1>5. NotMailedYet'
  <2> SUFFICES ASSUME NEW q \in Pods, at'[q] = "checked", ~Late(q)', item'[q] \in mailed'
               PROVE  AtRisk(item[q])'
    BY DEF NotMailedYet
  <2>1. CASE at[q] = "checked"
    <3>1. item'[q] = item[q]
      BY <2>1 DEF Check
    <3> QED
      BY <2>1, <3>1, <1>1, <1>2 DEF NotMailedYet, Check, rows
  <2>2. CASE at[q] # "checked"
    <3>1. q = p /\ pc[p] = "running" /\ at[p] = "none" /\ item'[p] \notin log
      BY <2>2 DEF Check
    <3>2. CASE \E o \in Pods : item'[p] \in Unlogged(o)
      <4>1. PICK o \in Pods : item'[p] \in Unlogged(o)
        BY <3>2
      <4>2. o # p /\ pc[o] = "running"
        BY <3>1, <4>1 DEF Unlogged, ItemWhileRunning
      <4>3. Late(o)
        BY <4>2, <3>1, <1>1, OneRunsInTime
      <4> QED
        BY <4>1, <4>3, <3>1, <1>2 DEF AtRisk
    <3>3. CASE ~ \E o \in Pods : item'[p] \in Unlogged(o)
      BY <3>1, <3>3, <1>2 DEF Accounted, Check, rows
    <3> QED
      BY <3>2, <3>3
  <2> QED
    BY <2>1, <2>2
<1> QED
  BY <1>3, <1>4, <1>5

LEMMA SkipUserStep == ASSUME SInv, SweepTypeOK', IInv', NEW p \in Pods, SkipUser(p) PROVE SInv'
<1> USE DEF SInv, SweepTypeOK
<1>1. \A q \in Pods : Unlogged(q)' = Unlogged(q) /\ (Late(q)' <=> Late(q))
  BY DEF SkipUser, PutDown, Unlogged, Late, vars
<1>2. \A r : AtRisk(r)' <=> AtRisk(r)
  BY <1>1 DEF AtRisk, SkipUser, rows
<1>3. ItemWhileRunning' /\ NotedFirst'
  BY DEF SkipUser, PutDown, rows, vars, ItemWhileRunning, NotedFirst
<1>4. Accounted' /\ RemindedOnce'
  BY <1>1, <1>2 DEF SkipUser, rows, Accounted, RemindedOnce
<1>5. NotMailedYet'
  BY <1>1, <1>2 DEF SkipUser, PutDown, rows, NotMailedYet
<1> QED
  BY <1>3, <1>4, <1>5

\* A mail: in time, it is the first one unless the reminder is at risk; late,
\* it puts the reminder at risk.
LEMMA MailStep == ASSUME SInv, SweepTypeOK', IInv', NEW p \in Pods, Mail(p) PROVE SInv'
<1> USE DEF SInv, SweepTypeOK
<1>1. \A q \in Pods : Late(q)' <=> Late(q)
  BY DEF Mail, Late, vars
<1>2. \A q \in Pods : Unlogged(q) \subseteq Unlogged(q)'
  BY DEF Mail, Unlogged
<1>3. item[p] \in Unlogged(p)'
  BY DEF Mail, Unlogged
<1>4. \A r : AtRisk(r) => AtRisk(r)'
  BY <1>1, <1>2 DEF AtRisk, Mail
<1>5. Late(p) => AtRisk(item[p])'
  BY DEF AtRisk, Mail
<1>6. ItemWhileRunning' /\ NotedFirst'
  BY DEF Mail, vars, ItemWhileRunning, NotedFirst
<1>7. Accounted'
  BY <1>2, <1>3, <1>4 DEF Mail, Accounted
<1>8. RemindedOnce'
  BY <1>4, <1>5 DEF Mail, RemindedOnce, NotMailedYet
<1>9. NotMailedYet'
  <2> SUFFICES ASSUME NEW q \in Pods, at'[q] = "checked", ~Late(q)', item'[q] \in mailed'
               PROVE  AtRisk(item[q])'
    BY DEF NotMailedYet
  <2>1. q # p /\ at[q] = "checked" /\ item'[q] = item[q] /\ ~Late(q)
    BY <1>1 DEF Mail
  <2>2. Late(p)
    BY <2>1, OneRunsInTime DEF ItemWhileRunning, Mail
  <2> QED
    BY <2>1, <2>2, <1>4, <1>5 DEF Mail, NotMailedYet
<1> QED
  BY <1>6, <1>7, <1>8, <1>9

LEMMA NotifyStep == ASSUME SInv, SweepTypeOK', IInv', NEW p \in Pods, Notify(p) PROVE SInv'
<1> USE DEF SInv, SweepTypeOK
<1>1. \A q \in Pods : Unlogged(q)' = Unlogged(q) /\ (Late(q)' <=> Late(q))
  BY DEF Notify, Unlogged, Late, vars
<1>2. \A r : AtRisk(r)' <=> AtRisk(r)
  BY <1>1 DEF AtRisk, Notify
<1>3. ItemWhileRunning' /\ NotedFirst'
  BY DEF Notify, vars, ItemWhileRunning, NotedFirst
<1>4. Accounted' /\ RemindedOnce'
  BY <1>1, <1>2 DEF Notify, Accounted, RemindedOnce
<1>5. NotMailedYet'
  BY <1>1, <1>2 DEF Notify, NotMailedYet
<1> QED
  BY <1>3, <1>4, <1>5

LEMMA RecordStep == ASSUME SInv, SweepTypeOK', IInv', NEW p \in Pods, Record(p) PROVE SInv'
<1> USE DEF SInv, SweepTypeOK
<1>1. \A q \in Pods : Late(q)' <=> Late(q)
  BY DEF Record, Late, vars
<1>2. \A q \in Pods : q # p => Unlogged(q)' = Unlogged(q)
  BY DEF Record, PutDown, Unlogged
<1>3. Unlogged(p) = {item[p]}
  BY DEF Record, Unlogged
<1>4. \A r : AtRisk(r) => AtRisk(r)'
  BY <1>1, <1>2, <1>3 DEF AtRisk, Record
<1>5. ItemWhileRunning' /\ NotedFirst'
  BY DEF Record, PutDown, vars, ItemWhileRunning, NotedFirst
<1>6. Accounted'
  BY <1>2, <1>3, <1>4 DEF Record, Accounted
<1>7. RemindedOnce'
  BY <1>4 DEF Record, RemindedOnce, NotedFirst
<1>8. NotMailedYet'
  BY <1>1, <1>4 DEF Record, PutDown, NotMailedYet
<1> QED
  BY <1>5, <1>6, <1>7, <1>8

\* The body ends or the pod dies: what it mailed and has not logged is loose.
LEMMA StopStep ==
  ASSUME SInv, SweepTypeOK', IInv', NEW p \in Pods, EndSweep(p) \/ CrashSweep(p)
  PROVE  SInv'
<1> USE DEF SInv, SweepTypeOK, EndSweep, CrashSweep, EndBody, Crash, Settle
<1>1. \A q \in Pods : q # p => (Late(q)' <=> Late(q))
  BY DEF Late, IInv, TypeOK
<1>2. \A q \in Pods : q # p => Unlogged(q)' = Unlogged(q)
  BY DEF PutDown, Unlogged
<1>3. \A r : AtRisk(r) \/ r \in Unlogged(p) => AtRisk(r)'
  BY <1>1, <1>2 DEF AtRisk
<1>4. ItemWhileRunning' /\ NotedFirst'
  BY DEF PutDown, ItemWhileRunning, NotedFirst, IInv, TypeOK
<1>5. Accounted'
  BY <1>2, <1>3 DEF Accounted
<1>6. RemindedOnce'
  BY <1>3 DEF RemindedOnce
<1>7. NotMailedYet'
  BY <1>1, <1>3 DEF PutDown, NotMailedYet
<1> QED
  BY <1>4, <1>5, <1>6, <1>7

LEMMA StepSInv == SInv /\ [SweepNext]_sweepVars => SInv'
<1> SUFFICES ASSUME SInv, [SweepNext]_sweepVars PROVE SInv'
  OBVIOUS
<1>1. SweepTypeOK'
  BY SweepTypeStep
<1>2. IInv'
  BY SweepStepIsLockStep, StepIInv DEF SInv
<1> USE <1>1, <1>2
<1>3. ASSUME NEW p \in Pods, AroundBody(p) PROVE SInv'
  <2>1. \A q \in Pods : at[q] # "none" => pc'[q] = "running" /\ (Late(q) => Late(q)')
    BY <1>3
       DEF SInv, ItemWhileRunning, AroundBody, Fire, AcquireGranted, AcquireBusyRetry,
           AcquireBusySkip, AcquireError, Release, ReleaseError, Restart, Settle, Late, IInv, TypeOK
  <2> QED
    BY <1>3, <2>1, IdleStep DEF Idle, AroundBody, sweep, local
<1>4. ASSUME NEW p \in Pods, BeginSweep(p) PROVE SInv'
  <2>1. \A q \in Pods : at[q] # "none" => pc'[q] = "running" /\ (Late(q) => Late(q)')
    BY <1>4 DEF SInv, ItemWhileRunning, BeginSweep, BeginBody, Late, IInv, TypeOK
  <2> QED
    BY <1>4, <2>1, IdleStep DEF Idle, BeginSweep
<1>5. ASSUME NEW a \in Apps, DaysPass(a) \/ RecordEvent(a) PROVE SInv'
  <2>1. \A q \in Pods : at[q] # "none" => pc'[q] = "running" /\ (Late(q) => Late(q)')
    BY <1>5 DEF SInv, ItemWhileRunning, DaysPass, RecordEvent, vars, Late
  <2> QED
    BY <1>5, <2>1, IdleStep DEF Idle, DaysPass, RecordEvent, local
<1>6. CASE Clock
  <2>1. \A q \in Pods : at[q] # "none" => pc'[q] = "running" /\ (Late(q) => Late(q)')
    BY <1>6, LockTtlPositive DEF SInv, ItemWhileRunning, Clock, Tick, Late, IInv, TypeOK
  <2> QED
    BY <1>6, <2>1, IdleStep DEF Idle, Clock, sweep, local
<1>7. CASE UNCHANGED sweepVars
  <2>1. \A q \in Pods : at[q] # "none" => pc'[q] = "running" /\ (Late(q) => Late(q)')
    BY <1>7 DEF SInv, ItemWhileRunning, sweepVars, vars, Late
  <2> QED
    BY <1>7, <2>1, IdleStep DEF Idle, sweepVars, sweep, local
<1> QED
  BY <1>3, <1>4, <1>5, <1>6, <1>7, CheckStep, SkipUserStep, MailStep, NotifyStep, RecordStep, StopStep
     DEF SweepNext, SweepStep

THEOREM SweepInvariance == SweepSpec => []SInv
BY InitSInv, StepSInv, PTL DEF SweepSpec

\* The types of the sweep, for any applications, thresholds and pods.
THEOREM SweepTypeCorrect == SweepSpec => []SweepTypeOK
<1>1. SInv => SweepTypeOK
  BY DEF SInv
<1> QED
  BY SweepInvariance, <1>1, PTL

\* No application is reminded twice of one threshold unless a body failed or
\* outlived its lease between the mail and the log.
THEOREM ReminderCorrect == SweepSpec => []RemindedOnce
<1>1. SInv => RemindedOnce
  BY DEF SInv
<1> QED
  BY SweepInvariance, <1>1, PTL

\* The lock still implements the abstract lease with the sweep under it.
THEOREM SweepRefinesLease == SweepSpec => ImplementsLease
BY SweepHasLock, Refinement, PTL

-----------------------------------------------------------------------------
(***************************************************************************)
(* Proofs about Applications, for any number of rage runs, auto-apply      *)
(* jobs, callers, jobs and attempts and any limits.                        *)
(*                                                                         *)
(* The cap.  That an auto-apply job counts once and submits later is held  *)
(* together by FitsUnderCap: as long as nobody applies beside it, the      *)
(* applications of the hour and those it still has planned fit under the   *)
(* cap; a step of its own moves one from the second to the first.          *)
(*                                                                         *)
(* The limit.  A run begins only on a check that no run has come between,  *)
(* so that the counter lacks one run at most (ChecksAreFresh, CountsRuns). *)
(***************************************************************************)

\* A call that is at a job knows which, and an auto-apply job that is not over has an
\* attempt left.
AtAJob ==
  /\ \A c \in Calls : stage[c] \in {"tailor", "recheck", "create", "event"} => target[c] \in Jobs
  /\ \A a \in Autos : stage[a] # "done" => tries[a] < MaxAttempts

\* The applications an auto-apply job may still submit.
Planned(a) ==
  IF stage[a] = "select" THEN budget[a]
  ELSE IF stage[a] = "next" THEN Cardinality(picks[a])
  ELSE Cardinality(picks[a]) + 1

\* As long as nobody applies beside it, what a job may still submit fits under the cap.
FitsUnderCap ==
  \A a \in Autos \ overtaken :
    stage[a] \notin {"idle", "done"} => Cardinality(recent) + Planned(a) <= HourlyCap

\* Whoever has checked the counter since a run was last under way has seen what it is.
ChecksAreFresh ==
  /\ fresh # {} => UnderWay = {}
  /\ \A r \in fresh : stage[r] = "lock" => counter < DailyLimit

\* The runs that began and are not in the counter.
Uncounted == {r \in UnderWay : stage[r] # "release"}

\* As long as the runs neither overlap nor end uncounted: one is under way at a time, and
\* it is the only one that the counter may lack.
CountsRuns ==
  /\ IsFiniteSet(begun)
  /\ \A q, r \in UnderWay : q = r
  /\ Cardinality(begun) <= counter + (IF Uncounted = {} THEN 0 ELSE 1)
  /\ \A r \in Rages : stage[r] = "write" => written[r] = counter + 1
  /\ Cardinality(begun) <= DailyLimit

AppTypes == ApplicationsTypeOK /\ AtAJob

-----------------------------------------------------------------------------
\* Where a call goes: the others stay where they are.
LEMMA RageLeaves ==
  ASSUME AppTypes, NEW r \in Rages, RageStep(r) \/ RunCrash(r)
  PROVE  /\ UNCHANGED <<by, recent, timeline, guarded, budget, hopeless, tries, overtaken>>
         /\ DOMAIN stage' = Calls /\ \A c \in Calls \ {r} : stage'[c] = stage[c]
         /\ \A c \in Calls \ {r} : target'[c] = target[c]
         /\ \A c \in Runs \ {r} : picks'[c] = picks[c]
<1> USE DEF AppTypes, ApplicationsTypeOK, Goto, Leave
<1>1. UNCHANGED <<by, recent, timeline, guarded, budget, hopeless, tries, overtaken>>
  BY DEF RageStep, CheckLimit, TakeLock, SkipGuards, RunSelect, RunEnd, RunError, ReadCounter,
    WriteCounter, EndRun, RunCrash, Begin, appVars, autoVars, guardVars
<1>2. DOMAIN stage' = Calls /\ \A c \in Calls \ {r} : stage'[c] = stage[c]
  BY DEF RageStep, CheckLimit, TakeLock, SkipGuards, RunSelect, RunEnd, RunError, ReadCounter,
    WriteCounter, EndRun, RunCrash, Begin
<1>3. \A c \in Calls \ {r} : target'[c] = target[c]
  BY DEF RageStep, CheckLimit, TakeLock, SkipGuards, RunSelect, RunEnd, RunError, ReadCounter,
    WriteCounter, EndRun, RunCrash
<1>4. \A c \in Runs \ {r} : picks'[c] = picks[c]
  BY DEF RageStep, CheckLimit, TakeLock, SkipGuards, RunSelect, RunEnd, RunError, ReadCounter,
    WriteCounter, EndRun, RunCrash
<1> QED
  BY <1>1, <1>2, <1>3, <1>4

LEMMA RageTypes ==
  ASSUME AppTypes, NEW r \in Rages, RageStep(r) \/ RunCrash(r)
  PROVE  AppTypes'
<1> USE ApplicationsAssumption DEF AppTypes, ApplicationsTypeOK, AtAJob, Calls, Runs, Picking
<1>1. /\ stage'[r] \in {"idle", "lock", "select", "next", "read", "write", "release", "done"}
  BY DEF RageStep, CheckLimit, TakeLock, SkipGuards, RunSelect, RunEnd, RunError, ReadCounter,
    WriteCounter, EndRun, RunCrash, Begin, Goto, Leave
<1>2. picks' \in [Runs -> SUBSET Jobs]
  <2>1. CASE RunSelect(r)
    BY <2>1 DEF RunSelect, Open
  <2>2. CASE EndRun(r) \/ RunCrash(r)
    BY <2>2 DEF EndRun, RunCrash, Leave
  <2>3. CASE ~RunSelect(r) /\ ~EndRun(r) /\ ~RunCrash(r)
    BY <2>3 DEF RageStep, CheckLimit, TakeLock, SkipGuards, RunEnd, RunError, ReadCounter, WriteCounter
  <2> QED
    BY <2>1, <2>2, <2>3
<1>3. target' \in [Calls -> Jobs \cup {None}]
  BY DEF RageStep, CheckLimit, TakeLock, SkipGuards, RunSelect, RunEnd, RunError, ReadCounter,
    WriteCounter, EndRun, RunCrash, Leave
<1>4. lock' \in Rages \cup {None} /\ counter' \in Nat /\ written' \in [Rages -> Nat]
  BY DEF RageStep, CheckLimit, TakeLock, SkipGuards, RunSelect, RunEnd, RunError, ReadCounter,
    WriteCounter, EndRun, RunCrash, guardVars
<1>5. begun' \subseteq Rages /\ fresh' \subseteq Rages /\ unsure' \in BOOLEAN
  <2>1. CASE CheckLimit(r)
    BY <2>1 DEF CheckLimit
  <2>2. CASE TakeLock(r) \/ SkipGuards(r)
    BY <2>2 DEF TakeLock, SkipGuards, Begin
  <2>3. CASE ~CheckLimit(r) /\ ~TakeLock(r) /\ ~SkipGuards(r)
    BY <2>3 DEF RageStep, RunSelect, RunEnd, RunError, ReadCounter, WriteCounter, EndRun, RunCrash,
      guardVars
  <2> QED
    BY <2>1, <2>2, <2>3
<1>6. \A q \in Rages : stage'[q] \in Picking \cup {"idle", "lock", "read", "write", "release", "done"}
  BY <1>1, RageLeaves
<1>7. \A c \in Autos \cup Applies : stage'[c] = stage[c]
  BY RageLeaves
<1>8. \A c \in Calls : stage'[c] \in {"tailor", "recheck", "create", "event"} => target'[c] \in Jobs
  BY <1>1, RageLeaves
<1>9. UNCHANGED <<by, recent, timeline, guarded, budget, hopeless, tries, overtaken>> /\ DOMAIN stage' = Calls
  BY RageLeaves
<1>10. \A a \in Autos : stage'[a] # "done" => tries'[a] < MaxAttempts
  BY <1>7, <1>9
<1>11. AtAJob'
  BY <1>8, <1>10
<1>12. ApplicationsTypeOK'
  BY <1>2, <1>3, <1>4, <1>5, <1>6, <1>7, <1>9
<1> QED
  BY <1>11, <1>12

LEMMA AutoLeaves ==
  ASSUME AppTypes, NEW a \in Autos, AutoStep(a)
  PROVE  /\ UNCHANGED <<by, recent, timeline, guardVars>>
         /\ DOMAIN stage' = Calls /\ \A c \in Calls \ {a} : stage'[c] = stage[c]
         /\ \A c \in Calls \ {a} : target'[c] = target[c]
         /\ \A c \in Runs \ {a} : picks'[c] = picks[c]
         /\ \A b \in Autos \ {a} : budget'[b] = budget[b] /\ tries'[b] = tries[b]
         /\ overtaken \ {a} \subseteq overtaken' /\ overtaken' \subseteq overtaken
<1> USE DEF AppTypes, ApplicationsTypeOK, Goto, Leave
<1>1. UNCHANGED <<by, recent, timeline, guardVars>>
  BY DEF AutoStep, Count, Select, End, AutoError, appVars
<1>2. DOMAIN stage' = Calls /\ \A c \in Calls \ {a} : stage'[c] = stage[c]
  BY DEF AutoStep, Count, Select, End, AutoError, Retry, Finish
<1>3. \A c \in Calls \ {a} : target'[c] = target[c]
  BY DEF AutoStep, Count, Select, End, AutoError, Retry, Finish
<1>4. \A c \in Runs \ {a} : picks'[c] = picks[c]
  BY DEF AutoStep, Count, Select, End, AutoError, Retry, Finish
<1>5. \A b \in Autos \ {a} : budget'[b] = budget[b]
  BY DEF AutoStep, Count, Select, End, AutoError, Retry, Finish
<1>6. \A b \in Autos \ {a} : tries'[b] = tries[b]
  BY DEF AutoStep, Count, Select, End, AutoError, Retry, Finish
<1>7. overtaken \ {a} \subseteq overtaken' /\ overtaken' \subseteq overtaken
  BY DEF AutoStep, Count, Select, End, AutoError, Retry, Finish
<1> QED
  BY <1>1, <1>2, <1>3, <1>4, <1>5, <1>6, <1>7

LEMMA AutoTypes ==
  ASSUME AppTypes, NEW a \in Autos, AutoStep(a)
  PROVE  AppTypes'
<1> USE ApplicationsAssumption DEF AppTypes, ApplicationsTypeOK, AtAJob, Calls, Runs, Picking
<1>1. stage'[a] \in {"idle", "select", "next", "done"}
  BY DEF AutoStep, Count, Select, End, AutoError, Retry, Finish, Goto, Leave
<1>2. picks' \in [Runs -> SUBSET Jobs]
  <2>1. CASE Count(a)
    BY <2>1 DEF Count
  <2>2. CASE Select(a)
    BY <2>2 DEF Select, Open
  <2>3. CASE End(a) \/ AutoError(a)
    BY <2>3 DEF End, AutoError, Retry, Finish, Leave
  <2> QED
    BY <2>1, <2>2, <2>3 DEF AutoStep
<1>3. target' \in [Calls -> Jobs \cup {None}]
  BY DEF AutoStep, Count, Select, End, AutoError, Retry, Finish, Leave
<1>4. budget' \in [Autos -> Nat] /\ hopeless' \in [Autos -> BOOLEAN]
  <2>1. CASE Count(a)
    <3>1. Cardinality(recent) \in Nat
      BY FS_Subset, FS_CardinalityType
    <3>2. Cardinality(recent) < HourlyCap => HourlyCap - Cardinality(recent) \in Nat
      BY <3>1
    <3>3. /\ UNCHANGED hopeless
          /\ \/ UNCHANGED budget
             \/ /\ ~(Cardinality(recent) >= HourlyCap)
                /\ budget' = [budget EXCEPT ![a] = HourlyCap - Cardinality(recent)]
      BY <2>1 DEF Count
    <3> QED
      BY <3>1, <3>2, <3>3
  <2>2. CASE Select(a)
    BY <2>2 DEF Select
  <2>3. CASE End(a) \/ AutoError(a)
    <3>1. budget' = [budget EXCEPT ![a] = 0] /\ hopeless' = [hopeless EXCEPT ![a] = TRUE]
      BY <2>3 DEF End, AutoError, Retry, Finish
    <3> QED
      BY <3>1
  <2> QED
    BY <2>1, <2>2, <2>3 DEF AutoStep
<1>5. tries' \in [Autos -> 0 .. MaxAttempts] /\ (stage'[a] # "done" => tries'[a] < MaxAttempts)
  <2>1. CASE UNCHANGED tries /\ stage[a] # "done"
    BY <2>1
  <2>2. CASE UNCHANGED tries /\ stage'[a] = "done"
    BY <2>2
  <2>3. CASE Retry(a) /\ stage[a] # "done"
    <3>1. tries[a] \in Nat /\ tries[a] < MaxAttempts
      BY <2>3
    <3>2. tries[a] + 1 \in 0 .. MaxAttempts
      BY <3>1
    <3>3. tries' = [tries EXCEPT ![a] = tries[a] + 1]
      BY <2>3 DEF Retry
    <3>4. stage'[a] # "done" => tries[a] + 1 < MaxAttempts
      BY <2>3, <3>1 DEF Retry, Finish, Leave, Goto
    <3> QED
      BY <3>2, <3>3, <3>4
  <2> QED
    BY <2>1, <2>2, <2>3 DEF AutoStep, Count, Select, End, AutoError, Finish, Leave, Goto
<1>6. \A c \in Rages \cup Applies : stage'[c] = stage[c]
  BY AutoLeaves
<1>7. \A b \in Autos : stage'[b] \in Picking \cup {"idle", "recheck", "done"}
  BY <1>1, AutoLeaves
<1>8. \A c \in Calls : stage'[c] \in {"tailor", "recheck", "create", "event"} => target'[c] \in Jobs
  BY <1>1, AutoLeaves
<1>9. \A b \in Autos : stage'[b] # "done" => tries'[b] < MaxAttempts
  BY <1>5, AutoLeaves
<1>10. UNCHANGED <<by, recent, timeline, guardVars>> /\ DOMAIN stage' = Calls /\ overtaken' \subseteq Autos
  BY AutoLeaves
<1>11. AtAJob'
  BY <1>8, <1>9
<1>12. ApplicationsTypeOK'
  BY <1>2, <1>3, <1>4, <1>5, <1>6, <1>7, <1>10 DEF guardVars
<1> QED
  BY <1>11, <1>12

-----------------------------------------------------------------------------
\* A row: the job was free, it is taken now, and whoever was at it beside is overtaken.
LEMMA SubmitTypes ==
  ASSUME AppTypes, NEW c \in Calls, NEW j \in Jobs, Submit(c, j)
  PROVE  /\ by' \in [Jobs -> Calls \cup {None}]
         /\ recent' \subseteq Jobs /\ overtaken' \subseteq Autos
BY DEF Submit, AppTypes, ApplicationsTypeOK

LEMMA PickLeaves ==
  ASSUME AppTypes, NEW c \in Runs, PickStep(c)
  PROVE  /\ UNCHANGED <<timeline, guardVars, budget, tries>>
         /\ DOMAIN stage' = Calls /\ \A d \in Calls \ {c} : stage'[d] = stage[d]
         /\ \A d \in Calls \ {c} : target'[d] = target[d]
         /\ \A d \in Runs \ {c} : picks'[d] = picks[d]
<1> USE DEF AppTypes, ApplicationsTypeOK, Goto, Return
<1>1. UNCHANGED <<timeline, guardVars, budget, tries>>
  BY DEF PickStep, Find, FindError, Tailor, Recheck, Create, PickError, appVars, autoVars
<1>2. DOMAIN stage' = Calls /\ \A d \in Calls \ {c} : stage'[d] = stage[d]
  BY DEF PickStep, Find, FindError, Tailor, Recheck, Create, PickError
<1>3. \A d \in Calls \ {c} : target'[d] = target[d]
  BY DEF PickStep, Find, FindError, Tailor, Recheck, Create, PickError
<1>4. \A d \in Runs \ {c} : picks'[d] = picks[d]
  BY DEF PickStep, Find, FindError, Tailor, Recheck, Create, PickError
<1> QED
  BY <1>1, <1>2, <1>3, <1>4

LEMMA PickTypes ==
  ASSUME AppTypes, NEW c \in Runs, PickStep(c)
  PROVE  AppTypes'
<1> USE ApplicationsAssumption DEF AppTypes, ApplicationsTypeOK, AtAJob, Calls, Runs, Picking
<1>1. /\ UNCHANGED <<timeline, guardVars, budget, tries>> /\ DOMAIN stage' = Calls
      /\ \A d \in Calls \ {c} : stage'[d] = stage[d] /\ target'[d] = target[d]
  BY PickLeaves
<1>2. /\ stage'[c] \in {"next", "tailor", "recheck", "create"}
      /\ stage'[c] = "recheck" => c \in Autos
      /\ stage[c] \notin {"idle", "done"}
  BY DEF PickStep, Find, FindError, Tailor, Recheck, Create, PickError, Goto, Return
<1>3. picks' \in [Runs -> SUBSET Jobs]
  BY DEF PickStep, Find, FindError, Tailor, Recheck, Create, PickError
<1>4. target' \in [Calls -> Jobs \cup {None}]
  BY DEF PickStep, Find, FindError, Tailor, Recheck, Create, PickError, Return
<1>5. stage'[c] # "next" => target'[c] \in Jobs
  BY DEF PickStep, Find, FindError, Tailor, Recheck, Create, PickError, Goto, Return
<1>6. hopeless' \in [Autos -> BOOLEAN]
  <2>1. UNCHANGED hopeless \/ Succeeded(c)
    BY DEF PickStep, Find, FindError, Tailor, Recheck, Create, PickError, autoVars
  <2>2. CASE Succeeded(c)
    BY <2>2 DEF Succeeded
  <2> QED
    BY <2>1, <2>2
<1>7. by' \in [Jobs -> Calls \cup {None}] /\ recent' \subseteq Jobs /\ overtaken' \subseteq Autos
  <2>1. CASE Create(c) /\ by[target[c]] = None
    <3>1. target[c] \in Jobs /\ Submit(c, target[c])
      BY <2>1 DEF Create
    <3> QED
      BY <3>1, SubmitTypes
  <2>2. CASE ~(Create(c) /\ by[target[c]] = None)
    BY <2>2 DEF PickStep, Find, FindError, Tailor, Recheck, Create, PickError, appVars
  <2> QED
    BY <2>1, <2>2
<1>8. /\ \A r \in Rages : stage'[r] \in Picking \cup {"idle", "lock", "read", "write", "release", "done"}
      /\ \A a \in Autos : stage'[a] \in Picking \cup {"idle", "recheck", "done"}
      /\ \A p \in Applies : stage'[p] \in {"idle", "create", "event", "done"}
  BY <1>1, <1>2
<1>9. \A d \in Calls : stage'[d] \in {"tailor", "recheck", "create", "event"} => target'[d] \in Jobs
  BY <1>1, <1>2, <1>5
<1>10. \A a \in Autos : stage'[a] # "done" => tries'[a] < MaxAttempts
  BY <1>1, <1>2
<1>11. AtAJob'
  BY <1>9, <1>10
<1>12. ApplicationsTypeOK'
  BY <1>1, <1>3, <1>4, <1>6, <1>7, <1>8 DEF guardVars
<1> QED
  BY <1>11, <1>12

LEMMA ApplyLeaves ==
  ASSUME AppTypes, NEW p \in Applies, ApplyStep(p)
  PROVE  /\ UNCHANGED <<guardVars, autoVars, picks>>
         /\ DOMAIN stage' = Calls /\ \A d \in Calls \ {p} : stage'[d] = stage[d]
         /\ \A d \in Calls \ {p} : target'[d] = target[d]
<1> USE DEF AppTypes, ApplicationsTypeOK, Goto, Return
<1>1. UNCHANGED <<guardVars, autoVars, picks>>
  BY DEF ApplyStep, Look, Apply, RecordSubmitted, ApplyError
<1>2. DOMAIN stage' = Calls /\ \A d \in Calls \ {p} : stage'[d] = stage[d]
  BY DEF ApplyStep, Look, Apply, RecordSubmitted, ApplyError
<1>3. \A d \in Calls \ {p} : target'[d] = target[d]
  BY DEF ApplyStep, Look, Apply, RecordSubmitted, ApplyError
<1> QED
  BY <1>1, <1>2, <1>3

LEMMA ApplyTypes ==
  ASSUME AppTypes, NEW p \in Applies, ApplyStep(p)
  PROVE  AppTypes'
<1> USE ApplicationsAssumption DEF AppTypes, ApplicationsTypeOK, AtAJob, Calls, Runs, Picking
<1>1. /\ UNCHANGED <<guardVars, autoVars, picks>> /\ DOMAIN stage' = Calls
      /\ \A d \in Calls \ {p} : stage'[d] = stage[d] /\ target'[d] = target[d]
  BY ApplyLeaves
<1>2. stage'[p] \in {"create", "event", "done"}
  BY DEF ApplyStep, Look, Apply, RecordSubmitted, ApplyError, Goto, Return
<1>3. target' \in [Calls -> Jobs \cup {None}]
  BY DEF ApplyStep, Look, Apply, RecordSubmitted, ApplyError, Return
<1>4. stage'[p] # "done" => target'[p] \in Jobs
  BY DEF ApplyStep, Look, Apply, RecordSubmitted, ApplyError, Goto, Return
<1>5. timeline' \subseteq Jobs
  BY DEF ApplyStep, Look, Apply, RecordSubmitted, ApplyError, appVars
<1>6. by' \in [Jobs -> Calls \cup {None}] /\ recent' \subseteq Jobs /\ overtaken' \subseteq Autos
  <2>1. CASE Apply(p) /\ by[target[p]] = None
    <3>1. target[p] \in Jobs /\ Submit(p, target[p])
      BY <2>1 DEF Apply
    <3> QED
      BY <3>1, SubmitTypes
  <2>2. CASE ~(Apply(p) /\ by[target[p]] = None)
    BY <2>2 DEF ApplyStep, Look, Apply, RecordSubmitted, ApplyError, appVars
  <2> QED
    BY <2>1, <2>2
<1>7. /\ \A c \in Rages \cup Autos : stage'[c] = stage[c]
      /\ \A q \in Applies : stage'[q] \in {"idle", "create", "event", "done"}
  BY <1>1, <1>2
<1>8. AtAJob'
  BY <1>1, <1>4, <1>7 DEF autoVars
<1>9. ApplicationsTypeOK'
  BY <1>1, <1>3, <1>5, <1>6, <1>7 DEF guardVars, autoVars
<1> QED
  BY <1>8, <1>9

LEMMA SurroundingsType ==
  AppTypes /\ (LockExpires \/ HourPasses \/ UNCHANGED applicationsVars) => AppTypes'
<1> SUFFICES ASSUME AppTypes, LockExpires \/ HourPasses \/ UNCHANGED applicationsVars
             PROVE  AppTypes'
  OBVIOUS
<1>1. lock' \in Rages \cup {None} /\ recent' \subseteq Jobs
  BY DEF LockExpires, HourPasses, applicationsVars, appVars, guardVars, AppTypes, ApplicationsTypeOK
<1>2. UNCHANGED <<by, timeline, guarded, counter, stage, picks, target, budget, hopeless, tries,
                  written, begun, fresh, unsure, overtaken>>
  BY DEF LockExpires, HourPasses, applicationsVars, appVars, guardVars, autoVars
<1> QED
  BY <1>1, <1>2 DEF AppTypes, ApplicationsTypeOK, AtAJob

LEMMA AppTypesStep == AppTypes /\ [ApplicationsNext]_applicationsVars => AppTypes'
<1> SUFFICES ASSUME AppTypes, [ApplicationsNext]_applicationsVars PROVE AppTypes'
  OBVIOUS
<1>1. ASSUME NEW c \in Rages \cup Autos, PickStep(c) PROVE AppTypes'
  BY <1>1, PickTypes DEF Runs
<1> QED
  BY <1>1, RageTypes, AutoTypes, ApplyTypes, SurroundingsType DEF ApplicationsNext

LEMMA AppTypesInit == ApplicationsInit => AppTypes
<1> SUFFICES ASSUME ApplicationsInit PROVE AppTypes
  OBVIOUS
<1> USE ApplicationsAssumption DEF ApplicationsInit
<1>1. \A c \in Calls : stage[c] = "idle"
  OBVIOUS
<1>2. tries \in [Autos -> 0 .. MaxAttempts] /\ \A a \in Autos : tries[a] < MaxAttempts
  OBVIOUS
<1>3. AtAJob
  BY <1>1, <1>2 DEF AtAJob
<1>4. /\ DOMAIN stage = Calls
      /\ \A c \in Rages \cup Autos \cup Applies : stage[c] = "idle"
  BY <1>1 DEF Calls, Runs
<1>5. ApplicationsTypeOK
  BY <1>2, <1>4 DEF ApplicationsTypeOK
<1> QED
  BY <1>3, <1>5 DEF AppTypes

LEMMA AppTypesAlways == ApplicationsSpec => []AppTypes
BY AppTypesInit, AppTypesStep, PTL DEF ApplicationsSpec

\* Every variable keeps its type, for any number of runs, jobs and attempts.
THEOREM ApplicationsTypeCorrect == ApplicationsSpec => []ApplicationsTypeOK
<1>1. AppTypes => ApplicationsTypeOK
  BY DEF AppTypes
<1> QED
  BY <1>1, AppTypesAlways, PTL

-----------------------------------------------------------------------------
\* The rows change only where a free job is taken by the call that is at it; and those who
\* applied in the last hour change with them, or an hour passes.
Takes(c) ==
  /\ stage[c] = "create" /\ c \in Calls
  /\ target[c] \in Jobs /\ by[target[c]] = None
  /\ Submit(c, target[c])

LEMMA RowStep ==
  ASSUME AppTypes, [ApplicationsNext]_applicationsVars
  PROVE  (\E c \in Calls : Takes(c)) \/ (UNCHANGED by /\ recent' \subseteq recent)
<1> USE DEF AppTypes, AtAJob, Calls, Runs
<1>1. ASSUME NEW c \in Runs, PickStep(c)
      PROVE  Takes(c) \/ (UNCHANGED by /\ recent' \subseteq recent)
  BY <1>1 DEF PickStep, Find, FindError, Tailor, Recheck, Create, PickError, Takes, appVars
<1>2. ASSUME NEW p \in Applies, ApplyStep(p)
      PROVE  Takes(p) \/ (UNCHANGED by /\ recent' \subseteq recent)
  BY <1>2 DEF ApplyStep, Look, Apply, RecordSubmitted, ApplyError, Takes, appVars
<1>3. ASSUME NEW r \in Rages, RageStep(r) \/ RunCrash(r) PROVE UNCHANGED by /\ recent' \subseteq recent
  BY <1>3, RageLeaves
<1>4. ASSUME NEW a \in Autos, AutoStep(a) PROVE UNCHANGED by /\ recent' \subseteq recent
  BY <1>4, AutoLeaves
<1>5. CASE LockExpires \/ HourPasses \/ UNCHANGED applicationsVars
  BY <1>5 DEF LockExpires, HourPasses, applicationsVars, appVars
<1> QED
  BY <1>1, <1>2, <1>3, <1>4, <1>5 DEF ApplicationsNext

LEMMA FirstStep ==
  ASSUME AppTypes, [ApplicationsNext]_applicationsVars, NEW j \in Jobs, by[j] # None
  PROVE  by'[j] = by[j]
<1>1. ASSUME NEW c \in Calls, Takes(c) PROVE by'[j] = by[j]
  BY <1>1 DEF Takes, Submit, AppTypes, ApplicationsTypeOK
<1> QED
  BY <1>1, RowStep

\* However many runs, auto-apply jobs and users race for a job, whoever submitted first
\* keeps the application.
THEOREM FirstComeIsServed == ApplicationsSpec => FirstComeFirstServed
<1>1. AppTypes /\ [ApplicationsNext]_applicationsVars
        => [\A j \in Jobs : by[j] # None => by'[j] = by[j]]_applicationsVars
  BY FirstStep
<1> QED
  BY <1>1, AppTypesAlways, PTL DEF ApplicationsSpec, FirstComeFirstServed

-----------------------------------------------------------------------------
\* Only a rage run's own step moves it, and only past its guards does it come under way.
LEMMA GuardsLeft ==
  ASSUME AppTypes, [ApplicationsNext]_applicationsVars,
         \A r \in Rages : ~RageStep(r) /\ ~RunCrash(r)
  PROVE  /\ UNCHANGED <<guarded, counter, written, begun, fresh, unsure>>
         /\ \A r \in Rages : \/ stage'[r] = stage[r]
                             \/ /\ stage[r] \in {"next", "tailor", "recheck", "create"}
                                /\ stage'[r] \in {"next", "tailor", "recheck", "create"}
<1> USE ApplicationsAssumption DEF Calls, Runs
<1>1. ASSUME NEW c \in Runs, PickStep(c)
      PROVE  /\ UNCHANGED <<guarded, counter, written, begun, fresh, unsure>>
             /\ \A r \in Rages : \/ stage'[r] = stage[r]
                                 \/ /\ stage[r] \in {"next", "tailor", "recheck", "create"}
                                    /\ stage'[r] \in {"next", "tailor", "recheck", "create"}
  <2>1. /\ stage[c] \in {"next", "tailor", "recheck", "create"}
        /\ stage'[c] \in {"next", "tailor", "recheck", "create"}
    BY <1>1 DEF PickStep, Find, FindError, Tailor, Recheck, Create, PickError, Goto, Return, AppTypes,
      ApplicationsTypeOK
  <2> QED
    BY <1>1, <2>1, PickLeaves DEF guardVars
<1>2. ASSUME NEW p \in Applies, ApplyStep(p)
      PROVE  UNCHANGED guardVars /\ \A r \in Rages : stage'[r] = stage[r]
  BY <1>2, ApplyLeaves
<1>3. ASSUME NEW a \in Autos, AutoStep(a)
      PROVE  UNCHANGED guardVars /\ \A r \in Rages : stage'[r] = stage[r]
  BY <1>3, AutoLeaves
<1>4. CASE LockExpires \/ HourPasses \/ UNCHANGED applicationsVars
  BY <1>4 DEF LockExpires, HourPasses, applicationsVars, guardVars
<1> QED
  BY <1>1, <1>2, <1>3, <1>4 DEF ApplicationsNext, guardVars

RunInv == AppTypes /\ ChecksAreFresh /\ (guarded /\ ~unsure => CountsRuns)

LEMMA RunInvInit == ApplicationsInit => RunInv
<1> SUFFICES ASSUME ApplicationsInit PROVE RunInv
  OBVIOUS
<1>1. \A r \in Rages : stage[r] = "idle"
  BY DEF ApplicationsInit, Calls, Runs
<1>2. begun = {} /\ fresh = {} /\ counter = 0
  BY DEF ApplicationsInit
<1>3. UnderWay = {} /\ Uncounted = {}
  BY <1>1 DEF UnderWay, Uncounted
<1>4. IsFiniteSet(begun) /\ Cardinality(begun) = 0
  BY <1>2, FS_EmptySet
<1>5. CountsRuns
  BY <1>1, <1>2, <1>3, <1>4, ApplicationsAssumption DEF CountsRuns
<1> QED
  BY <1>2, <1>5, AppTypesInit DEF RunInv, ChecksAreFresh

\* A step that moves no run in or out of its guards.
LEMMA RunsElsewhere ==
  ASSUME RunInv,
         UNCHANGED <<guarded, counter, written, begun, fresh, unsure>>,
         \A r \in Rages : \/ stage'[r] = stage[r]
                          \/ /\ stage[r] \in {"select", "next", "tailor", "recheck", "create"}
                             /\ stage'[r] \in {"next", "tailor", "recheck", "create", "read"}
  PROVE  ChecksAreFresh' /\ (guarded' /\ ~unsure' => CountsRuns')
<1>1. UnderWay' = UnderWay /\ Uncounted' = Uncounted
  BY DEF UnderWay, Uncounted
<1>2. /\ \A r \in Rages : stage'[r] = "lock" => stage[r] = "lock"
      /\ \A r \in Rages : stage'[r] = "write" => stage[r] = "write"
  OBVIOUS
<1>3. ChecksAreFresh'
  BY <1>1, <1>2 DEF RunInv, ChecksAreFresh, AppTypes, ApplicationsTypeOK
<1> QED
  BY <1>1, <1>2, <1>3 DEF RunInv, CountsRuns

\* The counter is checked: a run that checks while another is under way is not fresh.
LEMMA CheckKeepsInv ==
  ASSUME RunInv, NEW r \in Rages, CheckLimit(r)
  PROVE  ChecksAreFresh' /\ (guarded' /\ ~unsure' => CountsRuns')
<1> USE DEF RunInv, AppTypes, ApplicationsTypeOK, Calls, Runs
<1>1. /\ stage[r] = "idle" /\ stage'[r] \in {"lock", "done"}
      /\ stage'[r] = "lock" => counter < DailyLimit
      /\ \A q \in Rages \ {r} : stage'[q] = stage[q]
      /\ UNCHANGED <<guarded, counter, written, begun, unsure>>
      /\ fresh' = IF UnderWay = {} THEN fresh \cup {r} ELSE fresh \ {r}
  BY ApplicationsAssumption DEF CheckLimit, Goto
<1>2. UnderWay' = UnderWay /\ Uncounted' = Uncounted
  BY <1>1 DEF UnderWay, Uncounted
<1>3. ChecksAreFresh'
  BY <1>1, <1>2 DEF ChecksAreFresh
<1>4. \A q \in Rages : stage'[q] = "write" => stage[q] = "write"
  BY <1>1
<1> QED
  BY <1>1, <1>2, <1>3, <1>4 DEF CountsRuns

\* A run begins.  If its check is fresh, none is under way and the counter is complete.
LEMMA BeginKeepsInv ==
  ASSUME RunInv, NEW r \in Rages, Begin(r), stage[r] \in {"idle", "lock"},
         guarded => stage[r] = "lock", UNCHANGED <<guarded, counter, written>>
  PROVE  ChecksAreFresh' /\ (guarded' /\ ~unsure' => CountsRuns')
<1> USE DEF RunInv, AppTypes, ApplicationsTypeOK, Calls, Runs
<1>1. /\ stage' = [stage EXCEPT ![r] = "select"] /\ begun' = begun \cup {r} /\ fresh' = {}
      /\ unsure' = (unsure \/ r \notin fresh)
  BY DEF Begin, Goto
<1>2. ChecksAreFresh'
  BY <1>1 DEF ChecksAreFresh
<1>3. ASSUME guarded, ~unsure' PROVE CountsRuns'
  <2>1. r \in fresh /\ ~unsure /\ UnderWay = {} /\ counter < DailyLimit
    BY <1>1, <1>3 DEF ChecksAreFresh
  <2>2. Uncounted = {} /\ UnderWay' = {r} /\ Uncounted' = {r}
    BY <1>1, <2>1 DEF UnderWay, Uncounted
  <2>3. IsFiniteSet(begun) /\ Cardinality(begun) <= counter
    BY <1>3, <2>1, <2>2 DEF CountsRuns
  <2>4. IsFiniteSet(begun') /\ Cardinality(begun') <= Cardinality(begun) + 1
    <3>1. /\ IsFiniteSet(begun \cup {r})
          /\ Cardinality(begun \cup {r}) = IF r \in begun THEN Cardinality(begun) ELSE Cardinality(begun) + 1
      BY <2>3, FS_AddElement
    <3>2. Cardinality(begun) \in Nat
      BY <2>3, FS_CardinalityType
    <3> QED
      BY <1>1, <3>1, <3>2
  <2>5. Cardinality(begun) \in Nat /\ Cardinality(begun') \in Nat
    BY <2>3, <2>4, FS_CardinalityType
  <2>6. Cardinality(begun') <= counter' + 1 /\ Cardinality(begun') <= DailyLimit
    BY <2>1, <2>3, <2>4, <2>5, ApplicationsAssumption
  <2>7. \A q \in Rages : stage'[q] = "write" => q \in UnderWay
    BY <1>1 DEF UnderWay
  <2> QED
    BY <2>1, <2>2, <2>4, <2>6, <2>7 DEF CountsRuns
<1> QED
  BY <1>2, <1>3

\* A run that is under way goes on: it writes what it read, and ends when it is counted.
LEMMA GoOnKeepsInv ==
  ASSUME RunInv, NEW r \in Rages, ReadCounter(r) \/ WriteCounter(r) \/ EndRun(r)
  PROVE  ChecksAreFresh' /\ (guarded' /\ ~unsure' => CountsRuns')
<1> USE DEF RunInv, AppTypes, ApplicationsTypeOK, Calls, Runs
<1>1. /\ r \in UnderWay /\ fresh = {} /\ fresh' = {}
      /\ UNCHANGED <<guarded, begun, unsure>>
      /\ \A q \in Rages \ {r} : stage'[q] = stage[q]
  BY DEF ReadCounter, WriteCounter, EndRun, UnderWay, ChecksAreFresh, Goto, Leave
<1>2. ChecksAreFresh'
  BY <1>1 DEF ChecksAreFresh
<1>3. ASSUME guarded, ~unsure PROVE CountsRuns'
  <2>1. CountsRuns /\ UnderWay = {r} /\ \A q \in Rages \ {r} : stage'[q] \notin {"read", "write"}
    BY <1>1, <1>3 DEF CountsRuns, UnderWay
  <2>2. UnderWay' \subseteq {r}
    BY <1>1, <2>1 DEF UnderWay
  <2>3. Cardinality(begun) \in Nat
    BY <2>1, FS_CardinalityType DEF CountsRuns
  <2>4. CASE ReadCounter(r)
    <3>1. counter' = counter /\ written'[r] = counter + 1 /\ stage'[r] = "write" /\ stage[r] = "read"
      BY <2>4 DEF ReadCounter, Goto
    <3>2. r \in Uncounted /\ r \in Uncounted'
      BY <1>1, <3>1 DEF Uncounted, UnderWay
    <3> QED
      BY <1>1, <2>1, <2>2, <3>1, <3>2 DEF CountsRuns
  <2>5. CASE WriteCounter(r)
    <3>1. counter' = counter + 1 /\ stage'[r] = "release" /\ stage[r] = "write"
      BY <2>1, <2>5 DEF WriteCounter, Goto, CountsRuns
    <3>2. Cardinality(begun) <= counter'
      BY <2>1, <2>3, <3>1 DEF CountsRuns
    <3>3. Cardinality(begun) <= counter' + (IF Uncounted' = {} THEN 0 ELSE 1)
      BY <2>3, <3>1, <3>2
    <3> QED
      BY <1>1, <2>1, <2>2, <3>1, <3>3 DEF CountsRuns
  <2>6. CASE EndRun(r)
    <3>1. counter' = counter /\ stage'[r] = "done" /\ stage[r] = "release"
      BY <2>6 DEF EndRun, Leave, Goto
    <3>2. Uncounted = {}
      BY <2>1, <3>1 DEF Uncounted
    <3>3. Cardinality(begun) <= counter' + (IF Uncounted' = {} THEN 0 ELSE 1)
      BY <2>1, <2>3, <3>1, <3>2 DEF CountsRuns
    <3> QED
      BY <1>1, <2>1, <2>2, <3>1, <3>3 DEF CountsRuns
  <2> QED
    BY <2>4, <2>5, <2>6
<1> QED
  BY <1>1, <1>2, <1>3

LEMMA RageKeepsInv ==
  ASSUME RunInv, NEW r \in Rages, RageStep(r) \/ RunCrash(r)
  PROVE  ChecksAreFresh' /\ (guarded' /\ ~unsure' => CountsRuns')
<1> USE DEF RunInv, AppTypes, ApplicationsTypeOK, Calls, Runs
<1>1. CASE TakeLock(r)
  <2>1. CASE lock = None
    BY <1>1, <2>1, BeginKeepsInv DEF TakeLock
  <2>2. CASE lock # None
    <3>1. /\ stage[r] = "lock" /\ stage'[r] = "done" /\ \A q \in Rages \ {r} : stage'[q] = stage[q]
          /\ UNCHANGED <<guarded, counter, written, begun, fresh, unsure>>
      BY <1>1, <2>2 DEF TakeLock, Goto
    <3>2. UnderWay' = UnderWay /\ Uncounted' = Uncounted
      BY <3>1 DEF UnderWay, Uncounted
    <3>3. ChecksAreFresh'
      BY <3>1, <3>2 DEF ChecksAreFresh
    <3>4. \A q \in Rages : stage'[q] = "write" => stage[q] = "write"
      BY <3>1
    <3> QED
      BY <3>1, <3>2, <3>3, <3>4 DEF CountsRuns
  <2> QED
    BY <2>1, <2>2
<1>2. CASE SkipGuards(r)
  BY <1>2, BeginKeepsInv DEF SkipGuards
<1>3. CASE RunSelect(r) \/ (RunEnd(r) /\ guarded)
  <2>1. /\ stage[r] \in {"select", "next"} /\ stage'[r] \in {"next", "read"}
        /\ UNCHANGED <<guarded, counter, written, begun, fresh, unsure>>
        /\ \A q \in Rages \ {r} : stage'[q] = stage[q]
    BY <1>3 DEF RunSelect, RunEnd, Goto, guardVars
  <2> QED
    BY <2>1, RunsElsewhere
<1>4. CASE (RunEnd(r) /\ ~guarded) \/ RunError(r) \/ RunCrash(r)
  <2>1. /\ stage[r] \notin {"idle", "lock", "done"} /\ UNCHANGED fresh
        /\ ~guarded' \/ unsure'
    BY <1>4 DEF RunEnd, RunError, RunCrash, UnderWay, guardVars
  <2>2. r \in UnderWay
    BY <2>1 DEF UnderWay
  <2>3. fresh' = {}
    BY <2>1, <2>2 DEF ChecksAreFresh
  <2> QED
    BY <2>1, <2>3 DEF ChecksAreFresh
<1> QED
  BY <1>1, <1>2, <1>3, <1>4, CheckKeepsInv, GoOnKeepsInv DEF RageStep

LEMMA RunInvStep == RunInv /\ [ApplicationsNext]_applicationsVars => RunInv'
<1> SUFFICES ASSUME RunInv, [ApplicationsNext]_applicationsVars
             PROVE  ChecksAreFresh' /\ (guarded' /\ ~unsure' => CountsRuns')
  BY AppTypesStep DEF RunInv
<1>1. CASE \A r \in Rages : ~RageStep(r) /\ ~RunCrash(r)
  BY <1>1, GuardsLeft, RunsElsewhere DEF RunInv
<1>2. CASE \E r \in Rages : RageStep(r) \/ RunCrash(r)
  BY <1>2, RageKeepsInv
<1> QED
  BY <1>1, <1>2

LEMMA RunInvAlways == ApplicationsSpec => []RunInv
BY RunInvInit, RunInvStep, PTL DEF ApplicationsSpec

\* With a cache, however many rage runs a user asks for, no more of them begin than the
\* limit of the day, unless two overlapped or one ended uncounted.
THEOREM LimitIsRespected == ApplicationsSpec => []LimitRespected
<1>1. RunInv => LimitRespected
  BY DEF RunInv, CountsRuns, LimitRespected
<1> QED
  BY <1>1, RunInvAlways, PTL

-----------------------------------------------------------------------------
\* Counting the jobs of a set that is one smaller or one larger.
LEMMA JobsCount ==
  ASSUME NEW S \in SUBSET Jobs
  PROVE  /\ IsFiniteSet(S) /\ Cardinality(S) \in Nat
         /\ \A T \in SUBSET S : Cardinality(T) <= Cardinality(S)
         /\ \A j \in S : Cardinality(S \ {j}) + 1 = Cardinality(S)
         /\ \A j \in Jobs : Cardinality(S \cup {j}) <= Cardinality(S) + 1
<1>1. IsFiniteSet(S)
  BY ApplicationsAssumption, FS_Subset
<1>2. Cardinality(S) \in Nat
  BY <1>1, FS_CardinalityType
<1>3. \A T \in SUBSET S : Cardinality(T) <= Cardinality(S)
  BY <1>1, FS_Subset
<1>4. ASSUME NEW j \in S PROVE Cardinality(S \ {j}) + 1 = Cardinality(S)
  <2>1. Cardinality(S \ {j}) = Cardinality(S) - 1
    BY <1>1, FS_RemoveElement
  <2> QED
    BY <1>2, <2>1
<1>5. ASSUME NEW j \in Jobs PROVE Cardinality(S \cup {j}) <= Cardinality(S) + 1
  <2>1. Cardinality(S \cup {j}) = IF j \in S THEN Cardinality(S) ELSE Cardinality(S) + 1
    BY <1>1, FS_AddElement
  <2> QED
    BY <1>2, <2>1
<1> QED
  BY <1>1, <1>2, <1>3, <1>4, <1>5

\* What an auto-apply job may still submit, after a step of its own, fits beside what there was.
LEMMA OwnPlan ==
  ASSUME AppTypes, NEW b \in Autos, AutoStep(b) \/ PickStep(b),
         stage'[b] \notin {"idle", "done"},
         stage[b] \notin {"idle", "done"} => Cardinality(recent) + Planned(b) <= HourlyCap
  PROVE  Cardinality(recent) + Planned(b)' <= HourlyCap
<1> USE ApplicationsAssumption DEF AppTypes, ApplicationsTypeOK, AtAJob, Calls, Runs
<1>1. /\ Cardinality(recent) \in Nat /\ IsFiniteSet(picks[b]) /\ Cardinality(picks[b]) \in Nat
      /\ budget[b] \in Nat /\ picks[b] \subseteq Jobs
  BY JobsCount
<1>2. CASE Count(b)
  <2>1. /\ ~(Cardinality(recent) >= HourlyCap) /\ stage'[b] = "select"
        /\ budget'[b] = HourlyCap - Cardinality(recent)
    BY <1>2 DEF Count, Goto
  <2> QED
    BY <1>1, <2>1 DEF Planned
<1>3. CASE Select(b)
  <2>1. /\ stage[b] = "select" /\ stage'[b] = "next"
        /\ picks'[b] \subseteq Jobs /\ Cardinality(picks'[b]) <= budget[b]
    BY <1>3 DEF Select, Goto, Open
  <2>2. Cardinality(picks'[b]) \in Nat
    BY <2>1, JobsCount
  <2> QED
    BY <1>1, <2>1, <2>2 DEF Planned
<1>4. CASE End(b) \/ AutoError(b)
  BY <1>4 DEF End, AutoError, Retry, Finish, Leave, Goto
<1>5. CASE Find(b) \/ FindError(b)
  <2>1. PICK j \in picks[b] : picks' = [picks EXCEPT ![b] = picks[b] \ {j}]
    BY <1>5 DEF Find, FindError
  <2>3. stage[b] = "next" /\ stage'[b] \in {"next", "tailor"}
    BY <1>5 DEF Find, FindError, Goto, autoVars
  <2>2. /\ Cardinality(picks'[b]) + 1 = Cardinality(picks[b]) /\ Cardinality(picks'[b]) \in Nat
    BY <1>1, <2>1, JobsCount
  <2> QED
    BY <1>1, <2>2, <2>3 DEF Planned
<1>6. CASE Tailor(b) \/ Recheck(b) \/ Create(b) \/ PickError(b)
  <2>1. /\ stage[b] \in {"tailor", "recheck", "create"}
        /\ stage'[b] \in {"next", "recheck", "create"}
        /\ picks' = picks
    BY <1>6 DEF Tailor, Recheck, Create, PickError, Return, Goto
  <2> QED
    BY <1>1, <2>1 DEF Planned
<1> QED
  BY <1>2, <1>3, <1>4, <1>5, <1>6 DEF AutoStep, PickStep

\* A step that leaves the plan of b alone, and is noted when it submits an application
\* beside b.
Beside(b) ==
  /\ stage'[b] = stage[b] /\ picks'[b] = picks[b] /\ budget'[b] = budget[b]
  /\ b \in overtaken => b \in overtaken'
  /\ stage[b] \notin {"idle", "done"} /\ b \notin overtaken' => recent' \subseteq recent

\* A step of another call, or of the surroundings, is such a step.
LEMMA OthersStep ==
  ASSUME AppTypes, [ApplicationsNext]_applicationsVars,
         NEW b \in Autos, ~AutoStep(b), ~PickStep(b)
  PROVE  Beside(b)
<1> USE ApplicationsAssumption DEF Calls, Runs
<1>1. ASSUME NEW c \in Runs, PickStep(c) PROVE Beside(b)
  <2>1. c # b
    BY <1>1
  <2>2. /\ overtaken \subseteq overtaken'
        /\ stage[b] \notin {"idle", "done"} /\ b \notin overtaken' => recent' \subseteq recent
    BY <1>1, <2>1 DEF PickStep, Find, FindError, Tailor, Recheck, Create, PickError, Submit, appVars
  <2>3. stage'[b] = stage[b] /\ picks'[b] = picks[b] /\ budget'[b] = budget[b]
    BY <1>1, <2>1, PickLeaves
  <2> QED
    BY <2>2, <2>3 DEF Beside
<1>2. ASSUME NEW p \in Applies, ApplyStep(p) PROVE Beside(b)
  <2>1. p # b
    OBVIOUS
  <2>2. /\ overtaken \subseteq overtaken'
        /\ stage[b] \notin {"idle", "done"} /\ b \notin overtaken' => recent' \subseteq recent
    BY <1>2, <2>1 DEF ApplyStep, Look, Apply, RecordSubmitted, ApplyError, Submit, appVars
  <2>3. stage'[b] = stage[b] /\ picks'[b] = picks[b] /\ budget'[b] = budget[b]
    BY <1>2, <2>1, ApplyLeaves DEF autoVars
  <2> QED
    BY <2>2, <2>3 DEF Beside
<1>3. ASSUME NEW a \in Autos, AutoStep(a) PROVE Beside(b)
  <2>1. a # b
    BY <1>3
  <2>2. stage'[b] = stage[b] /\ picks'[b] = picks[b] /\ budget'[b] = budget[b]
    BY <1>3, <2>1, AutoLeaves
  <2>3. recent' = recent /\ overtaken \ {a} \subseteq overtaken'
    BY <1>3, AutoLeaves
  <2> QED
    BY <2>1, <2>2, <2>3 DEF Beside
<1>4. ASSUME NEW r \in Rages, RageStep(r) \/ RunCrash(r) PROVE Beside(b)
  <2>1. r # b
    OBVIOUS
  <2>2. UNCHANGED <<recent, overtaken, budget>>
    BY <1>4, RageLeaves
  <2>3. stage'[b] = stage[b] /\ picks'[b] = picks[b]
    BY <1>4, <2>1, RageLeaves
  <2> QED
    BY <2>2, <2>3 DEF Beside
<1>5. CASE LockExpires \/ HourPasses \/ UNCHANGED applicationsVars
  BY <1>5 DEF LockExpires, HourPasses, applicationsVars, autoVars, appVars, Beside
<1> QED
  BY <1>1, <1>2, <1>3, <1>4, <1>5 DEF ApplicationsNext

CapInv == AppTypes /\ FitsUnderCap

\* What a job may still submit is a number.
LEMMA PlanIsNat == ASSUME AppTypes, NEW b \in Autos PROVE Planned(b) \in Nat
<1>1. budget[b] \in Nat /\ picks[b] \subseteq Jobs
  BY DEF AppTypes, ApplicationsTypeOK, Runs
<1>2. Cardinality(picks[b]) \in Nat
  BY <1>1, JobsCount
<1> QED
  BY <1>1, <1>2 DEF Planned

\* When the job itself submits, it had one more application planned than it has now.
LEMMA OwnTake ==
  ASSUME AppTypes, NEW b \in Autos, PickStep(b), ~(recent' \subseteq recent)
  PROVE  /\ stage[b] = "create" /\ stage'[b] = "next" /\ (b \in overtaken' <=> b \in overtaken)
         /\ Planned(b) = Planned(b)' + 1
         /\ \E j \in Jobs : recent' = recent \cup {j}
<1> USE ApplicationsAssumption DEF AppTypes, ApplicationsTypeOK, AtAJob, Calls, Runs
<1>1. Create(b)
  BY DEF PickStep, Find, FindError, Tailor, Recheck, PickError, appVars
<1>2. stage[b] = "create" /\ stage'[b] = "next" /\ picks' = picks /\ target[b] \in Jobs
  BY <1>1 DEF Create, Return, Goto
<1>3. (b \in overtaken' <=> b \in overtaken) /\ recent' = recent \cup {target[b]}
  BY <1>1 DEF Create, Submit
<1>4. Cardinality(picks[b]) \in Nat
  BY JobsCount
<1>5. Planned(b) = Cardinality(picks[b]) + 1 /\ Planned(b)' = Cardinality(picks[b])
  BY <1>2 DEF Planned
<1> QED
  BY <1>2, <1>3, <1>4, <1>5

\* A step keeps every job that nobody applies beside under the cap.
LEMMA CapStep == CapInv /\ [ApplicationsNext]_applicationsVars => CapInv'
<1> SUFFICES ASSUME CapInv, [ApplicationsNext]_applicationsVars,
                    NEW b \in Autos, b \notin overtaken', stage'[b] \notin {"idle", "done"}
             PROVE  Cardinality(recent') + Planned(b)' <= HourlyCap
  BY AppTypesStep DEF CapInv, FitsUnderCap
<1>0. AppTypes /\ AppTypes' /\ recent \subseteq Jobs /\ recent' \subseteq Jobs /\ HourlyCap \in Nat
  BY AppTypesStep, ApplicationsAssumption DEF CapInv, AppTypes, ApplicationsTypeOK
<1>1. /\ Cardinality(recent) \in Nat /\ Cardinality(recent') \in Nat
      /\ Planned(b) \in Nat /\ Planned(b)' \in Nat
  <2>1. Cardinality(recent) \in Nat /\ Cardinality(recent') \in Nat /\ Planned(b) \in Nat
    BY <1>0, JobsCount, PlanIsNat
  <2>2. budget'[b] \in Nat /\ picks'[b] \subseteq Jobs
    BY <1>0 DEF AppTypes, ApplicationsTypeOK, Runs
  <2>3. Cardinality(picks'[b]) \in Nat
    BY <2>2, JobsCount
  <2> QED
    BY <2>1, <2>2, <2>3 DEF Planned
<1>2. recent' \subseteq recent => Cardinality(recent') <= Cardinality(recent)
  BY <1>0, JobsCount
<1>3. CASE ~AutoStep(b) /\ ~PickStep(b)
  <2>1. Beside(b)
    BY <1>0, <1>3, OthersStep
  <2>2. /\ stage[b] \notin {"idle", "done"} /\ b \notin overtaken
        /\ Planned(b)' = Planned(b) /\ recent' \subseteq recent
    BY <2>1 DEF Beside, Planned
  <2>3. Cardinality(recent) + Planned(b) <= HourlyCap
    BY <2>2 DEF CapInv, FitsUnderCap
  <2>4. Cardinality(recent') <= Cardinality(recent)
    BY <1>2, <2>2
  <2> QED
    BY <1>0, <1>1, <2>2, <2>3, <2>4
<1>4. CASE PickStep(b) /\ ~(recent' \subseteq recent)
  <2>1. /\ stage[b] = "create" /\ b \notin overtaken /\ Planned(b) = Planned(b)' + 1
    BY <1>0, <1>4, OwnTake
  <2>2. Cardinality(recent) + Planned(b) <= HourlyCap
    BY <2>1 DEF CapInv, FitsUnderCap
  <2>3. Cardinality(recent') <= Cardinality(recent) + 1
    BY <1>0, <1>4, OwnTake, JobsCount
  <2> QED
    BY <1>0, <1>1, <2>1, <2>2, <2>3
<1>5. CASE (AutoStep(b) \/ PickStep(b)) /\ recent' \subseteq recent
  <2>1. b \notin overtaken \/ stage[b] \in {"idle", "done"}
    <3>1. CASE PickStep(b)
      BY <1>0, <3>1 DEF PickStep, Find, FindError, Tailor, Recheck, Create, PickError, Submit
    <3>2. CASE AutoStep(b)
      BY <1>0, <3>2 DEF AutoStep, Count, Select, End, AutoError, Retry, Finish, Leave, Goto,
        AppTypes, ApplicationsTypeOK, Calls, Runs
    <3> QED
      BY <1>5, <3>1, <3>2
  <2>2. stage[b] \notin {"idle", "done"} => Cardinality(recent) + Planned(b) <= HourlyCap
    BY <2>1 DEF CapInv, FitsUnderCap
  <2>3. Cardinality(recent) + Planned(b)' <= HourlyCap
    BY <1>0, <1>5, <2>2, OwnPlan
  <2> QED
    BY <1>0, <1>1, <1>2, <1>5, <2>3
<1>6. AutoStep(b) => recent' \subseteq recent
  BY <1>0, AutoLeaves
<1> QED
  BY <1>3, <1>4, <1>5, <1>6

LEMMA CapInit == ApplicationsInit => CapInv
<1>1. ApplicationsInit => FitsUnderCap
  BY DEF ApplicationsInit, FitsUnderCap, Calls, Runs
<1> QED
  BY <1>1, AppTypesInit DEF CapInv

\* A row of an auto-apply job is the one it was about to create.
LEMMA TheRow ==
  ASSUME AppTypes, [ApplicationsNext]_applicationsVars, NEW b \in Autos, NEW j \in Jobs,
         by[j] = None, by'[j] = b
  PROVE  stage[b] = "create" /\ recent' = recent \cup {j}
<1>1. b # None
  BY ApplicationsAssumption DEF Calls, Runs
<1>2. PICK c \in Calls : Takes(c)
  BY <1>1, RowStep
<1>3. j = target[c] /\ c = b
  BY <1>1, <1>2 DEF Takes, Submit, AppTypes, ApplicationsTypeOK
<1> QED
  BY <1>2, <1>3 DEF Takes, Submit

\* An auto-apply job that nobody applies beside never takes the user past the cap of the
\* hour, however often it is run again.
THEOREM CapIsRespected == ApplicationsSpec => CapRespected
<1>1. ASSUME CapInv, [ApplicationsNext]_applicationsVars
      PROVE  [\A a \in Autos, j \in Jobs :
                by[j] = None /\ by'[j] = a /\ a \notin overtaken
                  => Cardinality(recent') <= HourlyCap]_applicationsVars
  <2> SUFFICES ASSUME NEW b \in Autos, NEW j \in Jobs, by[j] = None, by'[j] = b, b \notin overtaken
               PROVE  Cardinality(recent') <= HourlyCap
    OBVIOUS
  <2>1. AppTypes /\ recent \subseteq Jobs /\ picks[b] \subseteq Jobs /\ HourlyCap \in Nat
    BY <1>1, ApplicationsAssumption DEF CapInv, AppTypes, ApplicationsTypeOK, Runs
  <2>2. Cardinality(recent) \in Nat /\ Cardinality(picks[b]) \in Nat
    BY <2>1, JobsCount
  <2>3. stage[b] = "create" /\ recent' = recent \cup {j}
    BY <1>1, <2>1, TheRow
  <2>4. Cardinality(recent) + Cardinality(picks[b]) + 1 <= HourlyCap
    <3>1. Planned(b) = Cardinality(picks[b]) + 1
      BY <2>3 DEF Planned
    <3>2. Cardinality(recent) + Planned(b) <= HourlyCap
      BY <1>1, <2>3 DEF CapInv, FitsUnderCap
    <3> QED
      BY <2>1, <2>2, <3>1, <3>2
  <2>5. Cardinality(recent') <= Cardinality(recent) + 1
    BY <2>1, <2>3, JobsCount
  <2>6. Cardinality(recent') \in Nat
    BY <2>1, <2>3, JobsCount
  <2> QED
    BY <2>1, <2>2, <2>4, <2>5, <2>6
<1> QED
  BY <1>1, CapInit, CapStep, PTL DEF ApplicationsSpec, CapRespected
=============================================================================

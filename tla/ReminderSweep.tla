---------------------------- MODULE ReminderSweep ----------------------------
(***************************************************************************)
(* The anti-ghosting sweep, RunAntiGhostingSweepUseCase, as the body that  *)
(* runGuardedJob runs under the lock of DistributedLock.                   *)
(*                                                                         *)
(* A reminder is a pair of an application and a threshold, once for each   *)
(* application and each of 7, 14 and 21 days of silence.  A body reads the *)
(* silent applications once and takes their reminders one by one: it looks *)
(* for the log row, mails, creates the notification, creates the log row.  *)
(* These are four awaits, and only the lock keeps a second body from doing *)
(* the same meanwhile.  The body's failures are logged and swallowed by    *)
(* LOG_AND_CONTINUE; what it left undone waits for the next day.           *)
(*                                                                         *)
(* Postgres and the mail transport are external.  A mail is counted when   *)
(* it is handed to the transport, whose failures the adapter swallows.     *)
(***************************************************************************)
EXTENDS DistributedLock

CONSTANTS
  Apps,     \* the JobApplication rows with status SUBMITTED
  Ladder,   \* the length of ANTI_GHOSTING_THRESHOLD_DAYS
  NoItem    \* the pod has no reminder in hand

Reminders == Apps \X (1 .. Ladder)

ASSUME LadderAssumption == Ladder \in Nat
ASSUME ItemAssumption == NoItem \notin Reminders

VARIABLES
  crossed,   \* how many thresholds the silence of each application has crossed
  answered,  \* the applications with an event after SUBMITTED
  todo,      \* the reminders each body's list makes due and has not looked at
  item,      \* the reminder in each body's hands
  at,        \* how far the body is with it
  log,       \* the rows of JobApplicationReminderLog
  notes,     \* the reminders with an APPLICATION_STALE notification
  mailed,    \* the reminders that were mailed
  twice,     \* the reminders that were mailed again
  loose      \* history: mailed by a body that failed, or was late, before the log

local == <<todo, item, at>>
rows == <<log, notes, mailed, twice, loose>>
applications == <<crossed, answered>>
sweep == <<local, rows, applications>>
sweepVars == <<vars, sweep>>

Stages == {"none", "checked", "mailed", "notified"}

SweepTypeOK ==
  /\ crossed \in [Apps -> 0 .. Ladder]
  /\ answered \subseteq Apps
  /\ todo \in [Pods -> SUBSET Reminders]
  /\ item \in [Pods -> Reminders \cup {NoItem}]
  /\ at \in [Pods -> Stages]
  /\ \A p \in Pods : item[p] = NoItem <=> at[p] = "none"
  /\ log \subseteq Reminders
  /\ notes \subseteq Reminders
  /\ mailed \subseteq Reminders
  /\ twice \subseteq Reminders
  /\ loose \subseteq Reminders

SweepInit ==
  /\ Init
  /\ crossed = [a \in Apps |-> 0]
  /\ answered = {}
  /\ todo = [p \in Pods |-> {}]
  /\ item = [p \in Pods |-> NoItem]
  /\ at = [p \in Pods |-> "none"]
  /\ log = {}
  /\ notes = {}
  /\ mailed = {}
  /\ twice = {}
  /\ loose = {}

-----------------------------------------------------------------------------
(* The applications. *)

\* Seven more days without a sign.
DaysPass(a) ==
  /\ crossed[a] < Ladder
  /\ crossed' = [crossed EXCEPT ![a] = @ + 1]
  /\ UNCHANGED <<vars, answered, local, rows>>

\* The user records an event or withdraws: each type that can be recorded is a
\* silencing one, or takes the row out of status SUBMITTED, or both.
RecordEvent(a) ==
  /\ a \notin answered
  /\ answered' = answered \cup {a}
  /\ UNCHANGED <<vars, crossed, local, rows>>

\* findStaleCandidates, the silencing events, and the highest threshold crossed.
Due == {<<a, crossed[a]>> : a \in {b \in Apps : b \notin answered /\ crossed[b] > 0}}

-----------------------------------------------------------------------------
(* The body. *)

\* The lease has run out under the pod, which is not told.
Late(p) == age[p] >= LockTtl

\* The reminder in the pod's hands that was mailed and is not logged yet.
Unlogged(p) == IF at[p] \in {"mailed", "notified"} THEN {item[p]} ELSE {}

\* The pod has no reminder in hand, and `left' remain of its list.
PutDown(p, rest) ==
  /\ todo' = [todo EXCEPT ![p] = rest]
  /\ item' = [item EXCEPT ![p] = NoItem]
  /\ at' = [at EXCEPT ![p] = "none"]

\* withLock calls the body, which reads its list.
BeginSweep(p) ==
  /\ BeginBody(p)
  /\ todo' = [todo EXCEPT ![p] = Due]
  /\ UNCHANGED <<item, at, rows, applications>>

\* Slip: the log is not consulted.
Check_NoLookup(p) ==
  /\ pc[p] = "running" /\ at[p] = "none"
  /\ \E r \in todo[p] :
       /\ todo' = [todo EXCEPT ![p] = @ \ {r}]
       /\ item' = [item EXCEPT ![p] = r]
       /\ at' = [at EXCEPT ![p] = "checked"]
  /\ UNCHANGED <<vars, rows, applications>>

\* hasReminderBeenSent for the next candidate.
Check(p) ==
  /\ pc[p] = "running" /\ at[p] = "none"
  /\ \E r \in todo[p] :
       /\ todo' = [todo EXCEPT ![p] = @ \ {r}]
       /\ IF r \in log
            THEN UNCHANGED <<item, at>>
            ELSE /\ item' = [item EXCEPT ![p] = r]
                 /\ at' = [at EXCEPT ![p] = "checked"]
  /\ UNCHANGED <<vars, rows, applications>>

\* findUser finds no user, or one without an address.
SkipUser(p) ==
  /\ pc[p] = "running" /\ at[p] = "checked"
  /\ PutDown(p, todo[p])
  /\ UNCHANGED <<vars, rows, applications>>

\* sendReminder, whatever the transport makes of it.
Mail(p) ==
  /\ pc[p] = "running" /\ at[p] = "checked"
  /\ mailed' = mailed \cup {item[p]}
  /\ twice' = IF item[p] \in mailed THEN twice \cup {item[p]} ELSE twice
  /\ loose' = IF Late(p) THEN loose \cup {item[p]} ELSE loose
  /\ at' = [at EXCEPT ![p] = "mailed"]
  /\ UNCHANGED <<vars, todo, item, log, notes, applications>>

\* createStaleNotification.
Notify(p) ==
  /\ pc[p] = "running" /\ at[p] = "mailed"
  /\ notes' = notes \cup {item[p]}
  /\ at' = [at EXCEPT ![p] = "notified"]
  /\ UNCHANGED <<vars, todo, item, log, mailed, twice, loose, applications>>

\* Slip: the log row is written before the notification.
Record_Early(p) ==
  /\ pc[p] = "running" /\ at[p] \in {"mailed", "notified"}
  /\ item[p] \notin log
  /\ log' = log \cup {item[p]}
  /\ loose' = IF Late(p) THEN loose \cup {item[p]} ELSE loose
  /\ PutDown(p, todo[p])
  /\ UNCHANGED <<vars, notes, mailed, twice, applications>>

\* recordReminderLog.
Record(p) ==
  /\ pc[p] = "running" /\ at[p] = "notified"
  /\ item[p] \notin log
  /\ log' = log \cup {item[p]}
  /\ loose' = IF Late(p) THEN loose \cup {item[p]} ELSE loose
  /\ PutDown(p, todo[p])
  /\ UNCHANGED <<vars, notes, mailed, twice, applications>>

\* The list is done, or a call of the database throws, the unique key of the
\* log among them; either way the body ends, and what it mailed last may have
\* no log row.
EndSweep(p) ==
  /\ EndBody(p)
  /\ PutDown(p, {})
  /\ loose' = loose \cup Unlogged(p)
  /\ UNCHANGED <<log, notes, mailed, twice, applications>>

\* The pod dies.
CrashSweep(p) ==
  /\ Crash(p)
  /\ PutDown(p, {})
  /\ loose' = loose \cup Unlogged(p)
  /\ UNCHANGED <<log, notes, mailed, twice, applications>>

\* The steps around the body touch nothing of the sweep.
AroundBody(p) ==
  /\ \/ Fire(p)
     \/ AcquireGranted(p)
     \/ AcquireBusyRetry(p)
     \/ AcquireBusySkip(p)
     \/ AcquireError(p)
     \/ Release(p)
     \/ ReleaseError(p)
     \/ Restart(p)
  /\ UNCHANGED sweep

SweepStep(p) ==
  \/ AroundBody(p)
  \/ BeginSweep(p)
  \/ Check(p)
  \/ SkipUser(p)
  \/ Mail(p)
  \/ Notify(p)
  \/ Record(p)
  \/ EndSweep(p)
  \/ CrashSweep(p)

Clock == Tick /\ UNCHANGED sweep

SweepNext ==
  \/ Clock
  \/ \E p \in Pods : SweepStep(p)
  \/ \E a \in Apps : DaysPass(a) \/ RecordEvent(a)

SweepSpec == SweepInit /\ [][SweepNext]_sweepVars

\* As in DistributedLock: time passes.
FairSweepSpec == SweepSpec /\ WF_sweepVars(Clock)

-----------------------------------------------------------------------------
(* What the sweep promises. *)

\* The reminders for which at-most-once is lost: a body stopped between mail
\* and log, or mailed or logged, or has still to log, after its lease.
AtRisk(r) == r \in loose \/ \E p \in Pods : r \in Unlogged(p) /\ Late(p)

\* "So multi-instance deploys don't double-send anti-ghosting reminders", and
\* "reruns don't double-nag": nobody is mailed the same reminder twice unless a
\* body failed between mail and log or outlived its lease there; and whoever
\* has been logged as reminded has been reminded in the bell too.
RemindedOnce ==
  /\ log \subseteq notes
  /\ \A r \in twice : AtRisk(r)
=============================================================================

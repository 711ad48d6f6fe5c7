-------------------------- MODULE DistributedLock --------------------------
(***************************************************************************)
(* The Redis lock behind DistributedLockPort and the worker guard          *)
(* runGuardedJob that every cron worker runs under.                        *)
(*                                                                         *)
(* One lock key (`worker:<name>').  Each pod's scheduler fires the worker; *)
(* the pod sends SET key token PX ttl NX, runs the body if it was granted  *)
(* the key, and releases it with the script that deletes the key only when *)
(* it still holds the pod's own token.  Redis and the network are external *)
(* and may lose a command or its reply; a pod may crash at any point; a    *)
(* body takes as long as it takes, so it may outlive the lease.            *)
(*                                                                         *)
(* Time is counted in ticks and only as far as it matters: `left' is what  *)
(* remains of the key's lease, `age[p]' is the time since the pod's SET    *)
(* was applied and stops counting at the lease's length.                   *)
(***************************************************************************)
EXTENDS Naturals

CONSTANTS
  Pods,              \* the instances of the service
  Tokens,            \* the values randomUUID may return
  NoToken,           \* the key does not exist / the pod holds no handle
  ExpectedDuration,  \* GuardedJobOptions.expectedDurationMs, in ticks
  MinLockTtl,        \* MIN_LOCK_TTL_MS, in ticks
  MaxRetries         \* AcquireLockOptions.maxRetries

ASSUME TokenAssumption == NoToken \notin Tokens
ASSUME DurationAssumption ==
  /\ ExpectedDuration \in Nat
  /\ MinLockTtl \in Nat \ {0}
  /\ MaxRetries \in Nat

VARIABLES
  store,     \* the value of the lock key in Redis
  left,      \* PTTL of the key: ticks until Redis drops it; 0: never, or no key
  pc,        \* where each pod is in runGuardedJob
  tok,       \* the token of the pod's current SET or handle
  age,       \* ticks since the pod's SET was applied, up to LockTtl
  attempts   \* `attempts' of the acquire loop

vars == <<store, left, pc, tok, age, attempts>>

\* const ttlMs = Math.max(opts.expectedDurationMs * 2, MIN_LOCK_TTL_MS)
LockTtl ==
  IF 2 * ExpectedDuration >= MinLockTtl THEN 2 * ExpectedDuration ELSE MinLockTtl

PCs == {"idle", "acquiring", "waiting", "granted", "running", "releasing", "down"}

\* The states in which the pod has a handle whose key Redis did create.
Holding == {"granted", "running", "releasing"}

TypeOK ==
  /\ store \in Tokens \cup {NoToken}
  /\ left \in 0 .. LockTtl
  /\ pc \in [Pods -> PCs]
  /\ tok \in [Pods -> Tokens \cup {NoToken}]
  /\ age \in [Pods -> 0 .. LockTtl]
  /\ attempts \in [Pods -> 0 .. MaxRetries]

Init ==
  /\ store = NoToken
  /\ left = 0
  /\ pc = [p \in Pods |-> "idle"]
  /\ tok = [p \in Pods |-> NoToken]
  /\ age = [p \in Pods |-> 0]
  /\ attempts = [p \in Pods |-> 0]

-----------------------------------------------------------------------------
(* Redis, as the adapter uses it. *)

\* Slip: SET without NX, which takes the key from whoever has it.
SetKey_NoNX(t) ==
  /\ store' = t
  /\ left' = LockTtl

\* Slip: SET with the expected duration itself as its lease.
SetKey_ShortLease(t) ==
  /\ store = NoToken
  /\ store' = t
  /\ left' = ExpectedDuration

\* Slip: SET without PX, a key that never expires.
SetKey_NoPX(t) ==
  /\ store = NoToken
  /\ store' = t
  /\ left' = 0

\* SET key token PX ttl NX that finds the key absent.
SetKey(t) ==
  /\ store = NoToken
  /\ store' = t
  /\ left' = LockTtl

\* Slip: a release that deletes the key whoever it belongs to.
ReleaseScript_NoTokenCheck(t) ==
  /\ store' = NoToken
  /\ left' = 0

\* RELEASE_SCRIPT: delete the key if it still holds token t.
ReleaseScript(t) ==
  IF store = t
    THEN store' = NoToken /\ left' = 0
    ELSE UNCHANGED <<store, left>>

\* A UUID is a value nobody else has.
Fresh == {t \in Tokens : t # store /\ \A q \in Pods : tok[q] # t}

-----------------------------------------------------------------------------
(* A pod running runGuardedJob. *)

\* The pod gives up its handle (or never had one) and is back at `where'.
Settle(p, where) ==
  /\ pc' = [pc EXCEPT ![p] = where]
  /\ tok' = [tok EXCEPT ![p] = NoToken]
  /\ age' = [age EXCEPT ![p] = 0]
  /\ attempts' = [attempts EXCEPT ![p] = 0]

\* The scheduler fires the worker, or a waiting acquire wakes up: a new token
\* is drawn for each SET.
Fire(p) ==
  /\ pc[p] \in {"idle", "waiting"}
  /\ \E t \in Fresh : tok' = [tok EXCEPT ![p] = t]
  /\ pc' = [pc EXCEPT ![p] = "acquiring"]
  /\ UNCHANGED <<store, left, age, attempts>>

\* SET NX answered OK.
AcquireGranted(p) ==
  /\ pc[p] = "acquiring"
  /\ SetKey(tok[p])
  /\ pc' = [pc EXCEPT ![p] = "granted"]
  /\ age' = [age EXCEPT ![p] = 0]
  /\ UNCHANGED <<tok, attempts>>

\* SET NX answered nil and attempts are left: wait retryEveryMs.
AcquireBusyRetry(p) ==
  /\ pc[p] = "acquiring"
  /\ store # NoToken
  /\ attempts[p] < MaxRetries
  /\ attempts' = [attempts EXCEPT ![p] = @ + 1]
  /\ pc' = [pc EXCEPT ![p] = "waiting"]
  /\ tok' = [tok EXCEPT ![p] = NoToken]
  /\ UNCHANGED <<store, left, age>>

\* SET NX answered nil for the last time: withLock returns null, a silent skip.
AcquireBusySkip(p) ==
  /\ pc[p] = "acquiring"
  /\ store # NoToken
  /\ attempts[p] >= MaxRetries
  /\ Settle(p, "idle")
  /\ UNCHANGED <<store, left>>

\* The connection failed: acquire returns null.  The command may have been
\* applied all the same, and then the key has no living holder.
AcquireError(p) ==
  /\ pc[p] = "acquiring"
  /\ \/ SetKey(tok[p])
     \/ UNCHANGED <<store, left>>
  /\ Settle(p, "idle")

\* withLock calls the body.
BeginBody(p) ==
  /\ pc[p] = "granted"
  /\ pc' = [pc EXCEPT ![p] = "running"]
  /\ UNCHANGED <<store, left, tok, age, attempts>>

\* The body returns or throws; withLock's `finally' is entered either way.
EndBody(p) ==
  /\ pc[p] = "running"
  /\ pc' = [pc EXCEPT ![p] = "releasing"]
  /\ UNCHANGED <<store, left, tok, age, attempts>>

\* handle.release().
Release(p) ==
  /\ pc[p] = "releasing"
  /\ ReleaseScript(tok[p])
  /\ Settle(p, "idle")

\* The release failed; the error is logged and swallowed.
ReleaseError(p) ==
  /\ pc[p] = "releasing"
  /\ UNCHANGED <<store, left>>
  /\ Settle(p, "idle")

\* The pod dies; its key, if any, stays behind.
Crash(p) ==
  /\ pc[p] # "down"
  /\ Settle(p, "down")
  /\ UNCHANGED <<store, left>>

Restart(p) ==
  /\ pc[p] = "down"
  /\ pc' = [pc EXCEPT ![p] = "idle"]
  /\ UNCHANGED <<store, left, tok, age, attempts>>

\* One tick: Redis drops a key whose lease runs out.
Tick ==
  /\ left' = IF left > 0 THEN left - 1 ELSE 0
  /\ store' = IF left = 1 THEN NoToken ELSE store
  /\ age' = [p \in Pods |->
               IF pc[p] \in Holding /\ age[p] < LockTtl THEN age[p] + 1 ELSE age[p]]
  /\ UNCHANGED <<pc, tok, attempts>>

PodStep(p) ==
  \/ Fire(p)
  \/ AcquireGranted(p)
  \/ AcquireBusyRetry(p)
  \/ AcquireBusySkip(p)
  \/ AcquireError(p)
  \/ BeginBody(p)
  \/ EndBody(p)
  \/ Release(p)
  \/ ReleaseError(p)
  \/ Crash(p)
  \/ Restart(p)

Next == Tick \/ \E p \in Pods : PodStep(p)

Spec == Init /\ [][Next]_vars

-----------------------------------------------------------------------------
(* What the lock is for. *)

\* The pods that hold a handle and are still within their lease.
InTime == {p \in Pods : pc[p] \in Holding /\ age[p] < LockTtl}

\* Two instances never execute the same worker at once, unless one of them has
\* been at it for longer than max(2 x expected, 5 min): the guarantee for which
\* runGuardedJob takes the lock.
NoDoubleExecution ==
  \A p, q \in Pods :
    p # q /\ pc[p] \in Holding /\ pc[q] \in Holding =>
      age[p] >= LockTtl \/ age[q] >= LockTtl

\* A pod within its lease still owns the key, and the key outlives the pod's
\* lease by nothing: no other pod's release, retry, error or crash took it.
\* This is what the token check of the release script is for.
KeepsItsKey ==
  \A p \in InTime : store = tok[p] /\ left = LockTtl - age[p]

\* The pods within their lease behave as the clients of an abstract lease: the
\* lock is granted only when nobody holds it in time.
L == INSTANCE Lease WITH Clients <- Pods, current <- InTime

ImplementsLease == L!Spec

\* Whatever became of the pod that created it, a key does not stay for ever:
\* a crashed pod or a lost release delays the worker by one lease at most.
KeyIsFreed == (store # NoToken) ~> (store = NoToken)
=============================================================================

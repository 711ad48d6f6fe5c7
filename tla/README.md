# Profile services: a TLA+ verification project

The service is a TypeScript backend (Elysia on Bun, Prisma on Postgres, Redis, BullMQ) for resumes: users write,
import, version, score and share them, match them against jobs and apply. Several pods run the same code. This
directory holds TLA+ models of the parts of it that have a protocol of their own, the TLC configurations that check
them, and proofs for TLAPS.

Source paths below are relative to `src/bounded-contexts` of the repository unless they begin with `src/`.
`PROJECT.json` maps every definition to the lines it stands for.

## 1. Inventory

How the parts meet. A request runs a use case, which reads and writes Postgres through a repository, sometimes inside
a transaction, and publishes domain events on an in-process bus. `publish` starts the handlers and does not wait for
them. A handler either acts or puts a job on a BullMQ queue; a worker on some pod consumes it. Cron workers fire on
every pod and go through a Redis lock, so that one of them runs. Read models are cached in Redis and invalidated by
those who write. So nearly everything that is hard is the same few things: a value read before an `await` and used
after it, two pods in one use case, a lock with a time-to-live, a job queue that drops, retries and repeats, and a
process that dies between two writes.

### Modelled

| Part | State | Operations | Talks to | What is hard | What makes it correct |
|---|---|---|---|---|---|
| Distributed lock and worker guard (`src/shared-kernel/concurrency`, `src/shared-kernel/jobs/run-guarded-job.ts`, `redis-distributed-lock.adapter.ts`) | one Redis key with a token and a time-to-live; each pod's handle | acquire with retries, release by token, `withLock`, `runGuardedJob` | Redis; every cron worker | lost replies, crashes, bodies that outlive the lease | no two bodies at once within the lease; nobody takes a key away from its owner; a key left behind goes away |
| Jobs: anti-ghosting sweep (`jobs/.../run-anti-ghosting-sweep`, recorded events) | silent applications, reminder log, notifications | daily sweep on every pod; the user records an event | the lock and guard, Postgres, mail | four awaits per reminder under a lock that may be outlived; a failure between mail and log | nobody is reminded twice of one threshold; who is logged was notified |
| MEC sync (`integration/mec-sync`) | lock key, sync-log table, institutions, courses, cached lists | `sync`, cached list reads | Redis, Postgres, a CSV download | bare-key lock, failure at each of its steps, crash, a course whose institution did not parse, cache filled late | SUCCESS means that the file is stored, up to courses without an institution; every way out closes its log row; syncs do not overlap |
| Quota guard (`src/shared-kernel/persistence/quota-guard.ts`; resumes, collaborators) | child rows of a parent, its row lock | create, duplicate, invite, remove; unguarded imports | Postgres | count before insert, unguarded writers, rollbacks | the cap; atomicity; every request ends |
| Resume versions (`resumes/resume-versions`, the update of `resumes/core`) | the resume, its version rows | snapshot, tailor, restore, update, cleanup | Postgres, event handlers | lost races for a number, cleanup on ids read earlier, failures between steps | numbers without gaps, budget never spent, the newest kept, restore restores |
| Resume quality (`resume-quality`, `bullmq-job-queue.adapter.ts`) | score history, the queue's job, computations under way | edit, handler, worker, direct recompute | event bus, BullMQ, AI | overlapping handlers, dropped adds, retries, stalled jobs, saves out of order | one grader at a time, accepted edits get scored, the score never goes back |
| Resume import (`import`) | the status of an import job, the resumes it makes | process, retry, cancel, deletion of a resume | Postgres | two retries of one job, a cancel beside it, a crash that leaves it in between | one resume per import, nothing after a cancel, a completed job names its resume, imports end |
| Job match (`job-match`) | a cached match, a 30 s single-flight lock, two invalidation queues | compute, edit of the resume, the job or the fit, handlers, workers | Redis, BullMQ, AI | a fill that races an invalidation, a fixed job id, cache errors, a source nobody listens for | a match older than the resume or the job is noticed, and its invalidation arrives |
| Automation: rage runs, auto-apply (`automation`, applying in `jobs`) | applications with a unique key, a daily counter, a lock, queue jobs | rage run, auto-apply job with retries, the user's own applying | Postgres, Redis, BullMQ, AI | counts read long before they are used, overlapping runs, partial runs | the hourly cap, the daily limit, first come first served |
| Automation: weekly batches | a batch per user and week, its items, the digest | queue job with retries, approve, reject | Postgres, BullMQ, mail | mail and its note are two steps, retries that pick afresh | one digest, of what the batch holds; items agree with applications; batches end |
| Chat (`collaboration/chat`) | messages, preview of the last one, unread counts and their cache, blocks | send to a person or a conversation, count, mark as read, block, unblock | Postgres, Redis | previews out of order, stale counts, a failure after the message is stored | counts and preview right when nobody is about to mend them; blocks hold; no stored message reported as failed |
| Fit profile (`fit-profile`) | question sets, answers, the vector and its version, snapshots | ask for a set, submit, erase, edit questions | Postgres | double submission, double creation, a question pool that changes, a stop between four writes | a set scored once, versions distinct, erased answers and vectors stay erased, one open set |

### Planned

| Part | State | What is hard | Module |
|---|---|---|---|
| Jobs: monthly credits of the external ingestion (`jobs`) | credit counter | check and increment in two steps under a lock that may be outlived | `CreditBudget` |
| Expiry reminders of fit profiles (`fit-profile`, `notifications`) | claimed slot, notification, flag | claim, notification and flag are three writes: a notification that fails after the claim is lost on the retry, although `send-expiry-reminder` lets errors propagate for the retry | `ExpiryReminders` |
| Idempotency (`src/infrastructure/elysia-adapter/cache-idempotency.adapter.ts`) | a cache key per side effect | a crash inside `once`, a tombstone, a lock past its time | `Idempotency` |
| Onboarding (`onboarding`) | progress row, completed flag | two completions at once | `Onboarding` |

### Not planned

- **Identity** (accounts, sessions, authorization, verification): deliberately left outside.
- **Notifications**: rows with a read flag; the digest mail is much like `ReminderSweep`.
- **Social, recruiting, companies, badges, career graph, success stories, feed**: single-row reads and writes and
  ranking queries; connections and follows rest on unique keys.
- **Analytics, platform** (feature flags, webhooks, realtime, metrics, health): append-only events, projections
  recomputed as a whole, cached configuration reads, best-effort calls over HTTP.
- **Sections, section types, variants, time capsule** of resumes: edits of one row each. What spans rows is in the
  modelled parts.
- **Export, DSL, presentation, styles**: pure compilation and rendering.
- **AI, translation, geo, skills catalogue, roles, GitHub, uploads**: external services, reference data.
- **HTTP pipeline, WebSocket, rate limit, cron**: framework glue; the limiter is one atomic increment.

Together these are most of the repository's lines: some 2,500 files of handlers, mappers, schemas, seeds and
catalogues without a protocol of their own. Modelling them would restate assignments, which is why the models cover a
small share of the lines and most of the concurrency.

`PROJECT.json` lists each part with its files, and the hazards of the modelled ones at their lines, each with the
properties that are about it. Hazards of parts that have no model yet:

- `src/infrastructure/elysia-adapter/cache-idempotency.adapter.ts:67`: a crash inside `once` leaves the key, and the
  side effect is skipped until it expires, whether it was done or not.
- `jobs/application/services/jsearch-quota.service.ts:33`: check and increment of the monthly credits are two steps.
- `resumes/infrastructure/adapters/resume-event-publisher.adapter.ts:39`: an event of an edit that is lost is lost for
  all its handlers.

## 2. Modules

| Module | Models | Uses |
|---|---|---|
| `Lease` | what a lock with a time-to-live promises | |
| `DistributedLock` | the Redis lock and `runGuardedJob` on several pods | `INSTANCE Lease` (refined) |
| `ReminderSweep` | the anti-ghosting sweep as the body under that lock | `EXTENDS DistributedLock` |
| `MecSync` | one sync per caller, its lock, tables and cached list | |
| `Quota` | an atomic check-and-insert under a cap | |
| `QuotaGuard` | the transaction lock, count, insert, commit | `INSTANCE Quota` (refined) |
| `ResumeVersions` | numbering, retries, cleanup, restore | |
| `QualityRecompute` | edit, handler, queue, worker, computation | |
| `ImportJob` | one import job: processing, retries, cancels | |
| `MatchCache` | one cached match, its callers and its invalidations | |
| `Applications` | rage runs, auto-apply jobs and the user, applying for one user | |
| `WeeklyBatch` | the curated batch of one user in one week | |
| `ChatInbox` | one conversation of two users | |
| `FitProfile` | the fit profile of one user | |
| `X_proofs` | theorems about `X`: `QuotaGuard`, `MecSync`, `ResumeVersions`, `QualityRecompute`, `ChatInbox` | `EXTENDS X, TLAPS` |
| `Jobs_proofs` | theorems about `DistributedLock`, `ReminderSweep` and `Applications` | `EXTENDS ReminderSweep, Applications, ...` |
| `QueuedRuns_proofs` | theorems about `ImportJob` and `WeeklyBatch` | `EXTENDS ImportJob, WeeklyBatch, TLAPS` |
| `Matching_proofs` | theorems about `MatchCache` and `FitProfile` | `EXTENDS MatchCache, FitProfile, ...` |
| `MCX` | small instances of `X`; the operators a configuration names | `EXTENDS X` |

`ReminderSweep` composes a worker's body with the lock it runs under. The other parts are checked apart. What they
share is state that one of them owns: the imports appear in `QuotaGuard` as writers that do not ask.
Operators called `<Action>_<What>` and commented "Slip" are mutated forms of the action that follows them. No
specification uses them; substituting one shows that a property can fail.

Several properties hold *unless* something happened that the code lets happen. Such an exemption is a history variable
or a set of calls, named for the accident (`overlapped`, `raced`, `undone`, ...), set at the step where the code lets
go, and as narrow as the accident. They say where the code has no answer; section 3 lists them.

### DistributedLock

`store` and `left` are the key's value and remaining time in Redis; `left` is 0 when there is no key, and would be for
a key without expiry. `pc[p]` follows a pod through `runGuardedJob`: `acquiring` (SET sent), `waiting` (between
retries), `granted`, `running` (the body), `releasing` (`finally`), `down`. `tok[p]` is the UUID of the pod's SET or
handle, drawn anew for each SET; `age[p]` counts the ticks since its SET was applied. `AcquireError` is a lost
connection: the SET may have been applied, and the key then has no owner. `Crash` and `ReleaseError` leave the key to
its expiry. `Tick` is the clock, which nothing else advances, so that a body can take arbitrarily long. The lease is
`max(2 * ExpectedDuration, MinLockTtl)`. Left out: deployments without Redis (no handle in production, an
always-granted one in development), which have no state.

The clock is the same for Redis and the pods, and `age` starts when Redis applies the SET, which is no later than when
the pod hears of it. A lease is thus measured as the code promises it: by Redis.

### ReminderSweep

A step is one of `DistributedLock`, with `BeginBody`, `EndBody` and `Crash` doing the body's part as well, or one of
the body while `pc[p]` is `running`, or one of the users. `todo[p]` is the list the body read at its start, reduced to
the reminders it makes due (`Due`: silent, highest threshold crossed); `item[p]` and `at[p]` are the reminder in its
hands and how far it is with it. `log` holds the rows of `JobApplicationReminderLog`, `notes` the notifications,
`mailed` and `twice` what was handed to the mail transport once and again. `SkipUser` is a user without an address.
`EndSweep` is the end of the list as well as any exception, the unique key of the log among them, which
`LOG_AND_CONTINUE` swallows. A write that is applied while its caller sees an error is the write followed by
`EndSweep`. All events a user can record are silencing ones, so `answered` only grows; an event recorded after the
list was read does not reach the body, as in the code. `loose` is history: reminders that a body mailed and did not
log because it stopped, or that it mailed or logged after its lease. Each of the `Ladder` thresholds is 7 more days.

### MecSync

`pc[s]` names the next statement of `MecSyncService.sync`; every `await` is a step. `left` is the lock key's remaining
time (`setIfAbsent` and `DEL`; the key has no token, whence the `DEL` of any sync removes it whoever set it). `log` is
the sync-log table; the file of a row and whether it was abandoned, and `overran`, are history that the program does
not keep. A line of the CSV is parsed into its institution and its course apart, and either may be missing
(`application/parsers/entity.normalizer.ts:25` and `:45`), so that a file is any institutions and any courses. A
course whose institution is not in the table when the courses are listed is left out, which the history `dropped`
notes and the code tells nobody; `MarkSuccess` puts the file, with what was left out of it, into the row. Bulk inserts
go in batches of `BatchSize` in any order, with `skipDuplicates`; rows are only ever added. `Faults` chooses what may
fail: the download, the database, the cache, the pod. `SyncError` is the `catch`; `HandlerError` is the `catch`
failing itself; `Release` is the `finally`. The metadata write can fail after the row was marked SUCCESS: the `catch`
then marks the same row FAILED, and the model does that. A row left RUNNING by a dead pod is never closed by any code.
Readers take the cached list, or read the table and cache what they read, in two steps. The other cached lists of the
same context are filled and invalidated the same way.

### QuotaGuard

`rows` are the committed child rows, `lock` is who holds `FOR UPDATE` on the parent, `pc` and `seen` are each
transaction. Postgres at READ COMMITTED is external: a row lock is held to the end of the transaction, uncommitted
rows are not counted, and an insert of a child takes a key-share lock on its parent, for which `Import` waits while a
guarded transaction holds `FOR UPDATE`. Two requests may be for the same row (two invitations of one collaborator):
both pass the lookup and `InsertDuplicate` is the unique key's refusal. `Rollback` is any failure, timeout or death.
`Importable` are the rows that unguarded writers may add (resume import, PDF import, onboarding, shadow profile).

### ResumeVersions

Each call adds at most one row and names it. `pc` walks `read`, `insert` (retrying on the unique violation),
`publish`, `list`, `delete`, and for updates and restores `apply`. A resume is its own fields and its sections, each
one value; a version is a function on the parts that were written into it. `TakeSnapshot` keeps what
`findResumeForSnapshot` selects, the owner and the sections; a tailored variant has neither part. An exception of the
snapshot ends a snapshot or a restore and is swallowed by an update. A number may be used again: when more calls are
under way than the cap allows rows, the one after the number a slow call has read may have come and gone. A tailored
variant runs no cleanup, so that variants alone may exceed the cap until the next snapshot.

### QualityRecompute

The resume is two counters, edits of the text that the AI grades and edits of the rest. A score is the edition it was
computed from and the edition of the text its AI half grades. `job` is the one job with the resume's id: `Enqueue` is
dropped when it exists in whatever state, `Remove` is a no-op on an active one, `Forget` is the end of its retention,
`Stalled` is BullMQ finding a job whose worker is gone. `ComputeError` retries until `MaxAttempts`. A direct call of
the route computes beside the worker. `due` is history: the edition that an accepted job has promised to score. Left
out: a worker that BullMQ wrongly takes for dead, and its validation of custom job ids.

### ImportJob

`row` is the job's row, `Gone` once it was cancelled; `pc[p]` of a request is the status that it writes next, `create`
for the transaction that makes the resume and links it, `find` for the lookup at the head of `ProcessImport`.
`UpdateError` is the catch block: it marks the job FAILED, and when that is refused too the request ends. Updates of a
deleted row throw. `data` is what was uploaded, as far as the code tells it apart: missing, unparsable, without a
name, or good. `CancelCheck` and `CancelDelete` are two steps, as in the use case. `DeleteResume` is the user deleting
what was imported (`onDelete: SetNull`). A resume is named after the request that made it.

### MatchCache

A match is the `edition` of the resume, of the job and of the fit that it was computed from; the fit stands for the
vector of the user and the sliders of the job, which `runFit` reads. An edit of the first two, the sources `Heard`,
raises the edition and publishes; for a resume the handler adds a job under a fixed id, which the queue drops while
one with that id is there, running, done or failed; for a job posting the handler deletes the key, and adds to the
`cache-invalidation` queue when that throws. `pc[x]` is a call of `ComputeMatch`: `get`, `lock`, `wait` (250 ms, then
once more), `compute`, `set`, `release`. The `release` changes nothing: the cache port has no `releaseLock`
(`job-match/infrastructure/adapters/redis-match-cache.adapter.ts:59`), the call throws and is logged, and the lock
lives for its 30 s. Keys expire at any time. `EditFit` raises the edition of the fit and nothing else: its events have
no subscriber among the invalidations (`job-match/job-match.composition.ts:177-192`).

### Applications

`by[j]` is who submitted the application to job `j`: the unique key on job and user lets one in. `stage` walks a rage
run through its guards (`guarded` is whether it was given a cache), its picks and the counter; an auto-apply job
through the count of the last hour, its picks, each looked up, tailored, looked up again and created, where a failure at
any of these is a failed pick; and the user's
`ApplyToJob` through look, create and event. A job that failed on every pick is retried up to `MaxAttempts`.
`HourPasses` and `LockExpires` are the clock. Which jobs match is any choice.

### WeeklyBatch

`batch` is the status of the week's batch. An attempt of a queue job is `select`, `upsert` (which keeps a stored batch
and its items), `mail`, and then `sent` or `unsent`, the status it writes. `MailError` may have sent the digest and
lost the mailer's reply: the digest counts, and the batch is marked FAILED. An approval looks the item up with its
application, creates the application, and decides the item; a rejection is one update. `ApplyElsewhere` stands for
what `Applications` models. The jobs of one user in one week may be two: the comment at
`automation/workers/weekly-curated.worker.ts:35` counts on a jobId that the per-user jobs do not have.

### ChatInbox

A message is known by the call that sends it. `pc` walks a send through `privacy` or the check, `open` (the
conversation's row), `create`, `preview` and `clear` (the peer's unread count in the cache); a count through
`getOrSet`: `get`, `compute`, `set`; a mark through the update and the delete of the key; a gate through look and
`block`, or `unblock`. `told` is what the sender was answered: `SendMessage` fails when a step after the create fails,
`SendMessageToConversation` logs it. Left out: listings, pins, mutes, presence, rooms, and the other way to open the
conversation's row, `get-conversation-id.use-case.ts:17`, whose row is the one that `open` finds.

### FitProfile

`sets` are the question sets in the order of creation, with the generation that seeds the sample. A look lists the
active questions, finds an open set, or counts and creates one. A submission finds its set, matches the sample, and
then writes four times: answers, vector with the next version (one `upsert`), snapshot, and the end of the set. An
erasure deletes the answers, finds the profile and takes its vector away; `snapshots` it leaves. `pool` stands for the
active questions in the order in which the database lists them:
`fit-profile/infrastructure/adapters/persistence/prisma-fit-question.repository.ts:27` asks for no order, so that an
edit may change the sample of an open set, and `ChangePool` does that. Left out: deleting a question, which takes its
answers along, and expiry, which only publishes an event.

## 3. Runs

All are in `PROJECT.json`. TLC checks each with two workers. Deadlock is checked except where the calls all end or the
edits are bounded: both runs of `ResumeVersions`, and `quality`, `import`, `applications`, `chat` and `fit`.

| Run | Instance | States | Properties |
|---|---|---|---|
| `sweep` | 2 pods, 3 tokens, 1 retry, lease of 2 ticks, 1 reminder, every fault | 127,446 | `RemindedOnce`, `ImplementsLease`, `KeyIsFreed` |
| `mec_sync` | 2 syncs, 1 reader, 2 institutions with a course each, batches of 1, lease of 2, 2 log rows, every fault | 2,993,290 | `SuccessMeansStored`, `OneSyncAtATime`, `RunningRowHasSync`, `LockHasSync`, `FreshAfterSync` |
| `quota` | 4 requests, two of them for one row, an import, a cap of 2 | 938 | `GuardedStaysWithinCap`, `ImplementsQuota`, `RequestsEnd` |
| `versions` | a tailored variant, a restore, an update, a snapshot; a cap of 1, 4 tries | 2,698,255 | `Capped`, `Sequential`, `BudgetSuffices`, `KeepsNewest` |
| `versions_restore` | a snapshot and a restore, two values | violated | `RestoreRollsBack` |
| `quality` | 2 handlers, 2 workers, a direct call, 3 edits, 2 attempts, every fault | 603,577 | `OneGrader`, `AcceptedIsScored`, `ScoreNeverGoesBack` |
| `import` | the creating request, 2 retries, 1 cancel, every kind of data, every fault | 13,782 | `CompletedNamesResume`, `OneResume`, `RunningIsProcessed`, `NothingAfterCancel`, `ImportEnds` |
| `match` | 2 callers, 2 edits of 3 sources, 2 attempts, every fault | 346,182 | `StaleIsPending`, `InvalidationArrives` |
| `applications` | 2 rage runs, an auto-apply job, the user, 2 jobs, caps of 1, with and without a cache, every fault | 1,178,381 | `LimitRespected`, `CapRespected`, `FirstComeFirstServed` |
| `weekly` | 2 queue jobs, 1 approval, 2 postings, a batch of 1, 2 attempts, every fault | 944,116 | `OneDigest`, `DigestIsBatch`, `DecisionsAgree`, `BatchEnds` |
| `chat` | a direct message, a reply, a count, a mark, a gate, every fault | 2,136,648 | `UnreadIsRight`, `PreviewIsLatest`, `FailedReplyIsNotStored`, `NothingAcrossABlock` |
| `fit` | 2 looks, 2 submissions, 1 erasure, 2 pools, every fault | 348,172 | `ScoredOnce`, `VersionsDistinct`, `ErasedStaysErased`, `OneOpenSet` |

The runs repeat nothing that a theorem or a stronger property of the same run gives: the type invariants are proved
for every module that is run (section 4), `KeepsItsKey` is a theorem too, `NoDoubleExecution` is what `ImplementsLease`
maps to the lease, `AtMostMax` follows from `ImplementsQuota`.

### Why the bounds are enough

- *sweep*: the races are between the owner and one other pod. Three tokens give two pods a fresh one beside the orphan
  a lost reply leaves. A lease of two ticks has a middle, so that a body may be in time, at the edge and past it; one
  retry exercises both ends of the loop. One reminder: bodies meet at one, take one at a time, and a longer list only
  makes them later. With two thresholds the run takes 4 minutes (1,653,558 states) and shows the same; the theorem
  holds for all.
- *mec_sync*: two syncs overlap as soon as a lease runs out. Two courses of two institutions in batches of one let a
  sync fail, or another one overtake it, in the middle of either bulk insert. `MaxLogs` bounds the syncs ever started;
  two are what overlap. A lease of two lets a sync end in time or not. Files are any institutions with any courses, so
  that each course comes with its institution, without it, and with it stored by another sync. Syncs and readers have
  no order, and the two institutions may be exchanged if their courses are, which the symmetry uses.
- *quota*: a cap of two can be reached, exceeded by an import, and reached again after a removal; two requests for one
  row make the unique key decide.
- *versions*: one call of each kind, and a cap of one, so that every snapshot has something to clean up and cleanups
  of stale ids meet. The real numbers (30 versions, 10 tries) matter only through the comparisons; the theorems hold
  for all.
- *quality*: a job that runs, one edit that is dropped or replaces it, and a third that comes after; two workers to
  disagree; two attempts for a retry and its end; a direct call beside them.
- *import*: a retry needs a failure before it, and two retries are what can meet; a cancel falls anywhere. One job,
  since jobs share nothing.
- *match*: a leader and a follower; two edits, of any source, let one invalidation be dropped by the other's job, and
  an edit of the fit come between; two attempts for a retry and its end.
- *applications*: limits of one are reached by one run and exceeded by the next. Two jobs let two runs apply to
  different ones, or meet at one, and let a run fail on one pick and succeed on the other.
- *weekly*: a batch of one out of two postings is what lets a retry pick another one than is stored; two jobs and two
  attempts overlap, follow one another and give up. One approval beside rejections and applications from elsewhere.
- *chat*: every kind of call. Two sends make the order of previews matter, and each call is of either user. Two counts
  at once would read and write the same key one after the other, as one does beside a send.
- *fit*: two looks to create twice, two submissions to one set or two, an erasure between any of their writes, and a
  pool that is there, not there, and there again.

### What they show

- `ImplementsLease`, and so `NoDoubleExecution`: cron bodies overlap only if one has outlived max(2 x expected, 5
  min). Nothing in the code renews a lease or stops a body, so that this condition is needed.
- `RemindedOnce`: the sweep is at most once under the lock and nearly nowhere else. The log's unique key comes too
  late, after the mail; a body that fails or is late between mail and log, and only that, sends a reminder again.
- `KeyIsFreed`: whatever happens to the pod that set it, the key goes.
- `SuccessMeansStored` holds even while syncs overlap: rows are only added, and the inserts skip duplicates. SUCCESS
  does not mean that the whole file is stored: courses whose institution the file did not bring may be missing, and
  only these. The order of the two inserts is what this rests on; a sync that read the institution codes before it
  inserted its institutions would lose the others too (the second mutant).
- `OneSyncAtATime` is what a key without a token can give: once a sync has outlived its lease its `DEL` may free
  somebody else's key, and this may go on until the register is quiet, which is what `overran` is for.
- `RunningRowHasSync`: the error paths close the row, unless the pod died or the update itself is refused.
- `LockHasSync`: while the key is there some sync is at work, unless one left it behind by dying, by a release that
  failed, or by a log row that could not be created; `FreshAfterSync`: an institution list in the cache is the
  table's, unless somebody is about to delete the key, a delete failed, or it was read before the inserts and cached
  after the delete.
- `GuardedStaysWithinCap`, `ImplementsQuota`: for its callers the transaction is one step. Imports do not ask, and may
  take a user past the maximum; what the guarded ones do stays under it.
- `KeepsNewest`: cleanups on stale ids delete only what is past the cap, since newer rows are only added before older
  ones are removed.
- `Sequential`: lost races leave no gap in the numbers until a cleanup removes some.
- `AcceptedIsScored`: an add that found the job missing, or one that had not read the resume, is scored, through
  replacement, crash and retry, unless the job fails for good, or a `remove` that succeeds is followed by an add that
  fails: this loses the edit that the removed job stood for.
- `ScoreNeverGoesBack` is about workers. A direct recompute runs beside them and may save an older edition last; no
  doc promises otherwise.
- `OneResume`, `CompletedNamesResume`, `NothingAfterCancel`: the link in the transaction that makes the resume is what
  makes cancelling safe. `RunningIsProcessed`, `ImportEnds`: what is not closed was abandoned.
- `StaleIsPending`, `InvalidationArrives`: a match that is served after an edit of the resume or the job has an
  invalidation behind it, or is one of the two accidents named; and the invalidation comes. They say nothing of the fit:
  stated over `Sources` instead of `Heard`, the first is violated in seven steps, by an `EditFit` after a fill.
- `FirstComeFirstServed`: no application is overwritten; `CapRespected` is a step property: no application of an
  auto-apply job takes the hour past its cap. `LimitRespected`: retries and failures of rage runs do not get round the
  limit.
- `OneDigest`, `DigestIsBatch`: the row's status and its unique key do most of the work of a job id. `DecisionsAgree`:
  items and applications are two tables without a transaction; what an approval leaves behind, approving once more
  mends.
- `UnreadIsRight`, `PreviewIsLatest`: both copies are mended by whoever made them wrong. `NothingAcrossABlock`: both
  ways to send look at blocks in both directions.
- `ScoredOnce`, `VersionsDistinct`, `ErasedStaysErased`, `OneOpenSet`: four calls without a transaction between them,
  held together by the one `upsert` and by the completed flag. `ErasedStaysErased` speaks of answers and the vector;
  the snapshots of the erased submissions stay.

### What the code does against its own words

One run ends in a counterexample, `versions_restore`: a snapshot stores the sections and the owner, a restore looks
only for scalar fields, and so it writes nothing. It is under `findings` with the line that it contradicts.

The other accidents are what the passing properties exempt, or facts of the model:

1. *mec_sync*: the log row is created after the lock is taken and before the `try`. If that throws, the key stays for
   its 600 s, though the service says that it never leaks the lock (`LockHasSync`). A reader that read before the
   inserts may cache after the invalidation, and the old list is served for up to an hour (`FreshAfterSync`). A course
   whose institution did not parse is filtered out without a word at
   `infrastructure/adapters/persistence/prisma-mec-course.repository.ts:114`, and the row says SUCCESS (`dropped`).
2. *quota*: imports, onboarding and shadow profiles create resumes without the guard (`Importable`).
3. *quality*: every recompute of a resume has one job id, and a job is kept for a day after it completes. A second
   layout edit within that day is dropped, though the handler's doc says that completeness always recomputes. `remove`
   and the add are two calls: when the add of a layout edit comes between those of a text edit, the job that stays is
   the one without the AI. A direct recompute may save an older edition last.
4. *import*: two retries that both read FAILED make two resumes, and so does a retry after the update to COMPLETED was
   refused (`overlapped`, `undone`). A crash leaves a job under way for ever: it cannot be retried (`abandoned`).
5. *match*: a match computed before an edit and cached after its invalidation stays for a day (`raced`). The
   invalidation job's id is fixed and never removed first: while a finished job is kept, later invalidations are
   dropped (`lost`). The lock is never released before its 30 s. Nothing invalidates on an edit of the fit, and the
   old match is served for up to a day, although `submit-fit-answers.use-case.ts:190` says that the cache's
   invalidation subscribes, `upsert-job-fit-profile.use-case.ts:53` that the recompute worker listens, and
   `redis-match-cache.adapter.ts:7` that the expiry of a fit profile invalidates. An erasure publishes nothing at all,
   and a match made from the erased vector is served until its key goes.
6. *applications*: `automation/automation.composition.ts:67` gives the rage run no cache. Nothing then limits the runs
   of a day, which the use case's line 38 calls a hard ceiling. With a cache, the counter is read before the lock is
   taken (`unsure`); the hourly cap is counted once, at the start (`overtaken`).
7. *weekly*: a batch marked FAILED is never tried again, although `src/prisma/schema/automation.prisma:57` calls it
   retryable. An attempt that stops between the mail and its note mails again, and lists what it picked itself rather
   than what is stored (`unmarked`, `reused`). A retry that finds nothing to pick leaves the batch waiting
   (`dropped`).
8. *chat*: a direct message that was stored is reported as failed when a later step fails. Two previews on their way
   at once may land in the wrong order (`missed`); a count computed before a message may be cached after it, for 30 s
   (`stale`). `invalidateAllForUser`, "used on block/unblock", has no caller; the cached conversation list is written
   by nobody; `MessageSentEvent` has no subscriber.
9. *fit*: a submission that stops past the vector and is retried leaves its answers and vector twice
   (`fit-profile/application/use-cases/submit-fit-answers.use-case.ts:91`, `stopped`); two at once likewise
   (`beside`). Two looks create two open sets (`crowded`). A submission under way restores data after an erasure. The
   rows of `FitRemapHistory` survive it with the user's id and the vector
   (`src/prisma/schema/scoring.prisma:136-145`), which `delete-fit-profile.use-case.ts:10` calls anonymised. The event
   of a submission has the cause `remap`, for which nobody listens.

### Fairness

- `ReminderSweep!FairSweepSpec` has weak fairness of the clock: time passes, and Redis expires keys by itself. No pod
  has to do anything, which is right: the property is about pods that no longer can.
- `QuotaGuard!FairSpec` has weak fairness of a transaction's own steps once it has its lock, and strong fairness of
  taking it, because Postgres serves the waiters of a row lock in their order. Nothing is assumed of `Begin`,
  `Rollback`, removals or imports.
- `ImportJob!FairSpec`: a request that runs goes on, weakly fair per request; a crash ends it all the same.
- `MatchCache!FairSpec`: handlers run, queued jobs are worked on. Nothing is assumed of callers, of edits or of
  expiring keys.
- `WeeklyBatch!FairBatchSpec`: the queue runs what is in it, weakly fair per job. The approvals owe nothing.
- The other specifications have none, and only safety is claimed of them. That an edit is scored in the end is stated
  as safety at rest (`Settled => ...`): BullMQ promises no time.

## 4. Proofs

Each theorem is about the specification that TLC runs, for all values of the constants that meet the assumptions of
its module. None is about an instance.

| Module | Theorem | States |
|---|---|---|
| `Jobs_proofs` | `TypeCorrect`, `HolderKeepsKey`, `MutualExclusion` | `TypeOK`, `KeepsItsKey`, `NoDoubleExecution` |
| | `Refinement` | `Spec => L!Spec`, every step is a grant, an end or a stutter of `Lease` |
| | `SweepTypeCorrect`, `ReminderCorrect`, `SweepRefinesLease` | `SweepTypeOK`, `RemindedOnce`, `ImplementsLease` of the sweep |
| | `ApplicationsTypeCorrect`, `CapIsRespected` | `ApplicationsTypeOK`, `CapRespected` |
| | `LimitIsRespected`, `FirstComeIsServed` | `LimitRespected`, `FirstComeFirstServed` |
| `QuotaGuard_proofs` | `TypeCorrect`, `CapHolds`, `GuardedWithinCap` | `TypeOK`, `AtMostMax`, `GuardedStaysWithinCap` |
| | `Refinement` | `Spec => Q!Spec` |
| `MecSync_proofs` | `TypeCorrect`, `SuccessStored`, `RunningTracked` | `TypeOK`, `SuccessMeansStored`, `RunningRowHasSync` |
| | `SyncsExclude`, `LockTracked`, `FreshTracked` | `OneSyncAtATime`, `LockHasSync`, `FreshAfterSync` |
| `ResumeVersions_proofs` | `TypeCorrect`, `NewestKept`, `NumbersSequential` | `TypeOK`, `KeepsNewest`, `Sequential` |
| | `HistoryCapped`, `RetriesSuffice` | `Capped`; `BudgetSuffices` (for finitely many calls) |
| `QualityRecompute_proofs` | `TypeCorrect`, `GradersExclude` | `TypeOK`, `OneGrader` |
| | `ScoreMonotone`, `AcceptedScored` | `ScoreNeverGoesBack`, `AcceptedIsScored` |
| `QueuedRuns_proofs` | `TypeCorrect`, `CancelIsFinal`, `CompletedIsLinked` | `TypeOK`, `NothingAfterCancel`, `CompletedNamesResume` |
| | `OnePerImport`, `RunningHasRequest` | `OneResume`, `RunningIsProcessed` |
| | `BatchTypeCorrect`, `DigestIsAlwaysBatch` | `BatchTypeOK`, `DigestIsBatch` |
| | `AtMostOneDigest`, `DecisionsAlwaysAgree` | `OneDigest`, `DecisionsAgree` |
| `Matching_proofs` | `TypeCorrect`, `StaleIsNoticed` | `TypeOK`, `StaleIsPending` |
| | `FitTypeCorrect`, `VersionsAlwaysDistinct` | `FitTypeOK`, `VersionsDistinct` |
| | `ErasedAlwaysStaysErased`, `OneSetIsOpen` | `ErasedStaysErased`, `OneOpenSet` |
| | `ScoredAtMostOnce` | `ScoredOnce` |
| `ChatInbox_proofs` | `TypeCorrect`, `UnreadCorrect`, `PreviewCorrect` | `TypeOK`, `UnreadIsRight`, `PreviewIsLatest` |
| | `BlockCorrect`, `FailedReplyCorrect` | `NothingAcrossABlock`, `FailedReplyIsNotStored` |

Assumptions (`TokenAssumption`, `DurationAssumption`, `LadderAssumption`, `ItemAssumption`, `MecAssumption`,
`QuotaAssumption`, `VersionsAssumption`, `RecomputeAssumption`, `ImportAssumption`, `MatchAssumption`,
`ChatInboxAssumption`, `ApplicationsAssumption`, `WeeklyBatchAssumption`, `FitAssumption`): the types of the constants,
and that the values for "nothing" are none of the others; of `Applications` also that the matching jobs are finitely
many, since they are counted. TLC evaluates them in every run.

The arguments, each an invariant with its steps:

- *DistributedLock*. `KeepsItsKey` is not inductive alone: a release by token is harmless only because no two pods
  have one token (`TokensDiffer`), a token on its way to Redis is not in the store yet (`NotYetStored`), and a key has
  lease left exactly when it exists (`LeaseWhileKey`). Exclusion follows: two pods in time would both own the key,
  hence have the same token. The refinement maps the pods in time to the lease's `current`: a `Tick` may end one, the
  one there is.
- *ReminderSweep*. Every step of the sweep is a step of the lock or leaves it alone (`SweepHasLock`), so of two
  running bodies one is late (`OneRunsInTime`). `Accounted`: what was mailed and is not at risk is logged, or in the
  hands of a body about to log it. A body in time that finds no log row therefore has no predecessor: it would be
  running, and in time (`NotMailedYet`, lemma `CheckStep`). A late mail puts its reminder at risk, and what is at risk
  stays so.
- *QuotaGuard*. `LockDiscipline` says that exactly the transaction past the lock holds it. While it is open nobody
  else inserts, so that its count stays a bound (`CountIsBound`), and what it is about to insert is new and below the
  cap (`InsertedBelowCap`). Removals only make room. `Commit` is the abstract `Create`, `Remove` and `Import` are
  themselves, the rest stutters.
- *ResumeVersions*. `DoomedBeyondCap`: a row about to be deleted has at least the cap's number of newer ones, now and
  not only when the ids were read. An insert adds a number and takes nothing away. Another cleanup's deletion is the
  hard case: of the rows it deletes take the newest; by the invariant it has a cap's worth of newer rows, and these
  all survive (lemma `Survivors`), so that no doomed row elsewhere falls below the cap. This needs the rows to be
  finite and to be named by their calls (`OneRowEach`). For the budget, `RaceBound`: the numbers go up at most to how
  many calls are past their insert, and each race that a call lost has raised the newest number it will read, which no
  cleanup deletes. `TriesLeft` is what types the counter. For the cap, `CapInv`: of any set of calls that have listed
  what is beyond the cap, the last to list has seen the rows of them all, so that at most a cap's worth of these is
  found by none of them; and what was found is deleted before a cleanup ends.
- *QualityRecompute*. `GraderInv`: a worker computes only while the job is active, one at a time. With no direct calls
  this makes saves sequential, so that what is being computed is no older than what is saved (`ScoreInv`). `DueInv`:
  what is due is saved, or on its way in a job that has not read the resume yet, or in a computation that has read it
  late enough.

- *MecSync*. `SuccessMeansStored`: a row says SUCCESS only after a sync has stored its file but the courses it left
  out (`SyncInv`: what each sync has still to insert, what is stored and what was left out make up its file, and an
  institution of the file is stored before the codes are listed, so that none of its courses is left out), and no two
  syncs at work have one row
  (`RowsDiffer`). Nothing is ever removed, so that this survives overlapping syncs. `OneSyncAtATime` rests on
  `LeaseInv`: until a sync overruns, what is left of the lease and the age of the one in flight make up the whole of
  it. `LockHasSync` and `FreshAfterSync` are inductive with the types.
- *ImportJob*. `OnePerImport`: requests that were let in one after the other are at work one at a time (`Alone`), so
  that nobody moves the status while a resume is being made (`Importing`); once there is one, its maker is about to
  write COMPLETED or has ended, and the job cannot fail any more unless that update is refused (`MadeOnce`). A retry
  needs FAILED. `RunningHasRequest` needs a request at work past the first update of a retry, whose refusal leaves no
  trace (`Processing`).
- *MatchCache*. `StaleIsPending` is inductive with the types: every step that makes the cached match older than the
  resume or the job leaves an event, a job or a fallback behind it, and every step that removes one of these deletes
  the key, or sets `lost`. The fill is where `raced` comes from. Both end with the match that they are about, so that
  a later one is held to the property again. `TriesLeft` is what types the queue's counter.
- *ChatInbox*. `Sound`: where a message is in its life tells whether it is stored and answered. `Counted`: the cached
  count is right or about to be cleared, and so is one that was computed and is not cached yet, unless a delete came
  in between (`overtaken`); the second half is what the property does not say. `OneAtPreview`: unless `missed`, at
  most one message is on its way to the preview, the last one. `Admitted`: a send that is past its check while
  somebody is blocked is in `crossed`.

- *Applications*. `FirstComeIsServed`: `RowStep`, only a call that has found no row writes one. `CapIsRespected`: the
  job counts once and submits later; `FitsUnderCap` is what it knows in between. As long as nobody applies beside it
  (`overtaken`), the applications of the hour and those it still has planned, from its budget over its picks to the one
  in its hands, fit under the cap. A submission of its own takes one from the second and adds it to the first;
  somebody else's puts the job into `overtaken`; the clock only helps. `LimitIsRespected`: until `unsure`, a check that
  is still fresh was made while no run was under way (`ChecksAreFresh`), so that runs are past the guards one at a time
  and the counter lacks at most the one that is (`CountsRuns`), whose new value it already knows when it writes.
- *WeeklyBatch*. `DigestIsBatch` needs that there are no items before the batch and that an attempt mails what it
  stored, unless it found a batch that was (`StoredFirst`). `OneDigest`: as long as no two jobs met and none forgot its
  mail, one attempt at a time is under way, before its mail there is none, and after it the batch says so or the
  attempt is about to (`MailedAndMarked`); a pending batch is then one that nobody mailed.
  `DecisionsAgree`: an approval that decides has seen or made the application (`ApprovesItem`), which nobody deletes.
- *FitProfile*. `VersionFollows`: a submission has a version exactly after its `upsert`, which counts from the row.
  `EndedStays`: what had ended when an erasure began stores nothing again, and the erasure's own two writes take away
  what it left. `OneCreates`: unless `crowded`, who is about to create a set is alone with that, no set is open, and
  the generation it counted is the next place. `OneCounts` relates two submissions for one set, the answers and
  versions they left and the completed flag: of two that left or may leave something, one was let in beside the other
  or stopped; a submission that has returned has completed its set, so that none is let in after it.

The inductive invariants were run through TLC as invariants of their instances before they were proved. Proof modules
hold the proofs of several components where these use no name twice; the components stay apart.

Every safety property of a passing run is a theorem. Only model-checked are the violated property and what is out of
the provers' reach: the liveness properties `KeyIsFreed`, `RequestsEnd`, `ImportEnds`, `InvalidationArrives` and
`BatchEnds`, which rest on fairness and so on ENABLED, and anything that takes an induction over data of arbitrary
size.

## 5. Limits

- Contents are abstracted to what the properties tell apart: no text, no scores as numbers, no formatting.
- Redis, Postgres and BullMQ are external, modelled from how the adapters use them. Their own failures appear as lost
  replies, refused updates, expired keys and stalled jobs; a Redis that forgets keys in a failover does not.
- The bus runs in the process. The pod dying between a write and its event is in `QualityRecompute`
  (`EditUnpublished`); a pod dying between a handler's `remove` and its add is not.
- Reads that change nothing, and the pure rules (scores, blends, search ranking, CSV syntax), are left out.

## 6. Plan

What is left, in this order:

1. `CreditBudget`: the monthly credits of the ingestion, a second body under `DistributedLock`, in the form of
   `ReminderSweep`. `ExpiryReminders`: those of fit profiles.
2. `Idempotency`: `once` under its lock, with releases and tombstones, and the handlers that call it.
3. `Onboarding`: two completions of one progress row.
4. Proofs: what the liveness properties rest on as safety, step by step (each fair step brings its measure down), and
   that `Applications` is an abstract set of applications in which each is submitted once.
5. Two conversations in `ChatInbox`, whose unread counts share a key per user.

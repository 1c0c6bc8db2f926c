# A verification of db-backup-tool

db-backup-tool lets the users of a tenant back up, restore, export, import and
clone their databases. An API process accepts requests, workers do the work, a
scheduler fires the schedules; Postgres (through Prisma) holds the rows, Redis
the BullMQ queues, an object storage the artifacts. Nearly everything that is
hard in it lies *between* two calls: there is not one transaction, not one lock
and not one outbox in the repository, and each handler is a row of awaits that
may be cut short, interleaved with another one or run again.

This directory holds TLA+ models of that program, the TLC runs that check them
on small instances, and TLAPS proofs of the theorems that hold for every
instance. `PROJECT.json` maps each definition to the source lines it models.

    tlc -config lifecycle_faults.cfg MCJobLifecycle.tla
    tlapm JobLifecycleProofs.tla

## 1. The system

| Component | State | Operations | Hard part |
|---|---|---|---|
| Job rows and events (`modules/jobs/jobService.ts`) | `Job.status`, `Job.progress`, `JobEvent`, pub/sub | createJob, markRunning, updateProgress, markDone, markFailed | the row is written, then the event, by two calls; retries write over what an earlier attempt said |
| Queue and workers (`queue/index.ts`, `worker.ts`) | BullMQ state, attempts, stalls, locks | enqueue, reserve, complete, fail, promote, stall check | three attempts with backoff, crashes, lapsed locks |
| Backup processor | the object, the `Backup` row | dump, put, backup.create | the object's key and the row's uniqueness are per job, the content is per attempt |
| Restore, clone, export, import processors; adapters | the target database, an artifact | dump, restore, readTable, insertRows | re-runs on a half-filled target; clients that outlive who called for them; a rejection nobody hears, which ends the process |
| Request routes | nothing | createJob, enqueue, audit, 202 | a crash between two of them |
| Schedules (`schedules.routes.ts`, `scheduleManager.ts`, `scheduler.ts`) | rows in Postgres, repeatables in Redis | create, patch, delete, boot | two stores and no transaction; a pattern nobody checks before the row is written |
| Schedule trigger (`scheduleProcessor.ts`) | `lastRunAt` | create a backup job, enforce retention | retries after the job was created |
| Retention (`retention.ts`) | backup rows, objects | enforceRetention | object and row deleted by two calls; overlapping sweeps |
| Audit (`audit/audit.ts`) | a hash chain per tenant | audit, verifyAuditChain | concurrent appends, swallowed failures |
| Notifications | rows per user | notifyJobOutcome | may reject after the job is done |
| Progress stream (`jobs.routes.ts`, `useJobs.ts`) | subscriptions, the browser's view | snapshot, subscribe, fall back to polling | what is published between snapshot and subscription |
| Servers and credentials (`servers.routes.ts`, `serverService.ts`, `ServersPage`, `ServerFormModal`, `useServers`) | `DbServer`, `Credential`, the consoles' lists and forms | create, patch, delete, getConnectionInfo | two updates and two queries without a transaction; a form that sends back what it was opened with |
| Accounts (`users.routes.ts`, `auth.routes.ts`, `auth/`, `tenancy/bootstrap.ts`) | tenants, users, roles, tokens | register, login, refresh, create, patch, delete, assign | checks before acts; tokens that outlive the right to them |
| Session of the console (`lib/api.ts`, `store/auth.ts`, `useAuth.ts`) | token and user of a tab, local storage, cookie, query cache | send, refresh, replay, login, logout, reload | one refresh for many requests; answers of a session that has ended |

How they interact: a route, or a trigger, creates a Job row and then enqueues
it; a worker slot reserves the queue's job, runs the processor, which writes the
row, publishes events, appends audit entries and notifications, and returns or
throws, which settles the queue's job or schedules a retry. A backup or an export
leaves an artifact that retention, fired by triggers, deletes later. Schedules
and servers are edited through the API and mirrored to Redis.

What makes them correct: a job is delivered until it is settled and no oftener
than the limits say; what the row, the events and the notifications say of a job
is what happened to it; an artifact that is recorded is there and whole;
retention deletes nothing it should keep; an enabled schedule fires once per
firing, a removed one never; the log of what was done is complete and tampering
shows; tenants do not touch each other, keep an administrator and lock out whom
they disable; a host gets its own password and no other; a tab shows the data of
the user whose token it sends.

## 2. The modules

| Module | Models | Depends on |
|---|---|---|
| `Delivery` | abstract: what is promised of the queue | |
| `JobLifecycle` | routes, queue, workers, the skeleton of all processors, row, events, audit, notifications | implements `Delivery` |
| `BackupJob` | `backup.processor.ts` expanded, storage, `Backup` row | EXTENDS and implements `JobLifecycle` |
| `ScheduleSync` | schedule routes, server cascade, scheduler boot | |
| `Retention` | `enforceRetention` and the artifacts | |
| `AuditChain` | `audit`, `verifyAuditChain` | |
| `ProgressStream` | the SSE handler and `useJobStream`, for one job and one page | |
| `Transfers` | the restore, clone, import and export processors and what they call of the two adapters, in one process | |
| `Accounts` | users, roles and tokens: every request that writes | |
| `Session` | one tab of the console: token, user, query cache, refresh | |
| `Servers` | one server: row, credential, consoles, readers | |
| `JobLifecycleProofs` | theorems about `JobLifecycle` | EXTENDS `JobLifecycle` |
| `BackupJobProofs` | the refinement of `JobLifecycle`, theorems about backups | EXTENDS `BackupJob`, instantiates `JobLifecycleProofs` |
| `ArchiveProofs` | theorems about what is kept: artifacts and the log | EXTENDS `Retention`, `AuditChain` |
| `ConsoleProofs` | theorems about what the console shows: for whom, and of a job | EXTENDS `Session`, `ProgressStream` |
| `ScheduleSyncProofs`, `AccountsProofs`, `ServersProofs`, `TransfersProofs` | theorems about the modules they are named for | EXTEND those |
| `MC...` | constants for TLC | |

### JobLifecycle

One action per await of a handler that changes something. `request` is the place
of the HTTP request (`CreateJob`, `Enqueue`, `AuditRequest`), `qstate`,
`attempts`, `stalls` and `lock` are BullMQ's hash of the job, `pc[w]` is the place
of a worker slot in the processor:

    adapter -> start -> work -> finish -> auditOk -> notifyOk -> ret
       |         |       |        |                     |         |
       |         +-------+--------+------ catch <-------+         | close()
       |                                    |                     | rejects
       v                                    v                     v
     throw <-- notifyFail <-- auditFail <---+                   throw

`work` is the middle part, in which the five processors differ: it reports
progress, ends or throws. `getAdapter` stands before the `try`, hence the arrow
from `adapter` straight to `throw`.

From every place a slot may also go straight to `idle` (`Crash`): its process has
died. That needs no fault but failing work. backup, clone and export start a dump or
an upload, await something else and only then the promise of what they started
(backup.processor.ts:20-26, clone.processor.ts:21-24, export.processor.ts:36-37); when it
rejects in between, nobody listens, and Node ends the process, with the slots of all
five queues in it. So work that fails goes to `catch` (`ThrowWork`) or takes the worker
with it, whatever `Faults` is.

A write of the row and the publication of its event are two calls: `MarkAs` and
`ReportThrows` have outcomes in which the first took effect and the second rejected,
before or after its own effect, and `Crash` those in which the process died between the
two (`HalfMarked` for the three marks, `HalfReported` for a progress). `Faults` says
what else happens: `"call"`, a call to Postgres or Redis or a connection's `close`
rejects before or after it took effect; `"crash"`, the API process dies between the
awaits of a route; `"lapse"`, a worker's lock expires and the worker goes on.

BullMQ is external and modelled from how `queue/index.ts` and `worker.ts` use
it: a reserved job is locked by its slot; a result counts only for the holder of
the lock; a failed attempt is retried after a backoff until `attempts` are used
up; an active job without a lock is found by the stalled check, put back at most
`maxStalledCount` times (BullMQ's default 1) and failed beyond that. A crash and
the expiry of the dead process's lock are one step: until the lock expires, nothing
else can happen to the job. Times (backoff, lock duration) are not modelled, an
expiry may come any time. `removeOnComplete` and `removeOnFail` are not modelled:
they act days after the job was settled.

### BackupJob

Replaces `work` by the steps of `backup.processor.ts`. A dump is named by the
delivery that made it, `object[j]` says whose dump lies under the job's key and
whether it is whole, `backup[j]` whose checksum the row has. `puts` are the uploads
under way: `Promise.all` rejects as soon as the dump fails and leaves the upload
running, so that `LatePut` may store a truncated dump any time later. A second
`backup.create` of a job fails on the unique `jobId`. `src/lib/storage` is not part
of the repository; its `put` is taken to replace the object of a key and to leave
a torn or no object when it rejects. A client that cannot be spawned does not throw
where it is spawned but rejects its promise later, like one that exits with an error:
during the report that follows nobody listens (`BackupCrash`), after it `DumpFails`.

### ScheduleSync

`row` is what people edit, `repeats` what fires. Each await of POST, PATCH, DELETE
and of `syncSchedules` is an action; `SafeRemove` cannot tell an absent repeatable
from a failed call, as in the code. BullMQ identifies a repeatable by name, id and
pattern, so one schedule has as many repeatables as patterns were added and not
removed. `ScheduleModal` sends all fields (`Create`, `Save`); `Toggle` is the pausing and
enabling of the page's menu, which sends one field, so that the pattern is that of the
row as it is by then.

A pattern is any text for the routes (`z.string().min(1)`); `Valid` are those BullMQ can
parse. The `add` of another one throws when the row is committed already (`Add`), and
at every boot ends the scheduler (`SchedulerStops`), until somebody edits the row.

`disturbed` is a history variable: the schedules that two processes worked on at a time
or a fault hit. A request disturbs its schedule if another request or the
scheduler's list has it when the row is read, a boot those that requests are at work
on, a lost call, a death or a cascade those it strikes. `fresh` remembers that nothing
but the scheduler has moved since its boot began. Only properties read the two.

### Retention

Artifacts are numbered in the order of `createdAt`. `RecordArtifact` is the
`backup.create` of the backup and the export processor; `StartSweep` is the query
and the slice, `DeleteObject` and `MarkDeleted` the two calls of the loop's body,
`DeleteRejects` and `MarkRejects` their failures, after which the sweep goes on
with the next artifact. Several sweeps (one per trigger) overlap, each with its
own snapshot; the queue of the triggers has one worker slot, so that it takes two
scheduler processes for them to overlap. Deleting an object that is not there is taken not to be an error.

### AuditChain

`log` is the tenant's rows in the order of their insertion. `ReadHead`, `Prepare`
and `Insert` are the three parts of `audit()`, `Lose` its catch block or the
process's death. Two rows of one millisecond have no order in `findFirst`, hence
`Heads`. `findMany` of the verification leaves rows of one millisecond without an order,
too; `Verify` reads them as they were inserted, the only order whose links can fit, so
that the code may reject a log that `Verify` accepts and never accepts one it rejects.
The hash is a constant operator, injective in the instances. jsonb
returns an object's keys in an order of its own: `Stored`.

### ProgressStream

The job comes to a worker up to `Deliveries` times, attempts and re-runs after a death
taken together. A delivery may end before it wrote anything (`Skip`: `getAdapter` is
called before the `try`), or anywhere later (`Fail`), and the queue may give the job up
after any of them (`Lose`). In between the worker writes `row` and then publishes
(`silent` in between). Deliveries do not overlap here: a worker whose lock has lapsed
and which goes on writing is `JobLifecycle`'s. The handler reads
the row (`snapshot`), sends it and subscribes, in that order; `wire` holds the frames
on their way, at its end perhaps a `Hangup`. `useJobStream` shows whatever arrives
last. Its fetches may be answered in any order and fail; their answers are the row
at the time it is read. Writes are numbered (the code's are not) so that a property
can say which of two is newer. A broken connection loses the frames that have not
arrived; the handler may also end up without a subscription (`deaf`), because
`subscribe().catch(() => undefined)` swallows the error.

### Transfers

Two jobs of the four kinds that move data, in the one worker process they share.
`kind`, `engine`, `create` and `torn` say what the jobs are about and are chosen in
`Init`; `pc[j]` is the place of a delivery in its processor's `try`, `at[j]` how many
batches of a file it has inserted or parts of a dump it has produced, `copies` how often
a batch was inserted.

A restore is a call of its own: `call[w]` is what the adapter's `restore`, called for by
the delivery `w`, is doing (`ensure`, `create`, then `load` while its client runs), and
`todo[w]` the statement its client executes next. The delivery awaits it (`Awaited`), and
may be gone before it: the dump of a clone rejects `Promise.all` while the restore goes
on (`DumpRejects`), and a client outlives its process for what it has read of its input
(`Die`, which leaves it `cut`). Calls and clients of earlier deliveries, of the other job and
of the retry therefore execute side by side, statement by statement.

A script has for each table a statement that creates and one that fills it, from mysqldump
also one that drops it before (`First`, `After`), and each commits by itself
(`Execute`, `Effect`). psql runs with `ON_ERROR_STOP` and mysql stops at errors anyway: a
client whose statement cannot be executed goes no further (`CallRejects`), so on
Postgres a table that is there stops the second restore, while on MySQL it is
dropped. `owner[i]` is who created table `i`, `rows[i]` whose rows are in it; `tail`
remembers, for MySQL, the client that executed all statements since its own first one.

Two things the code does not handle are in the model because they decide what
happens: a promise that rejects while nobody awaits it (`DumpRejectsUnheard`,
`PutRejectsUnheard`), and a pipe into a client that has exited (`PipeBreaks`). Neither
`worker.ts` nor the adapters listen to them, so Node ends the process, and with it
the deliveries beside it (`Die`). Each of these deliveries then counts as stalled.

`EnsureDatabase` of Postgres asks `pg_database` and creates; MySQL's runs on a pool that is
bound to the database in question and so cannot create a missing one. Whatever a
restore awaits before it touches the target (the adapters, the row of the backup, its
artifact, which a sweep may have deleted) may reject, and that is all these awaits do
here (`Throw`). The updates of progress, the audit entries and the notifications are
those of `JobLifecycle` and only their failures appear, as outcomes of `Throw`,
`ReportDump`, `InsertUnanswered` and `Finish`.

### Accounts

A request is served in two or three steps: what it looks at first (`Authenticate`
is the bearer token and `requirePermission`; the sign-ins look at the user's row),
the look-up of its target in the tenant (`FindTarget`), the write. Others come
between. Of the four seeded roles only whether they bundle `user:manage` is kept.
`access` says who has a valid access token; that somebody still has a refresh token
of an earlier login is always possible, since no refresh token is ever revoked.

### Session

`store` is the zustand store of a tab (`token`, `user`), `stored` what it has in
local storage, `cookie` whose refresh cookie the browser holds, `cache` whose lists
the query cache holds. A query is sent with the token of the moment; `Unauthorized`
is the response interceptor of `api.ts`, which starts a refresh or joins the one in
flight and lets a request do so once (`again`); `RefreshOk` sends all that wait
again; `RefreshFails` ends the session, with the page loaded anew or not.
A token is the number of its issue. `late` marks requests of a session that has
ended since, `overtaken` that an answer to one was taken for an answer of the new
session, which the code does not prevent; both are only read by properties.

### Servers

`row` and `cred` are the two tables; PATCH is `FindServer`, `WriteRow` and, if a new
password was typed, `WriteCred`; DELETE is `FindServer` and `DeleteRow`, which
cascades. `Open`, `Edit`, `Submit`, `Close` and `Confirm` are the page and its form,
`Fetch`, `ServeList`, `Show` and `Answered` (with `Invalidate`) the query of the list.
`StartRead` and `EndRead` are the two queries of `getConnectionInfo`'s `include`.
What `cred` holds is the envelope of `lib/crypto.ts` (`EncryptSecret`): the password under
a data key drawn for it, and the data key under the master key; `Password` is whose
password it is when it is opened (`DecryptSecret`). The five columns of an envelope are
written by one statement, so no reader finds the data key of one and the text of another.
Of the settings only the host is kept, of the password whose it is. The fields of the
form are independent: `Edit` sets any host and any password or none, and a blank password
keeps the one stored. `Pair` is what a save is to lead to, its host with its password or
with the one stored, and `meant` collects these pairs.
`orderly` remembers that no save overlapped another, stopped half-way or sent old
fields without a password.

## 3. What is checked

All runs finish in less than four minutes on two cores.

| Run | Instance | Shows |
|---|---|---|
| `lifecycle_faults` | 1 job, 2 slots, 2 attempts, 1 stall, dying workers, rejected calls, a dying API and lapsed locks, fair | `TypeOK`; `CompletedIsTold` although executions overlap; the queue implements `Delivery` (`DeliveryImplemented`), although two executions of one job may overlap; `EnqueuedJobsSettle` |
| `lifecycle_calm` | 2 jobs, 1 slot, 3 attempts, 1 stall, no fault but failing work, which may end the process, fair | `RestingRowIsExplained`: a row left without an explanation is one of a job that was charged a stall; `EnqueuedJobsSettle` for jobs that compete |
| `backup_artifact` | 1 job, 2 slots, 2 attempts, rejected calls and dying workers | `DoneIsRecorded`, `FirstDeliveryIsIntact`; the processor implements the skeleton (`LifecycleImplemented`); and of the skeleton `SoleExecution` and `CompletedIsReported` |
| `schedules_sync` | 2 schedules, a valid and an invalid pattern, 2 overlapping requests and boots, all faults | `RegisteredAtRest` of a schedule that is not disturbed, whatever happens to the other; `BootRegistersAll` whatever happened before the boot |
| `retention_keeps` | 4 artifacts, schedules that keep 1 and 2, 2 sweeps, rejected calls, 1 crash, fair | `NewestKept`, `DeletedIsFreed`, `RetentionConverges` |
| `audit_tamper` | 2 writers, 2 instants, 3 entries, 2 actions, metas in 2 orders of keys | `EveryEntryContinues`, `TamperDetected` |
| `stream_follows` | 1 job with up to 2 deliveries, 2 fetches in flight, fair | `LastFetchIsFresh`, `FollowedIsShown` |
| `transfers` | a restore beside a clone, an import beside an SQL export, a clone beside an export of rows; both engines; scripts of 2 tables, files of 2 batches; 2 attempts, no stall overlooked | `CompletedIsWhole` on Postgres always, on MySQL until another client executes a statement; `ImportedInOrder`, `ExportIsRecorded` |
| `accounts` | 2 users, 2 tenants, 2 e-mail addresses, 2 requests side by side, fair | `TenantsApart`; `SomebodyManages` as long as requests come one at a time; `LockedOut` |
| `session` | 2 users who share a browser, 2 queries in flight, 3 tokens, fair | `UserIsToken` and `ListsAreOwn` as long as nothing was overtaken; `RequestsSettle` |
| `servers` | 2 consoles, 2 hosts, 2 changes | `SettingsArePaired` after orderly saves of host, password or both; `ReadsArePaired`; `OwnWriteShown` |
| `audit_instants` | 1 writer, 2 instants | a violation is expected: README.md promises that entries are verifiable, but the instant hashed is the process's and the one stored the database's, and a log that nobody touched does not verify |

Bounds. One job is enough where the properties speak of one job and jobs share
nothing but slots; `lifecycle_calm` has two for one slot because there they
compete. Two slots are the least at which a job can be run twice at a time. The code's
attempts and stalls are 3 and 1; where the state space is large the attempts
are 2, which leaves a first, a last, a failed and a stalled delivery in any order.
`Milestones` are a progress in range and one beyond 100 (to be clamped); a processor
passes only values below 100, the clamp is for its callers to come. `lifecycle_calm`
reports one, 0, because its properties do not look at the percentage, and its `CalmSpec`
lets the audit of a request come before all else, because they do not look at that
either. In `schedules_sync` one schedule is hit by what the other one must not feel, one pattern
is valid and one is not, and two requests are one that is overtaken and one that
overtakes; while the scheduler boots, `MCScheduleSync` has requests that overlap be
about one schedule. In `retention_keeps` four artifacts are two more than the larger
retention. In `audit_tamper` three entries have one in the middle, with a predecessor
and a successor. In `stream_follows` two deliveries give a failed end that a retry
undoes, and a job that is given up with nothing written, and two fetches one that is overtaken. In `transfers` two jobs share a target
or a process, which is all that jobs can share, and two tables let a target be
half filled. `MCTransfers` names the three pairs of kinds, and starts a restore where
it differs from the clone: it creates a target that is missing, and on MySQL, whose
clients have most to do, finds a table of the script and a torn artifact; a clone
beside an export runs on Postgres. No stall is overlooked, so that a dead process costs the
delivery its job while the clients go on beside the other one. In `accounts` the two
requests are those that can meet between a check and its act. In `session` two
queries are one that starts a refresh and one that joins it, and three tokens let an
old one, its replacement and another user's be about together; `MCSession` follows an
overtaken tab only until its requests are answered, since nothing is claimed of its
store any more. In `servers` two changes are one save and one that meets it;
`MCServers` lets a form be edited once, opens no form behind a save or after one that
was not orderly, has no password typed that is that of the host the form shows, has
one field alone changed only while the other console is at rest, fetches a list
only when it may be out of date, sends nothing after a save that was not orderly,
and reads settings only while a save is under way and no list is being fetched.
Bounds that the code does not have are `MaxArtifacts`, `MaxCrashes` (Retention),
`MaxTime`, `MaxEntries` (AuditChain), `Size` (Transfers), `MaxBusy`, `MaxId`,
`MaxTenant` (Accounts), `MaxFlight`, `MaxTokens` (Session) and `MaxVer` (Servers).
`CHECK_DEADLOCK` is off where jobs, entries or tokens are finitely many and the
system rests at the end; each cfg says which.

Fairness. `FairSpec` of JobLifecycle: BullMQ's timers fire; an idle slot takes a
waiting job; the process that runs a handler goes on with it; the middle part ends
one way or the other. Nothing is assumed of outcomes, of clients, of crashes. It does
not assume which of the waiting jobs a slot takes: that each is settled nevertheless
follows from the limits of the others. `FairSpec` of Retention: a sweep goes on,
schedules fire again, and a deletion that is tried for ever does not reject for ever
(strong fairness per artifact, an assumption about storage and database); crashes are
finitely many. `FairStreamSpec` of ProgressStream: the worker, the handler, the browser's
event loop and its interval go on, and fetches do not fail for ever (strong fairness
of an answer and of its arrival); nothing is assumed of the connection. `FairSpec` of
Accounts: a request that was begun is answered, and every access token expires, which
its `exp` guarantees. Of Session: a request and a refresh end, with an answer or with
an error (axios rejects when the connection is gone). Transfers and Servers assume
nothing: their properties are about safety.

Mutants. Each property has a changed definition beside the one it changes (named
`...Mutant`) under which TLC finds the property violated: a stall that is not
counted, a lock that is ignored, a swallowed notification error, an upload not
awaited, a retention off by one, the wrong pattern removed, a boot or a client that goes on
after an error, a batch inserted twice,
a look-up without its tenant, a query cache that is not cleared, a refresh that wakes
one request only, a password that is not written.

## 4. What is proved

`JobLifecycleProofs` proves for all sets of jobs and slots, all limits and
all choices of `Milestones`, `Attended` and `Faults`:

- `TypeCorrect`: `Spec => []TypeOK`.
- `QueueAlwaysConsistent`: `Spec => []QueueInvariant`. `StartsAccounted` is not
  inductive: that a slot which fails an attempt charges it to the right job needs
  to know that the holder of a lock runs that job, that only active jobs are locked and
  that each state of the queue has its own sum. `QueueInvariant` says so and, with
  `TypeOK`, is inductive, even with lapsing locks, because BullMQ honours only
  results of the holder.
- `StartsAreAccounted`: `Spec => []StartsAccounted`, a consequence: each run of a
  processor is charged to an attempt, a stall or the completion. It and
  `QueueInvariant` are stated by the proofs only, no run checks them.
- `CompletionIsTold`: `Spec => []CompletedIsTold`, with lapses: `ToldInvariant` adds
  that a slot at its return has told its job's actor, so that it does not matter which
  of several executions holds the lock.
- `ImplementsDelivery`: `Spec => DeliveryImplemented`: initial states map to
  initial states, each step to `Publish`, `Deliver`, `Settle` or a stutter.

and, from the assumption `"lapse" \notin Faults`, which the theorems state:

- `ReportAlwaysConsistent`, `CompletionIsReported`: `ReportInvariant` ties the place
  of the processor to what row, event and notification say, and needs that
  only the holder of the lock writes, which is what a lapse destroys.
- `ExecutionIsSole`, `DoneComesFromRunning`: consequences of the same invariant.
  `ReportInvariant` and `DoneOnlyFromRunning` have no run of their own.

and, from the assumption `Faults = {}`, which the theorem states and under which work,
`getAdapter` and therefore attempts fail all the same, and workers die of it at any place:

- `RestIsExplained`: `RestingRowIsExplained` speaks of a job that rests; what it rests on
  is what the delivery before did on its way out, so `ExplainedInvariant` says at each place
  of the processor how much of the next explanation is written. A delivery whose
  process died wrote none, and is charged a stall: the property excuses a failed or
  delayed job for that and for nothing else, and a completed one not at all. With rejected
  calls it is false, and rightly: a row that cannot be written explains nothing.

`BackupJobProofs`, for any jobs, slots, limits and faults:

- `ImplementsLifecycle`: `BackupSpec => LifecycleImplemented`, step by step: the
  places of the middle part are the skeleton's `work` (`Bar`), the two reports are its
  `ReportProgress` and `ReportThrows`, the dump and the upload are stutters, and whatever ends the
  middle part is `FinishWork` or `ThrowWork`. The theorems about the skeleton are then those
  of backups: `BackupStartsAreAccounted`, and without lapses `BackupCompletionIsReported`
  and `BackupExecutionIsSole`, each of them `LP!...` of `JobLifecycleProofs` under the
  refinement mapping.
- `ArtifactsAlwaysAgree`, with `DoneIsAlwaysRecorded` and `FirstDeliveryAlwaysIntact` as
  its consequences, under every fault, lapsed locks included. Neither property
  is inductive: uploads outlive the delivery that began them. `ArtifactInvariant` names
  each upload, object and row by the delivery it is of, and says that two slots never run
  the same delivery, that nothing is under way any more in the name of a delivery that is about
  to record, and that a recorded one has nothing under way either. That every new
  delivery has a new number comes from the queue's invariant, again through the
  refinement.
- `BackupTypeCorrect`.

`ArchiveProofs`, for any number of artifacts, any schedules and retentions, any
sweeps that overlap, fail and die:

- `NewestAreKept`, `DeletedAreFreed`, `TypeCorrect`. `NewestKept` alone is not
  inductive, because a sweep acts on a list that it drew up earlier. The invariant
  (`SweepInvariant`) adds that whatever is doomed is recorded and not protected, and
  that what is halfway has lost its object. The argument: an artifact beyond a
  schedule's slice has that many newer ones (`BeyondIsUnprotected`), and new
  artifacts never make that fewer (`RecordingUnprotects`).

and of the log, for any writers:

- `EntriesContinue`: a hash that a writer has read stays in the log (`DraftShape`).
- `TamperingShows`: `TamperDetected` in every reachable log, from the two assumptions
  about `Hash` that the theorem states: no collisions and no fixed points.

`ScheduleSyncProofs`, for any schedules, patterns (valid or not), requests and faults:

- `BootRepairs`: as long as nobody interferes, what is wanted is registered or still
  on the scheduler's list (`BootProgress`).
- `InStepAtRest`, `OnePattern` (no run): of a schedule that is not disturbed, the step of the
  only request about it, or of the boot, tells how its repeatables differ from what its row
  wants (`InStep`, `OrderInvariant`), and no step about another schedule moves them
  (`OthersUntouched`). No theorem assumes that there are no faults: a fault disturbs the
  schedule it hits, and the rest is proved.
- `TypeCorrect`.

`AccountsProofs`, for any number of users, tenants, e-mail addresses and requests:

- `TenantsStayApart`, `AlwaysManaged`, `TypeCorrect`. A request acts on what it read
  earlier, so `AccountsInvariant` says what it still knows by then: that the target
  which it found is of its own tenant stays true, because no row ever changes its tenant
  (`RequestFits`); that its user still manages users stays true only while nobody else
  is served (`OneAtATime`), which is why `SomebodyManages` needs that condition and
  `TenantsApart` does not. The argument for one request at a time: whoever deletes
  another remains, nobody deletes oneself, and assigning a role takes none away.

`ConsoleProofs`, for any users, tokens and queries in flight:

- `UserIsOfToken`, `ListsBelong`, `TypeCorrect`. `SessionInvariant` adds what makes an
  answer harmless however late it comes: a request that is not of a session that has
  ended was sent with a token of the user shown now, and a query that the clearing of
  the cache cut off is of an ended session.

and for any number of deliveries of the job and of fetches in flight:

- `LastFetchAlwaysFresh`, `StreamTypeCorrect`. A fetch is compared with the frame before it,
  so `StreamInvariant` says that no frame on the wire, nothing the handler has read and no
  answer is newer than the row, which the worker writes before it publishes.

`ServersProofs`, for any hosts, consoles and changes:

- `SettingsStayPaired`, `ReadsStayPaired`, `OwnWritesShow`, `TypeCorrect`.
  `ServersInvariant` says what each half of a save leaves behind: orderly saves come one at
  a time, in the middle of one the row's host and the password still to be written are a
  pair that was meant, and otherwise the row's host and the one stored are (`InOrder`);
  and no console is owed a newer version than the row's, nor than that of any list it
  may still be shown without asking again. `EnvelopeOpens` is the lemma about the
  envelope: under whatever data key, what was put in comes out.

`TransfersProofs`, for any jobs of any kinds, attempts, stalls, scripts and files:

- `CompletedMeansWhole`, `ImportsInOrder`, `ExportsAreRecorded`, `TypeCorrect`. None of
  the properties is inductive. `JobsFit` says of each job what its place tells: `Queued`
  charges each run to an attempt, a stall or the delivery under way, which bounds the
  runs; `Copied` says that the batches before the delivery's place have been inserted once
  more than those behind it, and those behind it not yet by this delivery; `Stored` that no
  upload is under way of a delivery that was recorded or is about to be, so that what a
  late one leaves is never taken for it; `Loaded` that the client of a restore that
  succeeded is at its end and gone. `TargetFits` says of each client, awaited or not, what its
  position in the script tells about the tables: on Postgres what it has created and
  filled is its own and stays so, because no statement of another client can replace a
  table that is there (`PostgresFits`); on MySQL the same of the last client to execute a
  statement (`MysqlFits`). `TargetFits` needs nothing but types and the steps of the
  clients, so that the two halves are preserved separately (`JobsStep`, `TargetStep`).

The assumptions on the constants are those of the modules (`AttemptsAssumption`
and so on): positive attempts, natural numbers, distinct sentinels (nobody is not a
delivery, none is not a row). Nothing else is assumed.

Only model-checked: everything under fairness (`EnqueuedJobsSettle`,
`RetentionConverges`, `FollowedIsShown`, `LockedOut`, `RequestsSettle`), which is out
of the prover's reach; and `UntamperedVerifies`, which is false. Every other property
that a run checks is a theorem.

## 5. What is left

In this order:

1. `ScheduleTrigger`: a firing, its retries and the jobs it creates, composed with
   `Retention`. The code gives a firing no identity, so that all a property could
   say is how many jobs a firing may become.
2. The middle part of `Transfers` shown to implement `JobLifecycle`, as that of
   `BackupJob` is.

## 6. Known divergences without a run

Found while modelling, between the code and what its documents, its comments or its
own console expect. Paths are relative to `src/`.

Jobs:

- A process that dies between `createJob` and `enqueue` leaves a job that is
  `queued` for ever; one that dies between `enqueue` and `audit` leaves a job whose
  request has no audit entry (ARCHITECTURE.md wants it in the same transaction).
- `getAdapter` stands outside the `try` of the processors: when it fails three times
  the queue's job has failed and the row stays `queued`, and so does the page that follows it, although the database is the
  single source of truth (ARCHITECTURE.md:84). `RestingRowIsExplained` and
  `Deserted` (ProgressStream) name the case.
- The actor of a job is told that it failed after each failed attempt, also when a
  retry completes it (`notifyJobOutcome` is documented to tell the terminal outcome).
- Jobs are not idempotent (ARCHITECTURE.md says they are): after a crash behind
  `backup.create` every re-run fails on the unique `jobId`, and the job ends as
  failed with its backup recorded. Such a re-run has by then overwritten the object,
  so that the recorded checksum (README.md:23) is that of a dump which is gone.
- A dump or an upload that fails while backup, clone or export awaits something else is an
  unhandled rejection: the worker dies without a `catch`, with all the jobs in it. A job
  that has stalled twice is failed by BullMQ without its processor, and its row stays
  `running`, with no audit entry of an outcome and nobody told. No fault is needed for it.
- When a lock lapses, the execution without the lock may be the last to write: the row of
  a completed job may say failed or running for ever.
- A trigger that is retried creates a second job for the same firing.
- No restore compares the artifact with its checksum: a torn one is loaded as far as
  it goes and reported as completed (`Torn` of Transfers).
- The dump of a clone that fails does not stop the restore of its target, which goes on
  beside the retry. On MySQL, where a dump drops the tables it creates, a late
  client, a retry or another job may empty or half fill a target after the job that
  filled it was reported as completed (`tail` of `CompletedIsWhole`).
- A retried import inserts the batches of the failed attempt again; `options.truncate`
  is accepted and never used.
- MySQL's `ensureDatabase` connects to the database that it is to create.
- The adapters write into a client's stdin without listening to its errors, which
  ends the worker like an unhandled rejection.

Schedules, retention, audit:

- Any text passes for a pattern (schedules.routes.ts:17,47). POST and PATCH of an invalid one
  write the row and then answer 500, because `add` throws: an enabled schedule that never
  fires, and at which every later boot of the scheduler ends, perhaps before it has
  registered the others.
- A boot registers the pattern it read, also when a request has replaced it since.
- Two PATCH requests of one schedule may leave two repeatables, which
  scheduleManager.ts:18 says cannot be.
- The boot registers what is missing and never removes what no row asks for: the
  repeatable of a schedule that went with its server stays (its trigger then
  finds no row and does nothing).
- SQL exports of single tables count as backups of the database in
  `enforceRetention` and displace them.
- Two racing calls of `audit` fork the chain; entries of one millisecond may come to the
  verification in any order; jsonb does not keep the order of
  `meta`'s keys, which `canonical` hashes; `actorEmail` and `ip` are not hashed.

Progress:

- A terminal event published between the handler's read of the row and its
  subscription is never sent: the stream stays open, heartbeats keep it alive and
  the page stays on "running". `FollowedIsShown` begins at the subscription.
- The page takes the failure of an attempt for the end of the job and closes its
  stream, also when a retry follows; and a first fetch that is answered last sets
  the view back to what it was before the job ended, for good.

Servers, accounts, console:

- PATCH of a server updates the row and the credential by two calls: what stops
  between them pairs the new host with the old password, and who reads the row before the
  first and the credential after the second pairs the old host with the new password.
- The form of a server sends all its fields as they were when it was opened, and takes
  back what another console has changed since.
- The routes of the connection test and of the list of databases decrypt the
  password in the API's process (README.md:97 and ARCHITECTURE.md:173 say only the
  worker does); `key_version` (ARCHITECTURE.md:172) is stored and never read.
- The form of a server offers username, engine and database for editing, PATCH
  ignores them and the console reports "Server updated".
- Two administrators who delete each other both succeed, and one may disable the own
  account: nobody is left who may manage users.
- A refresh that is answered after a logout signs the tab in again; a late answer of
  `/auth/me` shows the former user; a refresh that fails leaves the query cache to
  the next one who logs in.
- `UserModal` sends no password, which POST /users requires; `BackupModal` offers
  the formats custom and dump, and the form of a server the SSL modes verify-ca and
  verify-full, which the API refuses; `/servers/:id/databases` answers with `data`
  while its hook reads `databases`; `apiError` returns an object, not a text, for
  bodies with a structured error.

## 7. Not modelled

- The pages of the console but for those of servers and schedules and the view of a job: they render
  what the modelled hooks return and keep no state that outlives them. Some modals they
  import (`pages/backups/*`) are not in the repository. The other query hooks repeat
  the pattern of the servers' list (fetch, invalidate, fetch again).
- HTTP plumbing, configuration, logging, the seeds: wiring with no state of its own.
- `src/lib/storage` is not in the repository; `put`, `get` and `delete` are modelled
  from their callers, each replacing or removing the object of one key.
- AES-GCM, SHA-256, bcrypt, the signature of tokens: taken for
  functions that do what they promise; the proofs about the chain name what they
  assume of the hash.
- mysqldump, pg_dump, mysql and psql beyond the order of their statements and how they
  may end; the parsing of CSV and
  JSON lines; quoting.
- E-mail (every caller of `notifyUser` passes `inapp`); `cancelled`, a status that
  nothing writes.
- Another master key: nothing re-encrypts, so a new one opens no envelope.
- BullMQ beyond what is said in section 2: times, removal of settled jobs, priorities.
- The trigger's second job of one firing (section 5).

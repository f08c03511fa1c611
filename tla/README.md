# LogSentinel: TLA+ models, checks and proofs

This directory models the parts of LogSentinel's backend (`src/backend/app`) whose
correctness depends on the order of steps of several tasks, processes and servers.
`PROJECT.json` lists the components, the TLC runs, the mutants that show each
property can fail, the source lines behind each definition, the hazards and the
theorems.

## The system

Logs enter over HTTP, pass a Valkey stream, are parsed and committed to PostgreSQL,
and feed feature windows, anomaly detection, incidents, webhook alerts and an
archive.

| Part | State | Operations | Talks to |
|---|---|---|---|
| Ingest endpoints (`routers/ingest*.py`, `otel_receiver.py`) | none | XADD one entry per accepted payload | `logs:stream` |
| DrainWorker (`workers/drain_worker.py`) | consumer group and PEL, retry counters (Valkey, memory), DLQ stream | XREADGROUP loop, XAUTOCLAIM loop, ack, retry, dead-letter, trim, stop | batch manager, callbacks |
| ParsedLogBatchManager (`services/batch_manager.py`) | buffer, flush lock | persist_batch, periodic and shutdown flush, restore | LogRepository |
| LogRepository (`repositories/log_repository.py`) | `logs`, raw ledger, `pipeline_outbox` | one acceptance transaction | PostgreSQL |
| DurableQueue (`services/durable_queue.py`) | `pipeline_outbox` rows, leases | enqueue, claim, handle, complete, retry, bury | FeatureWorker handlers |
| WebhookDeliveryWorker (`services/webhook_delivery.py`), alerts (`services/alerting.py`) | the webhook topic of the same table | coalescing enqueue, claim, HTTP call, guarded update | destinations |
| EmailDeliveryWorker (`services/email_outbox.py`) | `email_outbox` rows, leases | enqueue, claim, SMTP call, update by key | SMTP server |
| Feature worker, sliding windows | window buffers, feature tables | contribute, extract, register, reconcile | DurableQueue, EventManager |
| Event manager, incident tracking | incidents, alert rows | correlate, track | alert enqueue |
| Archive worker, rehydration (`archive/`) | `archive_manifest`, chunks, objects; rehydration sessions, staging tables | claim, export, verify, drop; admit, stage, mark ready, clean up | TimescaleDB, S3 |
| Sessions and password reset (`services/sessions.py`, `password_reset.py`) | users row, sessions, refresh tokens, reset capabilities, their row locks | sign in, refresh, log out, forgot, reset | email outbox |
| Registration (`routers/auth_router.py`, `services/auth_cache.py`) | users row, verification code, cooldown, hourly window | register, resend, verify, delete unverified accounts | Valkey, email outbox |
| Retention planner, model registry, telemetry, supervision | plans, versions, queues | plan, promote, broadcast, restart | |

Hard behaviours: two loops, a flush task and several processes work on the same
stream entry; every Valkey and PostgreSQL call may fail before or after the server
executed it; processes crash, are cancelled or restarted between any two awaits;
leases pass while their holder still works; mails and webhooks leave outside any
transaction. What makes each part correct is listed under "hazards" in
`PROJECT.json`, with the properties that cover it or the module planned for it.

## Modules

### DrainStream (with StreamDelivery, DrainStreamProofs)

`DrainStream` models one or more worker processes. Each has three tasks, pairs
`<<worker, role>>`: `run` (XREADGROUP loop), `recover` (XAUTOCLAIM loop) and `flush`
(periodic flush of the batch manager). `pc` is the await a task stands at:

| `pc` | Code | Actions out of it |
|---|---|---|
| `idle` | waiting for a delivery | `Read`, `Claim`, `Flush` |
| `next` | next entry of the delivery | `Begin`, `Finish` (with the XTRIM of the run loop) |
| `persist` | waiting for `_flush_lock` | `Persist` |
| `sink` | in `_invoke_sink`, lock held | `SinkCommit`, `SinkFail` |
| `activate` | after the commit, before the callbacks | `Activate` |
| `ack`, `ackDlq` | XACK after success, after the dead-letter copy | `Ack` |
| `clear` | `_clear_retry_count` | `Clear` |
| `count` | `_increment_retry_count` | `Count` |
| `route` | `_forward_to_dlq` | `Route` |

`Ingest` is an accepted payload, `GrowIdle` the passing of the reclaim time,
`Crash` the death of a process, `Stop` and `Exit` the two halves of `stop()`. A
failing call uses up one of `MaxFaults`, a crash or a stop one of `MaxCrashes`;
with `LostReplies` a call may also fail after the server executed it. Entries are
numbers in stream-id order, `EventsOf[m]` is what an entry carries (`{}` when it
cannot be parsed), and parsing, envelopes and payload formats are abstracted to it.
The acceptance transaction is the operator `Accept`: only events the ledger newly
claims get a row, every event of the batch is registered in the outbox.
Process-local batching order, metrics and telemetry are left out.

`StreamDelivery` is the promise to a client of the stream: an accepted entry is
delivered any number of times and released only when all it carries is committed and
registered, or it is quarantined, or the length cap evicted it. `Contract` in
`DrainStream` is the refinement mapping.

### OutboxTable, OutboxQueue, WebhookOutbox (with LeasedDelivery and proofs)

`OutboxTable` holds the variables of a `pipeline_outbox` row and of a worker's claim
and the statements run on them: the upsert that refreshes only waiting rows, the
`FOR UPDATE SKIP LOCKED` claim, the updates guarded by `locked_by`. Time is two
facts about a row: `due` (available_at has passed) and `expired` (the lease has).
`payload` numbers the enqueue whose content the row stores, so that a stale or
cleared payload is visible. A worker goes on with the row as its claim read it
(`held`, `seen`, `body`).

`OutboxQueue` is `DurableQueue.process_one`: claim; then handler writes (in a
savepoint) and the guarded update in one transaction (`Complete`, `Fail`), or a
rollback of it by cancellation, crash or a failing statement (`Abort`). `LoseClaim`
is a claim that committed and whose reply was lost. Handlers are external to the
queue; their writes are the set `handled`.

`WebhookOutbox` is `WebhookDeliveryWorker`: claim, the HTTP call outside any
transaction, then the guarded update, as steps of their own (`stage`). Replies may be
lost, an acknowledgement that fails takes the path of a failed delivery, and an
exception out of the claim or of the failure update ends the task of `run()`. Only a
supervised process (`cli/worker.py`) gets it back (`Restart`, the constant
`Supervised`). Run by the API's lifespan, the default outside production, one failing
statement ends delivery until the API restarts, although `architecture.md` says that
delivery "does not depend on an in-memory task"; the runs and the liveness property
are about the supervised worker.

`LeasedDelivery` is the promise of a durable queue: a delivery ends once, as done
only with its latest accepted content performed; effects are at least once. Both
consumers of `pipeline_outbox` are checked against it.

### EmailOutbox (with VerificationMailProofs)

`EmailDeliveryWorker` on its own table: the attempt is counted at the claim, the
mail is sent by a thread, and the outcome is written by primary key without looking
at `locked_by`, although the outbox calls itself "lease-aware". So a stale worker may
reopen a concluded mail, also a delivered one, and two workers overlap during every
rolling update (`maxSurge: 1`). What it writes is still true of the mail, and the
reopening ends: that is what the run shows.

The elements of `Unsupported` are rows whose kind `process_one` does not know. No
caller in the repository enqueues one, but nothing in the table forbids it, and during
a rolling update a newer release may. Nothing is sent for them (`Refuse`) and the first
claim gives them up (`GivesUp`); FailedMeansExhausted is about all other mails.

`Purge` is the cascade of `users.id`: an account that is deleted takes its rows along,
also one that a worker holds between its two transactions. The update of that worker
then matches no row and raises (`RecordNothing`); `run()` has no handler, so its task,
and with it the process, ends (`EndTask`) and has to be restarted before the other
mails go on.

### ArchiveLifecycle (with proofs)

`ArchiveLifecycle` is `ArchiveWorker`. An element of `Archives` is an owner with rows
in one chunk, and so the manifest to be created for them; `ChunkOf` is its
`source_chunk_ids`. A worker (`job`, `pc`) does one transition per lease:

| `pc` | Code | Actions out of it |
|---|---|---|
| `idle` | next turn of `_loop` | `CreateManifests`, `Take` |
| `mark` | HOT to EXPORTING | `MarkExporting` |
| `export`, `put`, `record` | read the rows, upload, update to STORED | `ReadRows`, `Put`, `RecordStored` |
| `verify`, `valid`, `invalid` | read the object back, write the verdict | `Verify`, `RecordVerdict` |
| `check`, `drop` | other manifests of the chunk, drop of the chunk and HOT_DELETED | `CheckChunk`, `Drop` |
| `error` | the `except` of `_step_process_state_machine` | `ReleaseOnError` |

`Age` and `Lapse` are the passing of the retention period and of a lease, `Damage`
a lost or damaged object. The actions that end in `Fails` are a statement or upload
that raises, with or without effect; `Abandon` is a release that raises too, or a
stopped process. Choices of the model:

- No row enters a chunk that has aged: `ingested_at` is the time of acceptance, no
  producer sets it, and a chunk ages after days.
- No statement compares `lease_owner`, so a lease is a boolean. A transition that
  succeeds leaves it set, as the code does: the next one waits for `Lapse`.
- Manifests of one transaction share `created_at`, and transactions are ordered by
  the number of aged chunks. `SKIP LOCKED` lets a worker pass over an older row
  only while a late holder may be updating it (`Held`).
- What an object holds is `none`, `rows`, `empty` or `damaged`; parquet, checksum
  and sidecar formats are abstracted to it. An export reads the same rows each time,
  so that a repeated upload finds its own object.
- `drop_chunks` is external: it drops an existing chunk and raises on a missing one.

The history variables are `verified` (archives the verifier found valid) and
`exposed` (manifests whose lease ended under a worker that goes on).

### FeatureWindows (with proofs)

`FeatureWindows` is `FeatureExtractionWorker` with the extractor of one owner and the
tables behind them. `contribution`, `inputs`, `status` and `logs`, `features` and
`incidents` are the tables; `memory` is the extractor (how often the buffer holds a
log, its dedup ids, the first log of the buffer, the cursor `_last_window_end`). `pc`
is what the worker awaits:

| `pc` | Code | Actions out of it |
|---|---|---|
| `idle` | next turn of `run` | `Contribute`, `Claim`, `Extract` (reconcile, prune, peek; commit when no window closed) |
| `register` | `register_feature_work`, windows peeked | `Register` (and then the commit of the cursor) |
| `handle` | `_handle_feature_window` | `Handle` |

`Accept` is the stream's acceptance transaction, `Callback` the stream consumer's
`on_log_parsed`, which may run at any await of the worker. Choices of the model:

- One process: `docs/operations/monitoring.md` keeps the pipeline at one replica
  "while feature windows are process-local". A restart (`Crash`, also `stop()`)
  loses memory, callbacks and the position.
- A log is its timestamp; its features, the detector and the payload are abstracted
  to how often a window counts it and to whether a window with it is anomalous
  (`Errors`). `SlidingWindowFeatureExtractor` has no service filter here.
- A turn handles at most 100 contributions and retries wait, so a window may be
  peeked while contributions wait: `Extract` does not ask for them.
- The reading of the inputs, their pruning and the peek are one step: only the
  callback runs between them, and it commutes with the reading.
- Leases, attempts and backoff of the two topics are those of `OutboxQueue`: here a
  row waits, is processed, is completed or has failed for good.

Two behaviours of the model no property excludes. A window generated again after a
crash, before all contributions were handled, lacks the logs the callback had brought,
and its registration replaces the payload of a row that still waits, although a
comment says that "repeating this block is safe after a crash". And without a cursor
windows are aligned to the first log in the buffer: an older one that arrives later
is counted by none.

### Rehydration (with proofs)

`Rehydration` is `POST /query` and the clean-up of expired sessions by the archive
workers. Each step is a transaction of its own, and every update of a session goes by
its table name without looking at the status it replaces.

| `pc` of a request | Code | Actions out of it |
|---|---|---|
| `idle` | admission under the advisory lock | `Join`, `Refuse`, `Admit` |
| `authorize`, `create`, `download` | mark, create the staging table, mark | `Authorize`, `CreateTable`, `Download` |
| `fetch`, `insert` | per archive: read the object, mark STAGING, insert its rows | `Fetch`, `Insert` |
| `ready` | READY with a new expiry | `Ready` |
| `fail`, `drop`, `delete` | `_cleanup_failed_session` | `FailMark`, `FailDrop`, `FailDelete` |

`Does` gives every step its three outcomes: done, raised after it was done, raised
without effect. `Die` is the death of a process or the cancellation of a request. A
cleaner selects expired sessions (`Select`) and takes them one by one (`CleanExpire`,
`CleanDrop`, `CleanDelete`); several run at a time. Choices of the model:

- `want`, the archives found STORED or VERIFIED, is free at admission; what an object
  holds is `ArchiveLifecycle`. An archive that is HOT_DELETED is not found any more.
- The unique index on the request key outlives the session: a request whose key has a
  row that has expired or was deleted is refused (`Refused`).
- The time to live of a session (an hour) and the timeout of a request (five minutes)
  are settings that nothing relates. A session that expires under its running request
  may become READY on a dropped table. Such sessions are in the model (`overtaken`, at
  most `MaxStalls`) and excepted by the properties.

### AccountSessions (with proofs)

`AccountSessions` is the browser sessions and the password reset of one account.
Each request is a transaction (`pc`), with the row locks it `holds` until it commits:

| `pc` | Code | Actions out of it |
|---|---|---|
| `idle` | next request | `Login`, `Refresh`, `Logout`, `Forgot`, `ClaimReset`, `RefuseOverdue` |
| `verify`, `create` | hash upgraded, session and first token | `Upgrade`, `CreateSession` |
| `session`, `user`, `rotate`, `refuse` | `rotate_refresh_token`: token, session, account locked in this order | `LockSession`, `LockUser`, `Rotate`, `Refuse` |
| `account`, `hash`, `tokens` | `complete_password_reset`: account locked, others invalidated, sessions and tokens revoked | `LockAccount`, `Invalidate`, `RevokeSessions`, `RevokeTokens` |
| `recheck`, `commit` | second look at the clock, commit | `Recheck`, `CommitReset` |

A refresh and a reset take the rows in different orders: `Victim` is PostgreSQL ending
a deadlock, `Abort` any other rollback. Sessions, capabilities and the account may
expire or be suspended at any time. The history is `cut` (the sessions a reset
found), `late` (capabilities that ran out before the last look) and `applied`.
Choices of the model:

- A new session takes the share lock of its foreign key on the account's row, so it
  waits for a reset that has written it.
- Reads without a lock see what is committed: `Upgrade` writes the hash of the password
  it checked, also when a reset committed in between, so the former password is back.
  No document says what a sign-in may overwrite, and no property here excludes it.
- Hashing is the time between two steps; token formats are abstracted to identity.

### Registration (with VerificationMailProofs)

`Registration` is one address: its accounts, its keys in Valkey and the mails in the
outbox.

| Request | Steps |
|---|---|
| register, account unverified | `Renew` (cooldown and row lock), `Rehash`, then as below |
| register, no account | `Register`, `Create` or `Conflict`; `Store`, `Record`, `Mail`; on failure `Undo`, `FreeCooldown` |
| resend | `Resend`, `Reserve`, `Store`, `Mail` |
| verify | `Accept` or `Reject` (one script), `Activate`, `Write` |
| hourly deletion | `Collect`, `Delete` |

`SignUp` is an account created by a provider, which is active at once. `ExpireCode`,
`ExpireCooldown`, `Slide` and `Age` are the passing of time. Choices of the model:

- A code can be submitted once its mail is in the outbox (in `VerificationMail`: once
  it was sent); any other is a wrong one.
- Registering records a mail in the hourly window but does not ask it, and a request
  that loses the insert (`Conflict`) frees the cooldown of the one that won.
- `DELETE … WHERE id IN (SELECT …)` waits for a row that is being verified and then
  compares only its id. So an account that has just been verified may be deleted,
  although the method is said to "Delete unverified users"; no property excludes it.

### VerificationMail (with VerificationMailProofs)

`VerificationMail` is `Registration` and `EmailOutbox` as one system: the codes of the
one are the mails of the other. Where they meet, a step is a step of both:

| Step | In Registration | In EmailOutbox |
|---|---|---|
| `Enqueuing` | `Mail` | `Enqueue` of its code, in the same transaction; nothing when the foreign key fails |
| `Removing` | `Delete` | `Purge` of the account's mails, in the same statement |
| `Accepting` | `Accept` of a code whose mail was sent | none |
| `Apart` | any other step | none |
| `Delivering` | none | a step of `Deliver`: a worker, a lease, a retry delay |

So the code that verifies an account is one that left the system in a mail, and what
`Registration` assumes of the outbox (its history `mailed`) is what the workers find.
Every behaviour of the system is one of both parts (`Composition`), so that the safety
proved of each part holds of the whole. Mails about passwords share
the worker and the table, not the keys of an address, and are `EmailOutbox`'s.

## Runs

`expect: pass`:

| Run | Shows | Bounds |
|---|---|---|
| shared | no silent ack, unique rows and activations, memory never the only copy, contract | 2 entries sharing an event, one event already in the ledger, 2 sink attempts, 2 failures with lost replies, 1 crash or stop |
| liveness | every pending entry settles, every accepted one is accounted for, nothing is quarantined before `MaxRetries` failures although the counter moves between Valkey and memory | a good and an unparseable entry, 1 failure with or without a lost reply, 1 crash |
| queue | completed means handled, attempts are real failures, contract, every delivery concluded | 2 workers, 2 deliveries offered twice, limit 2, 1 lost lease, 1 fault |
| webhook | delivered means received, failed means refused or exhausted, contract, every alert concluded | 2 workers, an alert offered twice, limit 2, 2 lost leases, 2 faults |
| email | delivered means sent, failed means exhausted unless the kind is unsupported, every mail concluded for good or gone with its account | 2 workers, 1 mail and 1 of an unsupported kind, deleted at any time, limit 2, 1 lost lease, 1 fault |
| features | no window is consumed unregistered or counts a log twice, completed windows are persisted as registered, registered windows are persisted or fail for good | 2 logs in 2 overlapping windows, the clock passes the horizon of 3 windows, 1 fault, 1 crash |
| archive | a chunk is dropped only when all its archives were verified, late uploads replace nothing, an offered manifest has its object, manifests go back only after a lease was lost | 2 workers, 2 owners of one chunk, 1 whose export is too large, 1 lease lost under its holder, 2 faults |
| rehydration | a READY session has its rows, no table outlives its session, a clean-up is not undone by its request, every session frees its place | 3 requests, 2 of them alike, 1 place, 1 archive each, 1 cleaner, 1 overtaken session, 1 fault |
| sessions | a reset ends every session it found, a session has one usable token, a capability is applied once and in time, what was revoked stays over, every request is answered | 2 requests at a time, 2 sessions, 3 tokens, 2 capabilities, 1 fault |
| registration | the password of a verified account is settled, a mailed code has its account, no code is tried too often | 2 requests at a time, 2 accounts, 3 codes, 1 try, 1 mail an hour, 1 fault |
| verification | an account with a password is verified only through a mail that carried a code of its own | 2 requests at a time, 2 accounts, 2 codes, 1 delivery worker, limits 1, no fault |

The bounds let the interesting cases happen: an entry is delivered again while the
first delivery is under way, a batch is committed without its reply, restored,
flushed and redelivered, the counter of an entry moves between Valkey and memory, a
stale worker finishes before and after the one that took over, a retry follows a
takeover, a late export reads after the drop of its chunk, two requests present one
token, a refresh and a reset wait for each other, a registration takes over an account
that is being verified, an account is deleted while its mail is being sent. `VerificationMail`
is checked for the races of its requests; the failures of both parts are in their own
runs, and its theorems have both. Two of each (entries, workers, requests, failures) is what a
race of this code needs; the theorems cover the rest: several worker processes of
`DrainStream`, two cleaners of `Rehydration`. The type invariants are not checked by the runs but proved, where there are
proofs. Deadlock is not checked: with every entry settled and every bound used up the
modelled system is at rest.

`expect: violation`, a disagreement between the code and its own words:

- `flush_race`: `persist_batch` is said to avoid "a second time-based flush race";
  a batch whose attempts failed is restored into the shared buffer, the timed flush
  inserts its rows without per-event results, and the redelivery finds a replay, so
  the events' callbacks never run.

## Fairness

`Fairness` is weak fairness of each task of a live process (asyncio runs ready
tasks; calls end by timeouts), of the passing of time (`GrowIdle`, `Wait`, `Lapse`),
of `Exit` after `Stop`, and, where `cli/worker.py` supervises the process, of
`Restart`. In `FeatureWindows` the worker's task goes on (`Register`, `Handle`) and
comes back to its queue between extractions (strong fairness of the claim: `run`
drains the queue before and after each). In `Rehydration` some request goes on, some
session whose request is over expires, and some worker cleans. In `AccountSessions`
each request goes on (strong fairness: row locks are granted in the order of arrival)
and a deadlock is detected (`Victim`). `Registration` and `VerificationMail` state no liveness
and assume none. Nothing forces producers, failures or crashes, and failures and crashes are
finite in a behaviour, as the liveness properties would be false otherwise.

## Proofs

For any number of workers, entries, events or deliveries and any limits, under the
named assumptions on the constants only:

- `DrainStreamProofs`: `TypeCorrect`, `AckSafety` (NoSilentAck), `MemorySafety`
  (MemoryNeverSoleCopy), `QuarantineSafety` (QuarantineNeedsFailures), `RowsUnique`
  (RawRowOnce), `ActivationSafety` (ActivatedAtMostOnce), and `Refinement`: the
  consumer implements `StreamDelivery`.
  - NoSilentAck is not inductive: a task may be about to acknowledge. `AckInv` adds
    what the position of each task says about its entry (`TaskInv`: at `ack` its
    events are durable, at `ackDlq` a copy exists, at `sink` the batch is the entry's)
    and that only delivered entries are pending (`DeliveryInv`).
  - MemoryNeverSoleCopy asks where else an event in memory exists. `MemoryInv` says
    where it came from: what a buffer or a sink call holds was read from a delivered
    entry (`From`), through restores and flushes too, and `AckInv` then says what became
    of an entry that is no longer pending.
  - QuarantineNeedsFailures compares a counter that moves between Valkey and the
    memory of several processes with the failures there really were. `CountInv`
    bounds, per entry, each of these counters plus the increments that are under way
    by the failures, so that moving, losing or clearing a counter never invents one.
  - ActivatedAtMostOnce needs `ActivationInv`: an event that waits for its callbacks
    is committed, not yet activated, and waits in one task only.
  - `Refinement` takes one lemma per kind of step of the contract: a commit secures
    events (`CommitSecures`), an XACK releases a secured entry (`Releasing`), a read
    delivers (`ReadDelivers`), an XTRIM evicts (`Evicting`), and whatever changes
    nothing the mapping reads is a stutter (`ViewSame`).
- `OutboxQueueProofs` and `WebhookOutboxProofs` begin with the same lemmas on the
  statements of `OutboxTable`: each preserves the shape of a row and `LeaseInv`: a row
  is leased exactly while processing, and a worker that owns its claim holds the
  attempts and the payload the row still has. That is what the guard `locked_by`
  buys, and what both proofs rest on.
- `OutboxQueueProofs`: `QueueSafety`, with its parts `CompletionSafety`
  (CompletedMeansHandled) and `AttemptSafety` (AttemptsWithinLimit),
  `AttemptsMonotone` (AttemptsNeverDrop), and `Refinement`: DurableQueue implements
  `LeasedDelivery`.
- `WebhookOutboxProofs`: `WebhookSafety`, with its parts `ReceiptSafety`
  (DeliveredMeansReceived) and `RefusalSafety` (FailedMeansRefused), `HolderSafety`
  (OnlyHolderConcludes) and `Refinement`: the webhook worker implements
  `LeasedDelivery` too. Its properties relate a row to what happened outside the
  database, so the invariant adds `HistoryInv`: what each stage of a worker proves
  about the destination (`Evidence`: at `sent` the claimed payload was received, at
  `rejected` the delivery was refused, and the next attempt to be written was
  raised as a failure), and that no row counts more attempts than failures.
- `ArchiveLifecycleProofs`: `ArchiveSafety`, with its parts `DropSafety`
  (DroppedMeansVerified), `RowsSafety` (RowsSurvive) and `StoredSafety`
  (StoredMeansObject). The drop rule looks at statuses that anyone may move back, so
  it does not carry itself. What carries it is that `VERIFIED` is only ever written
  for an archive found valid (`VerifiedInv`), that owners of a chunk are listed
  together (`ListedTogether`), so that no manifest the check cannot see is missing,
  and what the position of a worker says (`Position`: at `drop` every archive of the
  chunk was verified). `LeaseSafety` (`HolderInv`) adds that a worker whose lease did
  not end is alone with its manifest and finds the status it took it with; it gives
  `HolderSafety` (SoleHolder) and `NoRegress` (NoRegressUnlessExposed).

- `FeatureWindowsProofs`: `TypeCorrect`, `ConsumptionSafety`
  (RegisteredBeforeConsumed), `CountSafety` (NoDoubleCount), `PersistenceSafety`
  (CompletedMeansPersisted), `RecoverySafety` (InputsRecoverable), for any logs,
  timestamps and window shapes. The core is what add, peek and commit do to a memory
  (`AddLogsTyped`, `PeekTyped`, `CommitTyped`): the dedup ids are those of the buffer,
  so a log is in it once (`CountedOnce`), and the first log is known while windows are
  aligned to it. `HandlerInv` adds that nothing is persisted of a window before it is
  completed, which the single transaction of the handler buys.

- `RehydrationProofs`: `TypeCorrect`, `SessionSafety`, with its parts `ReadySafety`
  (ReadyMeansStaged) and `OrphanSafety` (NoOrphanTable), and `CleanupIsFinal`
  (NoResurrection), for any number of requests and cleaners. Updates that look at no
  status are right only because of who can be where: `Position` says what the session
  and the table of a request are at each of its steps, and `Selected` that a cleaner
  holds only sessions whose request is over or cleans up too, or that were overtaken.
- `AccountSessionsProofs`: `TypeCorrect`, `AccountSafety`, with its parts `CutSafety`
  (ResetCutsSessions), `RotationSafety` (OneUsableToken) and `ResetSafety`
  (AppliedInTime), and `RevocationSafety` (RevokedIsOver). What was read under a lock is
  used some steps later, and `LockInv` is why it is still true: no two transactions
  hold a row, and the rows a transaction read, given its position, are among those it
  holds.
- `VerificationMailProofs`, about Registration: `TypeCorrect`, `RegistrationSafety`,
  with its parts `MailSafety` (MailedMeansAccount) and `AttemptSafety`
  (AttemptsBounded), and `PasswordSafety` (PasswordSettled), for any number of calls, accounts and codes. `Placed` says what
  the position of a call says of its account; in particular the holder of the row lock
  stands before `Rehash` and its account is pending, which is all that PasswordSettled
  needs. `Alone`: a row that is not committed is the business of one call, so nobody
  else stores or mails a code for it. `CodeInv`: a code belongs to one account,
  whichever call generated it, and the stored one has counted its own submissions.
- `VerificationMailProofs`, about EmailOutbox: `OutboxSafety`, with its parts
  `DeliverySafety` (DeliveredMeansSent) and `GiveUpSafety` (FailedMeansExhausted), for
  any number of workers, mails of supported and other kinds, and deletions. No guard protects the last write of a
  worker, so nothing about its lease helps. `TaskInv` is what stays true of its copy
  although others write the row: at `sent` its mail was sent, and the attempts it read
  at its claim never exceed those of the row, as these only grow.
- `VerificationMailProofs`, about both: `Composition` (the system implements
  Registration and EmailOutbox) and `SystemSafety`, with its parts `VerificationSafety`
  (VerifiedMeansSent), `ReferenceSafety` (MailsHaveAccounts) and `SentSafety`
  (SentMeansAccount). By `Composition` the invariants of both parts are at hand.
  `OutboxInv` ties them: what the outbox holds or sent was mailed by a request, so its
  code belongs to an account. `VerifyingInv` carries VerifiedMeansSent over the steps
  between the code that is consumed and the account that is activated; it is kept
  because a code never changes its account (`CodesSettled`). For MailsHaveAccounts,
  only a deletion takes a committed account away (`AccountFrame`), and it takes the
  mails of that account with it.

Every invariant and action property of the passing runs is the statement of a theorem;
MailsHaveAccounts and SentMeansAccount are stated by theorems only.
Model-checked only: the liveness properties (the proof system has no rules for liveness
under fairness), and that the bounds do let the cases happen, which the mutants show.

## Not modelled

Limits that only bound the memory of Valkey: the length cap and the lifetime of the
dead-letter stream, and the day after which a retry counter expires (an entry that
stays pending that long is counted anew). The tenant that a registration provisions for
its account is not modelled either; `Undo` in the code deletes the account and commits,
and the tenant's row remains.

Payload and template parsing, validation, formatting, numerics of the models, HTTP
codes, metrics, heartbeats, the frontend, the SDK, and the release, migration and
backup scripts under `scripts/`: data or I/O without shared protocol state. Profiles
and the exchanges with identity providers write single rows. API keys are left out
too: the rotation of an expired key makes a valid one without asking the limit of 25
that a comment calls "race-safe", which needs no interleaving to see. The retention
planner and the promotion of models are single runs over a list, and the telemetry
broadcaster loses hints by design. `PROJECT.json` gives the reason for each component.

## Plan

Done: the stream consumer and its contract; the outboxes and theirs; the archive's
life cycle and rehydration; feature windows; the account's sessions, password reset
and registration, with the delivery of its mails as one system.

Left, in this order:

1. `IncidentTracking`, which handles the outputs of `FeatureWindows`, up to the
   coalescing alert enqueue of `WebhookOutbox`.
2. `BatchManager` (capacity of `add` against restores), `BulkIngest`, `RetentionPlans`
   as a pure algorithm against a reference definition, promotion of models, the
   telemetry broadcaster's bounded buffers.
3. Composition, as `VerificationMail` does it: stream, outbox and webhook as one
   system, from an accepted log to a received alert; manifests and rehydration as one;
   the mails of `AccountSessions` on the same outbox.
4. Proofs: that what is composed implements its parts, and what holds from end to end.

# A TLA+ development of z1mak-cv-queue

The repository is an API and a worker service that analyse CVs with an AI
provider. This directory models how a job travels through it: TLA+ modules, TLC
instances that check them, and theorems that TLAPS checks.

## 1. The system

A web process (Fastify, `src/src/server`, `src/src/routes`, with the cron service
in it) and one or more worker processes (`src/src/worker`) share a Redis
instance. BullMQ keeps two queues in it, `lite` and `hard`. Results are copied to
Postgres by a cron task.

| Component | State it keeps | Operations | Correct when |
|---|---|---|---|
| Lua scripts (`redis/luaScripts`) | slots, quotas and counters in Redis | `combinedCheckAndAcquire`, `consumeExecutionLimits`, `returnTokensAtomic`, `expireStaleJob`, `decrAndClampToZero`, each atomic | no limit is exceeded, counters never go below zero |
| Job submission (`prepareJobSubmission`, `modelSelection`, `enqueueJob`) | slot, daily quota, backlog count, job, metadata | choose a model, acquire, count, enqueue, undo | a refused or failed submission leaves nothing behind; backlog within its cap |
| BullMQ (external) | state, lock, attempts, stalls of a job; failed events | add, take, complete, fail, delay, remove, recover stalled | at most one lock per job, bounded retries |
| Worker handler (`handleJob` and what it awaits) | metadata, model tokens, result | consume limits, call the provider, finalise | calls bounded and paid for, every job settles |
| Failed-event handler (`queueEvents.ts`) | result, refund, slot, backlog | settle a finally failed job | settled exactly once, refunded at most once |
| Expiry cron (`expireStaleJobs`, `cleanupOrphanLocks`) | the same | expire jobs that waited 30 minutes, drop expired slots | never touches a job a worker has or a job that has finished |
| Cron scheduler (`cron/index.ts`, `runWithLock`) | timers, a lock key per task | run a task under its lock | one run of a task at a time |
| Result sync (`syncDbResults`) | `synced_at`, rows in Postgres | read a batch, upsert, mark | what is marked is what was written |
| Result stream and polling (`resume.ts`, `streamingLogic.ts`, `executeModel.ts`) | a Redis stream per job, SSE connections | append chunks, read from `lastEventId`, fall back to the stored result; `GET /:id/result`, `/:id/status` | a client sees each chunk of one run once, and an end; nobody is told NOT_FOUND; a status is not taken back |
| Worker process (`worker/index.ts`, `concurrencyManager`, `configSubscription`, `preflight`) | two BullMQ workers and their concurrency | start, refresh, close and recreate, subscribe, shut down | no worker runs too many jobs, the newest configuration is applied, a shutdown cuts no job off |
| Model limits (`reloadModelLimits`, `modelSelector`, `queueUtils`, the admin route) | `model:ids`, `model:<id>:limits` | reload from Postgres, resolve a chain, cap the backlog | a chosen model keeps its limits; Redis catches up with the table |
| User limits (`limitsCache`, `userLimitsPreloader`) | `user:*:limits` | preload at boot, fill on demand, defaults on an error | a submission is held to the user's limits; the cache catches up with the row |
| Provider (`ai/`) | - | call the model, normalise and classify errors | an error is retried exactly when it is temporary |
| Authentication, health, database and Redis clients, process shutdown of the web server | - | - | handlers run by priority |

What makes it hard: every `await` is a place where another request, worker,
handler or the cron runs; a slot, a unit of quota, a backlog count and model
tokens are taken by one actor and given back by another, on four different
paths (success, final failure, expiry, refusal); BullMQ retries a job, hands a
stalled one to a second worker, and broadcasts a failed event to every process;
a process may die between any two commands; jobs cross the SLA, the TTL of
their slot and midnight while they wait. `PROJECT.json` lists each of these
hazards at its line.

## 2. The modules

Three groups, which meet in what they abstract from each other. In the job pipeline
each module EXTENDS the one above it and adds the actions of one component:

| Module | Models | How |
|---|---|---|
| `LimitScripts` | the verdicts of the Lua scripts | pure operators; a limit of 0 means unlimited |
| `PipelineState` | Redis, and where each actor stands | the CONSTANTS and their assumptions, all variables, the effects shared by several components (`ReleaseSlot`, `LeaveWaiting`, `ReturnTokens`) |
| `BullQueue` | BullMQ as the repository uses it (external) | `bull[j]` = state, lock holder, attempts, stalls; `events[p]` = failed events process `p` has still to handle |
| `Submission` | `POST /resume/analyze` | `sub[j].pc` is the await the handler stands at; the two promises of `enqueueJob` are independent |
| `WorkerPipeline` | `handleJob` | `wpc[p][j]` is the await the handler of job `j` in process `p` stands at |
| `FailedEvents` | `queueEvents.ts`, and life and death of a worker process | `hpc[p][j]`, and `hsnap[p][j]`, what the handler decided on from the metadata it read |
| `StaleExpiry` | `expireStaleJobs`, `cleanupOrphanLocks` | `cron`: snapshot of the queue, job at hand, refund decision |
| `JobSystem` | the composition, time, fairness, properties | |
| `SlotLease` | what `max_concurrency` promises (abstract) | a semaphore per user whose units are leases: taken below the limit and once, given back when the job is settled, later, or when the lease lapses; `JobSystem` is shown to implement it (`Lease`) |
| `MCJobSystem` | definitions for the TLC instances | |
| `JobSystemProofs`, `PipelineProofs`, `ExclusionProofs` | theorems | |

What happens to a result once it is there, apart from the pipeline:

| Module | Models | How |
|---|---|---|
| `WriteBehind` | what the sync promises (abstract) | outcomes are written to Redis, rows catch up, a result leaves Redis once there is a row, or after a run could not read it |
| `ResultSync` | `syncDbResults` under `runWithLock` | `pc[i]` is the await the run of web instance `i` stands at, `batch[i]` what it read for the chunk at hand |
| `MCResultSync`, `ResultSyncProofs` | instance for TLC; theorems | |
| `ProviderErrors` | `normalizeGeminiError`, `isRetryableError` | pure: every error the SDK may throw, the verdict of the code, and what the documents call temporary |
| `ResultStream` | the runs of a job as its result and stream see them, `POST /:id/result-stream`, a client | `conn` is the await the handler stands at, `log` all entries ever added to the stream; uses the actions of `WriteBehind` for the result and its row, and the failures of `ProviderErrors` |
| `ResultReads` | `GET /:id/result` and `/:id/status` beside the stream | `poll` is the lookup the handler stands at, `answer` the last status given |
| `MCResultStream`, `ResultStreamProofs` | instance for TLC; theorems | |

The processes, and the configuration they work from:

| Module | Models | How |
|---|---|---|
| `WorkerProcess` | a worker process from boot to exit, `refreshConcurrency`, `config:update`, `POST /admin/worker-concurrency` | a record per process: how far `start()` is, what the refresh is doing, each BullMQ worker with its concurrency and the number of jobs it runs |
| `MCWorkerProcess`, `WorkerProcessProofs` | instances for TLC; theorems | |
| `ModelCatalog` | `reloadModelLimits` by the cron and by `POST /admin/update-models-limits`, `resolveModelChain`, `computeMaxQueueLength`, `waitForModelLimits` | `reload[c]` is the command of the pipeline that reloader `c` is at, `pick` a submission that chooses its model, `worker` a preflight |
| `UserLimits` | `getCachedUserLimits`, `syncUserLimitsFromDB`, the boot of the web process | `cache` is the hash with the strings it holds, `ask` the await a submission stands at |
| `Configuration` | the two together, fairness, properties | `part` says which half a behaviour follows |
| `MCConfiguration`, `ConfigurationProofs` | instance for TLC; theorems | |

Two modules serve the last two groups:

| Module | Models | How |
|---|---|---|
| `Ranking` | `Array.sort`, and a walk through part of a stream | a finite set in the order of a given relation: an element stands where the number of elements up to it says, without recursion |
| `RankingProofs` | what `Ranking` returns, for every finite set and total order | lemmas |

`ResultStream` rests on `ResultSync` through `WriteBehind`: the second is shown to
implement it, the first uses it in place of the cron. `JobSystem` takes the chain of models, the
limits of users and the caps of queues as constants: `Configuration` is where they come from.
Jobs only occupy a place of a worker in `WorkerProcess`; what they do there is `WorkerPipeline`.

Definitions keep the names of the source where there is one; `PROJECT.json`
"map" gives the lines each one stands for.

What is abstracted:

- Payloads, prompts, messages, timestamps, error codes. A job is a model value.
- `age[j]` is 0, 1 or 2: under the SLA, past it, past the TTL of its slot (31
  minutes against 30). Ages advance one job at a time, so more orders are
  allowed than the clock would: a run that passes covers them all.
- A Redis command, a Lua script and a MULTI are each one step: the server runs them atomically. A pipeline that
  settles a job (`finalizeSuccess.ts:14-28`, `queueEvents.ts:94-122`) is a step per key it writes, since other
  clients read in between; the EXPIRE of a key goes with its HSET. The batched read and the mark of `ResultSync`
  are one step each, under the lock.
- A failed command that is awaited by itself throws (`RedisFails`), also after it took effect (`ReplyLost`).
  `pipeline().exec()` of ioredis resolves whatever its commands answered, and nobody in the repository looks at
  their errors: the handler goes on without those effects (`FinalizeLoses`, `FailureLoses`, `ReadLoses`,
  `MarkLoses`). A listener of `queueEvents.ts` that
  rejects ends its process, since nobody catches the rejection (`ListenerRejects`).
- A provider call ends in one of three ways: an answer, a retryable error, an
  error with `retryable: false`. What a streaming run appends to the job's stream
  is in `ResultStream`, which errors are retryable in `ProviderErrors`.
- `processed_model` is `id` or `api`, because `finalizeSuccess` stores the
  provider's API name without streaming, and a later refund then hits other keys.
- The order of jobs in a queue is left out: any waiting job may be taken by any process. The
  worker's concurrency number is in `WorkerProcess`.
- A process does not take a job again while its own handler of that job runs.
- BullMQ fails a job that stalls too often at the stalled check itself.
- The slot's score and the expiry test of the script use one `now`, the time the
  submission started.
- Job metadata and results keep for 24 hours in Redis and, once synced, for five
  minutes; the model never drops them.
- `runWithLock` is assumed to let one expiry run go on at a time (`ResultSync` models it
  for the sync task, `ModelCatalog` for the reload).
- `ResultSync`: an outcome is a number, the how manyth of its job. SCAN is one step;
  a key that appears or goes while it runs is read, or found missing, later. A run
  takes less than the TTL of its lock (the interval plus ten seconds), a
  statement of a dead process does not arrive late, and a statement that fails
  is not executed (`RunFails`) or executed without an answer (`UpsertUnanswered`).
  Every job has an account of its own. The result's key expires before the
  metadata's, since it got its EXPIRE first. Ids that SCAN returns twice in one chunk
  make the statement fail, which `RunFails` covers. `unread` is history: the jobs of which a run could not read a
  key that exists.
- `ResultStream`: one job whose chunks are numbers. A pipeline that settles the job reaches Redis as a whole: no
  worker dies and no command fails between its commands, which `WorkerPipeline` and `FailedEvents` have; others look
  at the keys in between. `tries` and `stalls` are BullMQ's two counters. An event reaches the client in the step
  that sends it: a lost connection loses it by happening before. The entries of
  one XREAD are sent one by one from the stream. A stream outlives a run (15 minutes from its
  first chunk) and, of the keys of a job that is over, expires first. The job is settled
  once; its limits are the pipeline's.
- The client is that of `docs/Frontend-Streaming-Integration.md`, with one difference: it
  keeps or loses its cursor together with its buffer. The guide's own code keeps the cursor in
  `localStorage` and the buffer in a variable, and a reload of the page loses the beginning of
  the text.
- `ResultReads`: a behaviour has a client that streams or one that polls (`reader`, chosen at the
  beginning). Neither changes what is stored.
- `ProviderErrors`: an error is a status or none, a status by name or none, a network code or
  none, and whether its message says that the context is too long. A streaming run fails before
  or after any of its chunks.
- `WorkerProcess`: the two GETs of `fetchConcurrencyConfig` are one read, and one request to the
  admin route is under way at a time. The timeout of the preflight, an error that escapes `start()` and
  a crash are the action `Crash`. The flags `fresh` and `overlap` are history.
- `ModelCatalog`: the commands of a reload are steps of their own, because other clients read between
  them; a pipeline that only reads is one step. A hash with limits has an `api_name`: both are written by
  one HSET. The admin route runs one reload at a time, the cron one under its lock.
- `UserLimits`: one number stands for `hard_rpd`, `lite_rpd` and `max_concurrency`; the user is among the
  thousand newest rows, which the preloader reads.
- `ModelCatalog`: two models of equal priority keep the order SMEMBERS returned them in, as the stable sort does; that
  order is any fixed one. `ResultStream`: the text of a snapshot is the chunks of the log by their places.
- `Configuration`: models and user limits share no state. A behaviour follows one of them, so the states
  add up.
- The history variables `consumed`, `refunded`, `calls`, and in the other groups `temporary`, `taken`, `had`,
  `excused`, are read by properties only.

## 3. What TLC checks

Bounds: `MaxFaults` faults in one behaviour, of the kinds in `Environment`;
`MaxDay` days; ages up to 2. In `ResultStream` `Attempts`, `MaxStalled`, `MaxDelays`, `MaxDrops`; in `WorkerProcess`
`MaxChanges` requests, `MaxFaults`, `MaxSignals`, `Backlog` jobs per queue; in `Configuration`
`MaxTableEdits`, `MaxRowEdits`, `MaxBreaks`, `MaxFailures`. Everything else is bounded by the code
(attempts, stalls, one submission per job).

| Run | Instance | Shows |
|---|---|---|
| `lifecycle` | 3 jobs, 2 users (one unlimited), 2 queues, 3 models of which one was deleted, 1 process, all limits 1 or 2, minutes pass | `TypeOK`; `ConcurrencyWithinLimit`; `BacklogWithinCap`; `WaitingCoversBacklog`; `RefundsWithinConsumption`; `CompletedWithinModelDay`; `RestIsClean`; that `JobSystem` implements `SlotLease` |
| `faults` | 1 job, 2 processes, ages, one fault of 7 kinds | `CallsBounded`; `CallsArePaidFor` |
| `recovery` | 1 job, 2 processes, one lost lock, failed enqueue or dead request, minutes and midnight pass | `SettledHoldsNoSlot`; under fairness `QueuedJobSettles` |
| `sync` | 2 web instances, 2 jobs in chunks of one, 2 outcomes per job, one job with old metadata, 2 faults | `MarkedIsStored`; that `ResultSync` implements `WriteBehind`; under fairness `EveryResultStored` |
| `stream` | 1 job with and without streaming, 2 chunks, 2 attempts, 1 rate-limit delay, 2 lost connections; a client that streams or one that polls | `TypeOK`; `NoGapNoRepeat`; `CompletedIsWhole`; `NeverNotFound`; `RetriedAsDocumented`; `StatusNeverGoesBack`; under fairness `ToldInTheEnd` |
| `workers` | 1 process, 2 queues of 3 jobs, concurrencies 1 and 2, 2 changes, 1 crash or Redis error, 1 SIGTERM | `TypeOK`; `WithinConcurrency`; `UpToDateWhenSubscribed`; `CleanExit`; under fairness `EveryJobRuns` |
| `configuration` | 2 models with 3 possible rows, 1 edit of the table, 1 crash or broken pipeline; a user with 3 possible rows or none, 2 edits, 2 failures | `ChosenHasLimits`; `ChainIsComplete`; `BacklogWithinSla`; `UsedAreReal`; under fairness `ReloadsCatchUp`, `WorkerStarts`, `LimitsCatchUp` |

Why the bounds are enough to be interesting: with every limit at 1 or 2 each is
reached and hit by a job that must be refused, delayed or failed; two jobs of
one user compete for a slot while a third job of another user shares the model;
two processes are what a stalled job and a broadcast event need. One fault is
the limit of the runs of the pipeline, whose settling pipelines multiply the states: two faults in one behaviour, such as a
crash during the recovery from a lost lock, a worker that outruns the metadata (`metaLag`), and aging together with
a change of day, are covered by the theorems of section 4 alone (`CallsPaid` and `CallsAreBounded` under every
fault). Two instances and two chunks
let a second run start over a half-finished one, and a second outcome
arrive between any two steps of a run; two chunks and two attempts let a
connection drop within and between the runs, and a retry follow a partial answer. No worker dies in `stream`
(`MaxStalled` 0 there: a stall ends the job); the theorems of section 4 hold for every `MaxStalled`. Processes of
`WorkerProcess` share only the configuration and the backlog: one process, with a change before and one
during its start, meets every order of refresh, subscription, close and signal; three jobs
fill a worker of two and leave one waiting. Two reloaders, two models and one edit let the older snapshot be
written last, and leave a model in Redis that the table no longer has. Every disjunct of `Next`
fires in one of the passing runs, and each property is violated when the
definition it guards is replaced by a plausible bug (`PROJECT.json` "mutants").

Where the properties stop. What is said to fail was seen in TLC, except NOT_FOUND after a failed read, which would take `ResultStream` with the sync in it:

- `RefundsWithinConsumption` needs a single listening process (finding `two_listeners`). The cron refunds on the
  metadata it read: a job of the snapshot that a worker takes, fails and refunds is refunded again.
- `WaitingCoversBacklog`, and `BacklogWithinCap` with it, fails in six ways, each enough alone, because nothing
  remembers that a job has left the count. One promise of `enqueueJob` fails and the other does not: the plain
  DECR takes back a count that the queued job will take back again. A second worker process handles the same
  failed event. A worker dies after `decrAndClampToZero` and before its job is completed, or loses its
  lock: the handler of the second run leaves the backlog once more. So does the retry after the decrement took effect
  and its reply was lost. And the cron decrements for a
  job of its snapshot that has completed since. The count of one job then hides another, and one job more
  than the cap is accepted.
- `CompletedWithinModelDay` fails when an answered job runs again (a Redis error, a crash or a lost lock between
  `finalizeSuccess` and the end of the handler), fails, and is refunded; when two processes, or the
  cron on an old snapshot, give back what others took; and over midnight, since it counts the
  completed jobs of all days.
- `NeverRemovedUnderWorker` is proved, not run, and is about workers that hold their lock: a worker that
  has lost it may find its job removed.
- No property counts the answers a user gets per day, because three ways lead past the daily quota. A job that
  completes while the cron looks at its old snapshot is overwritten by `expired` and its unit given back (finding
  `stale_snapshot`): one more submission of that day is answered. A job that expires the day after its submission
  gives back a unit of the new day (`expireStaleJobs.ts:65` builds the key from today). And a worker
  that has lost its lock may answer a job whose unit the cron has given back.
- `RestIsClean` is about the normal life of jobs. Each fault alone, and a second process, leaves something behind
  in the instance of `lifecycle`: one promise of `enqueueJob` that fails (a count taken back twice, or a job that
  runs without metadata), a request that dies after INCR, a handler that is cut off and leaves the backlog twice,
  a failed command after the result, a job that waits longer than its slot or the SLA, failed events dropped with
  their process (finding `lost_event`), a job whose worker outruns its metadata, and midnight, which resets the counter
  while tokens are out. It counts the tokens that are out one by one (`Outstanding`); with `RefundsWithinConsumption`,
  of the same run, their number is what was taken less what was given back.
- `RestIsClean` is about the slots of accepted jobs: QUEUE_FULL keeps the slot until its TTL, and the unit of
  quota for the day (`prepareJobSubmission.ts:82`).
- `PaidCallIsKept` is the finding `paid_refund`: a failed Redis command is enough, and so is a crash, a lost lock, or the cron,
  which decides on the metadata before it removes the job and refunds one that a worker has answered in between.
  It is stated by the result: a call that succeeded and whose answer was never stored is refunded as well.
- Limits under ageing: `ConcurrencyWithinLimit` is checked in `lifecycle`, where slots do not
  expire, and proved with ages (section 4). It counts jobs younger than the TTL of their slot, and `SlotLease` lets a lease lapse:
  a job that is still under way after 31 minutes has lost its slot, and its user may have one job more than `max_concurrency`.
  `docs/RateLimits.md:110` says of the key "No TTL; cleared upon completion/cron".
- `ConcurrencyWithinLimit`, `SettledHoldsNoSlot` and `ImplementsSlotLease` need that no command of a settling pipeline
  fails. When the HSET of the result does and the ZREM does not, a job without an outcome has given its slot back, and BullMQ
  completes it without a result; when the ZREM fails, a completed job keeps its slot until the TTL.
- A run whose batched read fails takes what is missing for empty (`syncDbResults.ts:36-60`): both keys get five minutes, and
  the result leaves Redis without a row unless a later run stores it before. `WriteBehind` says so
  (`Drop`, `unread`), and `EveryResultStored` leaves those jobs out. `NeverNotFound` rests on `WriteBehind` without such a
  failure: after one, a client may be told NOT_FOUND of an accepted job.
- `ImplementsWriteBehind` is about jobs whose metadata is younger than 35 minutes when a run
  reads it. For an older one, a result that expires between the scan and the read leaves
  metadata alone for a moment, and the run overwrites the stored answer with `missing_result`
  (`syncDbResults.ts:60`). Jobs that never had a result, for which README.md:99 wants this branch,
  have no key that the scan finds.
- `ImplementsWriteBehind` lets a row lag behind: an outcome written over a synced one keeps its
  `synced_at` and is never copied.
- `EveryResultStored` needs that no account is deleted: one row that breaks the foreign key fails
  its chunk and ends the run, in every run until that result expires.
- `CompletedIsWhole` leaves out streaming jobs that ran twice: a retry appends to the chunks of
  the failed run, and a client that stays shows both. It needs a client that waits for `done`:
  a job without streaming that completes between two lookups is reported as
  `completed` with no content, and without `done` (`streamingLogic.ts:161`).
- A client told `failed` may be wrong: a snapshot between a failed run and its retry says `failed`
  and `done` (`streamingLogic.ts:101`).
- `NoGapNoRepeat` ends with the first stream that expires: a retry more than five minutes after the
  failed run starts a new one.
- `SettledHoldsNoSlot` is about jobs that BullMQ has completed: an answer is visible before its slot is back, and a failed
  handler that read metadata without an owner cannot release the slot. `SlotLease` leaves open when a settled job gives its
  lease back, which outcome a job gets, and whether another replaces it (finding `stale_snapshot`).
- `QueuedJobSettles` is checked with lost locks, failed enqueues and dying requests. It fails, as it must, when a
  process takes a failed event with it (finding `lost_event`, a crash or a listener that rejects), when a
  failed command leaves a completed job without a result (`finalizeSuccess.ts:28`), and when the cron dies between
  removing a job and expiring it.
- A poll may answer `completed` without data, between the result and the metadata; the polling client of
  `ResultReads` asks again for the data. Before the end the status may go from `in_progress` to `queued`, when
  a limit delays the job.
- `RetriedAsDocumented` leaves out a context that is too long under a 5xx other than 500 (`Overlong`).
  `docs/Frontend-Streaming-Retry.md:54` lists "Context Too Long" as fatal whatever the status, and the code
  retries it: `normalizeGeminiError` replaces the message of a named error, and `isRetryableError` looks at the message
  of a 500 and of an error without a status only (`GeminiProvider.ts:157-166`).
- `RetriedAsDocumented` is about the verdict. The stream tells the client `UNKNOWN_ERROR` for every normalised error,
  since the name is lost: the `code: "UNAVAILABLE"` of `docs/Frontend-Streaming-Retry.md` is never sent.
- `CleanExit` leaves out shutdowns that overlap with `start()` or a refresh: `shutdown()` closes the workers it
  finds, and one that `reloadWorker` creates afterwards is cut off by `process.exit` (README.md:
  "Finish active work").
- `ReloadsCatchUp` says nothing of the moment between DEL and SADD, when submissions find no model
  (`docs/Architecture.md:67`: "Zero Downtime Reconfiguration"), nor of the up to five minutes after a crash in
  which the dead instance's lock keeps the first reload from running.
- `LimitsCatchUp` rests on instances that stop and boot: the TTL of two days is set by the preloader only,
  and a hash that `getCachedUserLimits` writes has none (`limitsCache.ts:95`), defaults cached on an error included. An
  instance that is never without requests would not catch up.
- `UsedAreReal` lets the defaults stand in for a row that was found: when its HSET fails, the exception is caught
  with that of the query, and the defaults are cached and used (`limitsCache.ts:86-97`).
- `ChosenHasLimits` holds because no reload deletes a hash: the check for deleted models in
  `modelSelection.ts:54` waits for a state that no reload produces.
- `BacklogWithinSla` is about models with a limit per minute. The scripts read `rpm` 0 as unlimited,
  `computeMaxQueueLength` as a queue of one.

Deadlock is checked in every run of the pipeline, of the sync and of the configuration, not in `stream`,
which ends when the job is over and the client knows, and not in `workers` and `hot_reload`, which end when
every job has run and the bounds are used up. In the pipeline `Rest` is the only step once all submissions
are over and nothing is pending.

**Fairness** (`FairSpec`, run `recovery` and finding `lost_event`): weak fairness
of a submission once begun, of every await of a handler (Node runs callbacks
that are due), of handing out, promoting and recovering jobs (BullMQ's loops),
of the cron, of a restart of a dead process (the platform keeps it up), and of
the minute counter's expiry (a TTL). No fairness for submitting, for faults, for
ages or for midnight. In `sync`: timers
fire, awaits end and lock keys expire; faults are bounded, so the database comes
back. In `stream`: the job comes to an end (what `recovery` shows), the handler goes
on, the client connects again or asks again, metadata expires with its result; none for streams,
the sync or lost connections. In `workers`: a process that is up runs on, the platform restarts one that is
down, a waiting job is taken and a job ends; none for administrators, faults and signals. In `configuration`: an
instance boots and its code goes on, the timer fires, a lock expires, and, strongly, the preflight tries
again (it finds the models again and again, not at every moment) and an instance without requests is stopped
(`auto_stop_machines` in `fly.toml`); none for edits, failures, requests and the admin route.
A provider call is taken to end: the repository sets no timeout of its own and relies on the one of Node's fetch (`errorUtils.ts` treats it as
retryable).

### Findings

| Run | Property | What happens |
|---|---|---|
| `two_listeners` | `RefundsWithinConsumption` | every process refunds the same failed job (`queueEvents.ts:84`) |
| `stale_snapshot` | `CompletedIsFinal` | the cron removes a job that has completed since it was listed and writes expired over its result (`expireStaleJobs.ts:46`) |
| `lost_event` | `FinalFailureIsRecorded` | a process that shuts down drops the failed events it has not handled (`worker/index.ts:91`) |
| `hot_reload` | `HotReload` | the function given to `subscribe()` is the callback of the command; a change published later is never applied (`configSubscription.ts:15`) |
| `paid_refund` | `PaidCallIsKept` | a command fails after the answer was stored, the retry resets `provider_completed` and its own call fails: the tokens of the answered call are given back (`handleJob.ts:48`) |

`PROJECT.json` quotes the document or comment each one disagrees with.

## 4. What is proved

Every theorem is about all instances at once: any jobs, users, models, processes, queues, rows, limits and
numbers of faults. It rests on the named assumptions of the modules (`JobsAssumption`, `ModelsAssumption`,
`LimitsAssumption`, `QueueAssumption` and `BoundsAssumption` of `PipelineState`, and those of `ResultSync`, `ResultStream`,
`WorkerProcess`, `ModelCatalog` and `UserLimits`), which say what kind of value a constant is, that jobs and worker
processes are finitely many and that each queue gives at least one attempt. TLC evaluates them on every run. A theorem that needs
more says so in its ASSUME.

The invariants below were checked with TLC on the instances of section 3 before they were proved.

### The job pipeline, under every fault or every fault but failing Redis commands

- **`TypeCorrect`** (`JobSystemProofs`): `Spec => []TypeOK`. `TypeOK` is inductive as it
  stands. One lemma per component shows that its steps keep it, over lemmas on
  the shared effects (`DecrAndClamp` stays in `Nat`; an update of one field of a
  BullMQ record stays a record).
- **`ConcurrencyBounded`** (`JobSystemProofs`): `Spec => []ConcurrencyWithinLimit`, without failing Redis commands. The
  property is not inductive: it speaks of live jobs, the script counts slots. The
  invariant `SlotInv` joins the two. It says that the unexpired slots of a limited
  user number at most the limit (`HeldWithinLimit`), that a job which is in its
  queue, or may still get there, without a result, has its slot in the set
  (`UnsettledHoldsSlot`), and that a submission past selection has a model
  (`ModelChosen`). A step keeps it because the acquire script is the only one that adds
  a slot and adds it below the limit; because a handler that is to remove a slot has
  written the job's result before, and nothing takes a result away (`ResultFirst`); and because ages
  only grow, which shrinks the set counted. A failed command of a pipeline breaks `ResultFirst`, so the
  theorem is stated without failing Redis commands. Cardinalities enter through two lemmas only, `Shrink` (a
  smaller set) and `AcquireSlots` (one more element).
- **`CallsPaid`** (`PipelineProofs`): `Spec => []CallsArePaidFor`. "Called, so paid" says nothing of a handler that is
  about to call, nor of the flag that lets a retry skip the script. `NothingUnpaid` says it of
  all of them: as long as no tokens were taken for a job, its metadata has no flag, no handler has read
  one, none stands past `consumeExecutionLimits`, and there is no answer.
- **`CallsAreBounded`** (`PipelineProofs`): `Spec => []CallsBounded`. The calls of a job cannot be bounded one
  by one: a handler that lost its lock may still call after the job was given to another. `Budget`
  counts the handlers that may still call with the calls made (`Cost`), and bounds the sum by the
  attempts and stalls charged so far, and one more while the job is active. BullMQ hands out no job that has used up
  either. `AddedOnce` and `ScannedQueued` (a job is queued once, and the cron looks at queued jobs only)
  keep a job from starting over.
- **`SettledJobsHoldNoSlot`** (`PipelineProofs`): `Spec => []SettledHoldsNoSlot`, without failing Redis commands. The answer is written two
  commands before the slot goes. `ReleasedAtLast` says that a handler which may complete its job is past the ZREM
  (`PastRelease`), and that from then on, and in a completed job, the slot is gone. What remains is that nobody takes it
  afterwards. `QueuedLeaveTraces`: a job that
  BullMQ does not know has no result, handler or event, and its submission queues it only once it has its slot.
- **`SlotsAreLeases`** (`PipelineProofs`): `Spec => ImplementsSlotLease`, the refinement, without failing Redis commands. The jobs let through are those whose
  submission has a model, the leases held are the unexpired slots, and a lease lapses as its job reaches the age of the
  TTL. One lemma per kind of step of `SlotLease` and one for
  all others (`NoLease`: the cleanup of expired slots is a stutter). The HSET of a result is a `Settle` that keeps the lease, the ZREM
  of the same pipeline a `Return` later, which needs that the result is there (`ResultFirst`); the script of the cron does both at once. It needs that only a job that was
  let through is queued (`ModelWithUnit`) and leaves a trace (`QueuedLeaveTraces`), so nothing is settled that was not let through, and that a
  slot is under its own user (`SlotsOwned`). `ConcurrencyBounded` counts live jobs; this theorem says
  which steps may move a slot at all.

### The job pipeline, without some faults

`ExclusionProofs` proves what the code guarantees only as long as something does not happen. The hypotheses are not
conveniences of the proofs: for each of them TLC finds a counterexample when it alone is
dropped ("Where the properties stop", section 3). All other faults stay allowed.

| Theorem | States | Excluded | Invariant |
|---|---|---|---|
| `RemovedJobsAreIdle` | `NeverRemovedUnderWorker` | lost locks | `HandlerHolds`: a handler that runs has the lock |
| `AnswersAreNotRefunded` | `PaidCallIsKept` | Redis errors, crashes, lost locks, aging | `AnswerHeld`: a job with an answer is completed, or with the handler that stored it; `AboutFailed`: events are about jobs that failed for good |
| `RefundsAreCovered` | `RefundsWithinConsumption` | aging, a second process | `RefundedOnce`: one event, one handler, one refund |
| `BacklogIsCovered`, `BacklogIsCapped` | `WaitingCoversBacklog`, `BacklogWithinCap` | failed enqueues, lost locks, crashes, Redis errors, aging, a second process | `BacklogCounted`: the jobs that were counted and not taken off (`InBacklog`) number at most `queue:waiting`, and those that were admitted at most the cap; `LeavesSettled`: a handler leaves the backlog after it has written the result |
| `DayCounterIsExact` | `TokensCounted`: `rpd` of a model is what was taken and not given back | midnight, aging, a second process | itself, with `RefundedOnce` and `TakenQueued` (tokens are taken for queued jobs only) |
| `NothingIsLeft` | `RestIsClean` | all of the above and dying requests, shutdowns, a worker that outruns the metadata (`Calm`: only minutes pass) | `BacklogExact`, `RequestWhole`, `ModelKept`, `SnapWhole`, `SlotsOwned`, `FailedReleased` |
| `ModelDayHolds` | `CompletedWithinModelDay` | Redis errors, crashes, lost locks, midnight, aging, a second process | `SpentCounted`: the jobs with tokens taken and not given back number at most the counter, and that at most the limit; `AnswerHeld`: an answered job is over, or with the handler that answered it |

The counters are proved alike: each says too much or too little at some moments (a request has
incremented and has not compared, a handler has left and not returned), so the invariant counts a set of jobs
that changes with the counter in the same step, and the property follows because its own set is smaller.

`NothingIsLeft` needs equality where those need an inequality. `BacklogExact` says that `queue:waiting` is the
number of jobs in `InBacklog`. A job leaves that set only in a step that also decrements, which needs that the failed
handler knows the model to decrement for (`SnapWhole`), since the metadata is complete when a worker fetches the job (`RequestWhole`)
and names the model by its id until finalizeSuccess overwrites it (`ModelKept`). `FailedReleased` says of a failed job that it has no slot,
or a failed handler that is on the way to release it (`ToRelease`); of a completed one `SettledJobsHoldNoSlot` says it. At rest there are
no handlers and no events, so `InBacklog` is empty and no accepted job has a slot.

`Procs` with at most one element is how the code is deployed only if one worker process listens; the finding
`two_listeners` is about the other case.

### Results

- **`SyncImplements`** and **`MarkedAlwaysStored`** (`ResultSyncProofs`): `ResultSync` implements `WriteBehind`,
  and what carries `synced_at` has a row, for any instances, jobs, chunk size and faults. A row that moves
  forward only is not inductive: a run stores what it read several steps ago. `SyncInv` adds that
  a run that goes on has the lock (`LockHeld`), so that nobody stores between its read and its
  statement; that what it holds is no older than the row, and what it is about to
  mark or expire is stored (`BatchCurrent`); and that an outcome is in Redis, with metadata, until
  Postgres has one or a run could not read the job (`NothingLost`). Each step then is a `Store`, a `Write`, a `Drop`, a `Delete`, a `Misread` or
  a stutter of `WriteBehind`.
- **`AlwaysFound`** (`ResultStreamProofs`): `Spec => []NeverNotFound`. A job has metadata until it has a
  result and a result until it has a row (`Found`), so a handler that saw no metadata will find the
  row (`SeenFromRow`), though it looks at three places one after the other. **`AlwaysFoundByAll`** says the same of
  `ReadsSpec`, where a client may poll instead: the handler of a poll makes the same three lookups,
  and `PollInv` adds to `FoundInv` that a poll which has seen no metadata finds the row (`PollFromRow`).
- **`PollsAreSteady`**: `ReadsSpec => StatusNeverGoesBack`, an action property. `AllAgree`: before the job is
  over no place says that it is; afterwards every place that still says something says the same.
- **`StreamTyped`**, **`NothingLostOrTwice`**, **`CompletedAnswers`**: `TypeOK`, `NoGapNoRepeat` and `CompletedIsWhole`
  of `ReadsSpec`. The text of a part of the log is its chunks in order (`TextType`, `TextAppend` and `TextOfRun`, over
  `RankingProofs`: an element more in the set is an element more at the end). `StreamInv` joins what the worker has appended with what
  the client has seen: a log of one run is its chunks from the first on, and `done` comes after all of them (`OneRun`); no
  entry precedes a stream that is there (`StreamFirst`); a client that reads has what its cursor says, and one
  that was told of an end had it from an entry, a result or a row (`Connected`, `Ended`).
- **`RetriesAreDocumented`**: `ReadsSpec => []RetriedAsDocumented`. Lemma `VerdictKept` compares the code's verdict with
  the documents' for every provider error: it retries what is temporary or `Overlong`, and nothing else; `GoesOn` says that a run under way has not failed yet.

### Processes and configuration

- **`TypeCorrect`**, **`NeverTooManyJobs`**, **`SubscribedAreUpToDate`**, **`ShutdownIsClean`** (`WorkerProcessProofs`): `TypeOK`,
  `WithinConcurrency`, `UpToDateWhenSubscribed` and `CleanExit` of `WorkerProcess`. One invariant,
  `AllSound`, describes a process: before `initWorkers` it has no worker (`NoneBefore`); a worker is replaced exactly while a refresh
  closes (`ReplacedByRefresh`), and whatever is not being replaced runs with `activeConcurrency`
  (`ActiveRuns`), which is what a fresh process has read (`ActiveFresh`); what a shutdown that met no refresh no longer awaits
  is closed (`ClosesAll`). The last is what `CleanExit` alone lacks: a worker already
  awaited might be opened again.
- **`ChosenKeepsLimits`** (`ConfigurationProofs`): `Spec => []ChosenHasLimits`. No step deletes a hash, and what a reload has left to
  write are rows it found (`LeftAreRows`), so what it writes over a hash is a row again, at whatever command it stands.
- **`ChainsAreComplete`**: `Spec => []ChainIsComplete`. What a chain contains, how long it is and what it begins with follows
  from what `InOrder` returns (`RankingProofs`) for the order of priorities, ties included, which is total. The invariant
  supplies that `model:ids` is a finite set of models, at every command of a reload.
- **`BacklogMeetsSla`**: `Spec => []BacklogWithinSla`. `computeMaxQueueLength` is arithmetic (lemma `BacklogFits`, for all limits);
  the invariant supplies that a hash holds limits of a row.
- **`LimitsAreReal`**: `Spec => []UsedAreReal`. The limits pass through three places, each written from a read made before: the preloader
  (`PreloadIsReal`), the hash (`CacheIsReal`) and the submission (`AskIsReal`). Lemma `LoadedAsStored`: what
  was stored as strings is what is loaded, null included.

### Only model-checked

- Everything under fairness (`QueuedJobSettles`, `EveryResultStored`, `ToldInTheEnd`, `EveryJobRuns`,
  `ReloadsCatchUp`, `WorkerStarts`, `LimitsCatchUp`): liveness and ENABLED are out of the prover's reach.
- `CatalogTypeOK` and `LimitsTypeOK`, of which the proofs need and show parts only (`ModelsTyped`, the invariants of
  `LimitsInv`).
- The findings: they are counterexamples.

## 5. Not modelled, and the plan

Not modelled:

- Authentication, the health routes, `GET /user/:userId/recent`, the database and Redis clients, the environment,
  prompts and schemas: requests of their own, data and I/O, no state that the pipeline shares.
- The priorities of the web server's shutdown handlers. `cron.stop` clears the timers and does not await the
  task that runs (README.md: "Wait active sync DB job"): what that task leaves is a death between two of its
  steps, `Die` in `ResultSync`, `CronDies` in `StaleExpiry`, `WebCrash` in `ModelCatalog`.
- The 24 hours after which metadata and results expire, although `docs/RateLimits.md:112` says "no TTL by default";
  the per-minute window of a model, of which only the count is modelled; a cron task that outlives its lock.
- Migrations, scripts and CI: not part of the running program.

Planned, most important first:

1. A theorem on how far `queue:waiting` is off: by at most one for each second process, fault and expiry.
2. An abstract job outcome (pending, tried, settled), with `JobSystem` shown to implement it.
3. The stream and the sync as one system with two jobs; an abstract specification "one run's chunks, once
   each, then an end" that `ResultStream` implements when no retry happens.
4. A sync run that outlives its lock.
5. `RateWindow`: the TTL of the per-minute counter against a late refund; `Shutdown`: the order of the web
   server's handlers.

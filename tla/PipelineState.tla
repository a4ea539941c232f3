--------------------------- MODULE PipelineState --------------------------
(***************************************************************************)
(* The state of the job pipeline: what lives in Redis, what BullMQ keeps   *)
(* about each job, and where each actor (HTTP handler, worker process,     *)
(* failed-event handler, expiry cron) stands between two awaits.  The      *)
(* actions are in the modules of the components that take them.            *)
(***************************************************************************)
EXTENDS LimitScripts, FiniteSets, Sequences

CONSTANTS
    Jobs,              \* the jobs that may be submitted
    Users,             \* Supabase user ids
    Types,             \* queue types: hard and lite
    Models,            \* model ids
    Procs,             \* worker processes
    NoProc,            \* the lock of a job nobody holds
    NoModel,           \* the model of a submission that has not got one yet
    NoJob,             \* the expiry cron is at no job
    UserOf,            \* job -> the user who submits it
    TypeOf,            \* job -> the queue it is submitted to
    StreamingJobs,     \* jobs submitted with streaming: true
    Chain,             \* type -> requested model followed by its fallbacks
    LoadedModels,      \* models whose limits hash exists in Redis
    ConcurrencyLimit,  \* user -> max_concurrency, 0 when unlimited
    UserDayLimit,      \* user -> type -> hard_rpd / lite_rpd, 0 when unlimited
    ModelRpm, ModelRpd,\* model -> per-minute and per-day limit, 0 when unlimited
    MaxQueueLength,    \* model -> computeMaxQueueLength(rpm, rpd, avgSeconds)
    Attempts,          \* defaultJobOptions.attempts
    MaxStalled,        \* maxStalledCount of the workers
    MaxDay,            \* bound: PT days the model goes through
    MaxFaults,         \* bound: faults of one behaviour
    Environment        \* which outside events the behaviour may contain

\* What the environment can do to the program besides running it.
EnvironmentKinds ==
    { "crash",      \* a worker process dies at any point
      "shutdown",   \* a worker process exits through shutdown() in index.ts
      "lockLost",   \* a worker fails to renew a job's lock in time
      "redis",      \* a Redis command of a job handler fails
      "addFails",   \* queue.add or the meta MULTI of enqueueJob fails
      "webDies",    \* the web process dies in the middle of a submission
      "cronDies",   \* the web process dies in the middle of expireStaleJobs
      "metaLag",    \* the meta MULTI lands after a worker fetched the job
      "aging",      \* jobs grow older than the SLA and than their slot's TTL
      "minute",     \* per-minute counters expire
      "midnight" }  \* the PT day changes

Days == 1 .. MaxDay

ASSUME JobsAssumption ==
    /\ IsFiniteSet(Jobs)
    /\ UserOf \in [Jobs -> Users]
    /\ TypeOf \in [Jobs -> Types]
    /\ StreamingJobs \subseteq Jobs
    /\ NoJob \notin Jobs

ASSUME ModelsAssumption ==
    /\ Chain \in [Types -> Seq(Models)]
    /\ LoadedModels \subseteq Models
    /\ NoModel \notin Models

ASSUME LimitsAssumption ==
    /\ ConcurrencyLimit \in [Users -> Nat]
    /\ UserDayLimit \in [Users -> [Types -> Nat]]
    /\ ModelRpm \in [Models -> Nat]
    /\ ModelRpd \in [Models -> Nat]
    /\ MaxQueueLength \in [Models -> Nat \ {0}]

ASSUME QueueAssumption ==
    /\ IsFiniteSet(Procs)
    /\ NoProc \notin Procs
    /\ Attempts \in Nat \ {0}
    /\ MaxStalled \in Nat

ASSUME BoundsAssumption ==
    /\ MaxDay \in Nat \ {0}
    /\ MaxFaults \in Nat
    /\ Environment \subseteq EnvironmentKinds

\* Ages that matter: 0 under EXPIRE_SLA_MS (30 min), 1 under
\* CONCURRENCY_TTL_SECONDS (31 min), 2 older.
Ages == 0 .. 2

VARIABLES
    \* Redis
    meta,      \* job:{id}:meta
    result,    \* job:{id}:result, "expired" standing for failed with error expired
    slots,     \* user:{id}:active_jobs, a sorted set of job ids
    userRpd,   \* user:{id}:rpd:{type}:{date}
    waiting,   \* queue:waiting:{model}
    rpm, rpd,  \* model:{id}:rpm and model:{id}:rpd
    \* BullMQ
    bull,      \* state, attempts made, stalls and lock holder of each job
    events,    \* failed events each process has still to handle
    \* Actors
    sub,       \* the HTTP handler of each submission
    up,        \* is the worker process running
    wpc, wskip,\* the job handler of each process and job; tokensAlreadyConsumed
    hpc, hsnap,\* the failed handler of each process and job; the meta it read
    cron,      \* the expiry cron
    \* Environment
    age, day, faults,
    \* History, read by properties only
    consumed,  \* model tokens taken for the job
    refunded,  \* model tokens given back for the job
    calls      \* provider calls made for the job

storeVars   == <<meta, result, slots, userRpd, waiting, rpm, rpd>>
queueVars   == <<bull, events>>
workerVars  == <<wpc, wskip>>
handlerVars == <<hpc, hsnap>>
envVars     == <<age, day, faults>>
historyVars == <<consumed, refunded, calls>>
vars == <<storeVars, queueVars, sub, up, workerVars, handlerVars, cron, envVars,
          historyVars>>

-----------------------------------------------------------------------------
\* job:{id}:meta, with the fields the program decides on.  model is
\* processed_model: the selected id, or the provider's api name once a
\* non-streaming run has finished.
MetaRecord ==
    [owner: BOOLEAN, model: {"none", "id", "api"},
     status: {"none", "queued", "in_progress", "completed", "failed"},
     tokens: BOOLEAN, provider: {"none", "false", "true"}]

\* HGETALL of a key that does not exist.
EmptyMeta == [owner |-> FALSE, model |-> "none", status |-> "none",
              tokens |-> FALSE, provider |-> "none"]

StoreTypeOK ==
    /\ meta \in [Jobs -> MetaRecord]
    /\ result \in [Jobs -> {"none", "completed", "failed", "expired"}]
    /\ slots \in [Users -> SUBSET Jobs]
    /\ userRpd \in [Users -> [Types -> [Days -> Nat]]]
    /\ waiting \in [Models -> Int]
    /\ rpm \in [Models -> Nat]
    /\ rpd \in [Models -> Nat]

StoreInit ==
    /\ meta = [j \in Jobs |-> EmptyMeta]
    /\ result = [j \in Jobs |-> "none"]
    /\ slots = [u \in Users |-> {}]
    /\ userRpd = [u \in Users |-> [t \in Types |-> [d \in Days |-> 0]]]
    /\ waiting = [m \in Models |-> 0]
    /\ rpm = [m \in Models |-> 0]
    /\ rpd = [m \in Models |-> 0]

HistoryTypeOK ==
    /\ consumed \in [Jobs -> Nat]
    /\ refunded \in [Jobs -> Nat]
    /\ calls \in [Jobs -> Nat]

HistoryInit ==
    /\ consumed = [j \in Jobs |-> 0]
    /\ refunded = [j \in Jobs |-> 0]
    /\ calls = [j \in Jobs |-> 0]

EnvTypeOK == age \in [Jobs -> Ages] /\ day \in Days /\ faults \in Nat

EnvInit == age = [j \in Jobs |-> 0] /\ day = 1 /\ faults = 0

-----------------------------------------------------------------------------
\* The slots of a user that ZREMRANGEBYSCORE -inf now leaves in place: a slot's
\* score is its job's submission time plus CONCURRENCY_TTL_SECONDS.
Unexpired(u) == {j \in slots[u] : age[j] < 2}

\* ZREM user:{id}:active_jobs jobId
ReleaseSlot(j) == slots' = [slots EXCEPT ![UserOf[j]] = @ \ {j}]

\* decrAndClampToZero on queue:waiting:{model}.
LeaveWaiting(m) == waiting' = [waiting EXCEPT ![m] = DecrAndClamp(@)]

\* returnTokensAtomic on the counters of model m, on behalf of job j.
ReturnTokens(m, j) ==
    /\ rpm' = [rpm EXCEPT ![m] = DecrAndClamp(@)]
    /\ rpd' = [rpd EXCEPT ![m] = DecrAndClamp(@)]
    /\ refunded' = [refunded EXCEPT ![j] = @ + 1]

\* The environment spends one unit of its fault budget on an event of this kind.
Fault(kind) ==
    /\ kind \in Environment
    /\ faults < MaxFaults
    /\ faults' = faults + 1
=============================================================================

---------------------------- MODULE StaleExpiry ---------------------------
(***************************************************************************)
(* The two cron tasks that look after jobs nobody works on:                *)
(* expireStaleJobs, which fails the jobs that have waited longer than      *)
(* EXPIRE_SLA_MS, and cleanupOrphanLocks, which drops expired slots.       *)
(* runWithLock lets one run of a task go on at a time.                     *)
(*                                                                         *)
(* cron.pc is the await expireStaleJobs stands at: idle, scan (between     *)
(* jobs, todo being what is left of the snapshot and left the queues not   *)
(* looked at yet), remove, refund, expire, the last three about cron.job.  *)
(***************************************************************************)
EXTENDS FailedEvents

CronTypeOK ==
    cron \in [pc: {"idle", "scan", "remove", "refund", "expire"},
              left: SUBSET Types, todo: SUBSET Jobs, job: Jobs \cup {NoJob},
              due: BOOLEAN]

CronIdle == [pc |-> "idle", left |-> {}, todo |-> {}, job |-> NoJob, due |-> FALSE]

CronInit == cron = CronIdle

\* What no step of the cron touches.
CronFrame == UNCHANGED <<sub, up, workerVars, handlerVars, age, day, consumed, calls>>

\* ageMs > expireSlaMs, for a job getJobs(['waiting', 'delayed']) returns.
Stale(j) == bull[j].st \in {"waiting", "delayed"} /\ age[j] >= 1

-----------------------------------------------------------------------------
\* The timer fires.  A run that finds nothing stale changes nothing.
BeginExpiry ==
    /\ cron.pc = "idle"
    /\ \E j \in Jobs : Stale(j)
    /\ cron' = [CronIdle EXCEPT !.pc = "scan", !.left = Types]
    /\ UNCHANGED <<storeVars, queueVars, faults, refunded>>
    /\ CronFrame

\* queue.getJobs of the next queue: a snapshot.
ScanQueue(t) ==
    /\ cron.pc = "scan" /\ cron.todo = {} /\ t \in cron.left
    /\ cron' = [cron EXCEPT !.left = @ \ {t},
                            !.todo = {j \in Jobs : TypeOf[j] = t /\ Stale(j)}]
    /\ UNCHANGED <<storeVars, queueVars, faults, refunded>>
    /\ CronFrame

EndExpiry ==
    /\ cron.pc = "scan" /\ cron.todo = {} /\ cron.left = {}
    /\ cron' = CronIdle
    /\ UNCHANGED <<storeVars, queueVars, faults, refunded>>
    /\ CronFrame

\* hgetall of the next job's metadata.
ReadStale(j) ==
    /\ cron.pc = "scan" /\ j \in cron.todo
    /\ cron' = [cron EXCEPT !.pc = "remove", !.todo = @ \ {j}, !.job = j,
                            !.due = meta[j].tokens /\ meta[j].provider # "true"]
    /\ UNCHANGED <<storeVars, queueVars, faults, refunded>>
    /\ CronFrame

\* job.remove().  It throws for a locked job, and the whole run ends.
RemoveStale(j) ==
    /\ cron.pc = "remove" /\ cron.job = j
    /\ IF Removable(j)
       THEN /\ Removed(j)
            /\ cron' = [cron EXCEPT !.pc = IF cron.due THEN "refund" ELSE "expire"]
       ELSE UNCHANGED bull /\ cron' = CronIdle
    /\ UNCHANGED <<storeVars, events, faults, refunded>>
    /\ CronFrame

\* returnTokensAtomic, on the counters of job.data.model.
RefundStale(j) ==
    /\ cron.pc = "refund" /\ cron.job = j
    /\ ReturnTokens(sub[j].model, j)
    /\ cron' = [cron EXCEPT !.pc = "expire"]
    /\ UNCHANGED <<meta, result, slots, userRpd, waiting, queueVars, faults>>
    /\ CronFrame

\* The script expireStaleJob.  The quota it gives back is that of the day the
\* cron runs on.
ExpireStale(j) ==
    /\ cron.pc = "expire" /\ cron.job = j
    /\ LeaveWaiting(sub[j].model)
    /\ ReleaseSlot(j)
    /\ userRpd' = [userRpd EXCEPT ![UserOf[j]][TypeOf[j]][day] = DecrAndClamp(@)]
    /\ result' = [result EXCEPT ![j] = "expired"]
    /\ meta' = [meta EXCEPT ![j].status = "failed"]
    /\ cron' = [cron EXCEPT !.pc = "scan", !.job = NoJob, !.due = FALSE]
    /\ UNCHANGED <<rpm, rpd, queueVars, faults, refunded>>
    /\ CronFrame

\* The web process that runs the cron dies, and the lock of the task expires later;
\* or a command of the run fails, which ends it.
CronDies ==
    /\ cron.pc # "idle"
    /\ Fault("cronDies")
    /\ cron' = CronIdle
    /\ UNCHANGED <<storeVars, queueVars, refunded>>
    /\ CronFrame

\* cleanupOrphanLocks for one user: ZREMRANGEBYSCORE and nothing else.
CleanupSlots(u) ==
    /\ slots[u] # Unexpired(u)
    /\ slots' = [slots EXCEPT ![u] = Unexpired(u)]
    /\ UNCHANGED <<meta, result, userRpd, waiting, rpm, rpd, queueVars, cron, faults,
                   refunded>>
    /\ CronFrame

ExpiryStep ==
    \/ BeginExpiry \/ EndExpiry
    \/ \E t \in Types : ScanQueue(t)
    \/ \E j \in Jobs : ReadStale(j) \/ RemoveStale(j) \/ RefundStale(j) \/ ExpireStale(j)
=============================================================================

----------------------------- MODULE JobSystem ----------------------------
(***************************************************************************)
(* The job pipeline as a whole: HTTP submissions, BullMQ, worker           *)
(* processes, their failed-event handlers and the expiry cron, sharing     *)
(* Redis; the properties the pipeline is meant to have.                    *)
(***************************************************************************)
EXTENDS StaleExpiry

EnvFrame == UNCHANGED <<storeVars, queueVars, sub, up, workerVars, handlerVars, cron,
                        faults, historyVars>>

\* A submitted job crosses the SLA, then the expiry of its slot.
Age(j) ==
    /\ "aging" \in Environment
    /\ sub[j].pc # "idle" /\ age[j] < 2
    /\ age' = [age EXCEPT ![j] = @ + 1]
    /\ UNCHANGED day
    /\ EnvFrame

\* Midnight PT: the model counters of the day expire, the user's quota is kept
\* under a key that names the day.
Midnight ==
    /\ "midnight" \in Environment
    /\ day < MaxDay
    /\ day' = day + 1
    /\ rpd' = [m \in Models |-> 0]
    /\ UNCHANGED <<meta, result, slots, userRpd, waiting, rpm, queueVars, sub, up,
                   workerVars, handlerVars, cron, age, faults, historyVars>>

\* MINUTE_TTL after its last use the per-minute counter of a model expires.
MinuteElapses(m) ==
    /\ "minute" \in Environment
    /\ rpm[m] > 0
    /\ rpm' = [rpm EXCEPT ![m] = 0]
    /\ UNCHANGED <<meta, result, slots, userRpd, waiting, rpd, queueVars, sub, up,
                   workerVars, handlerVars, cron, envVars, historyVars>>

-----------------------------------------------------------------------------
NothingRunning ==
    /\ \A p \in Procs : events[p] = {} /\ NoHandler(p)
    /\ \A p \in Procs, j \in Jobs : hpc[p][j] = "idle"
    /\ cron = CronIdle

\* Every submission is over and no job is pending anywhere.
Quiescent ==
    /\ \A j \in Jobs : Answered(j) /\ ~Pending(j)
    /\ NothingRunning

\* The model's jobs are finite in number: when all are done the system rests.
Rest == Quiescent /\ UNCHANGED vars

Init ==
    /\ StoreInit /\ QueueInit /\ SubmissionInit /\ WorkerInit /\ FailedEventsInit
    /\ CronInit /\ EnvInit /\ HistoryInit

Next ==
    \/ \E j \in Jobs :
          \/ SubmissionStep(j) \/ EnqueueFails(j) \/ WebDies(j)
          \/ PromoteDelayed(j) \/ RecoverStalled(j) \/ LoseLock(j)
          \/ Age(j)
    \/ \E p \in Procs, j \in Jobs :
          \/ Fetch(p, j) \/ HandlerStep(p, j) \/ HandlerFault(p, j)
          \/ FailedEventsStep(p, j) \/ FailureLoses(p, j) \/ ListenerRejects(p, j)
    \/ \E p \in Procs : Crash(p) \/ Shutdown(p) \/ Restart(p)
    \/ ExpiryStep \/ CronDies
    \/ \E u \in Users : CleanupSlots(u)
    \/ Midnight
    \/ \E m \in Models : MinuteElapses(m)
    \/ Rest

Spec == Init /\ [][Next]_vars

\* What keeps running: Node runs every callback that is due, BullMQ hands out
\* waiting jobs, promotes delayed ones and checks for stalled ones, the platform
\* restarts a process that is down, and time passes.  Nobody is obliged to
\* submit a job, and nothing obliges a fault to happen.
Fairness ==
    /\ \A j \in Jobs :
          /\ WF_vars(SubmissionStep(j) /\ sub[j].pc # "idle")
          /\ WF_vars(PromoteDelayed(j))
          /\ WF_vars(RecoverStalled(j))
          /\ WF_vars(\E p \in Procs : Fetch(p, j))
    /\ \A p \in Procs, j \in Jobs :
          WF_vars(HandlerStep(p, j)) /\ WF_vars(FailedEventsStep(p, j))
    /\ \A p \in Procs : WF_vars(Restart(p))
    /\ WF_vars(ExpiryStep)
    /\ \A m \in Models : WF_vars(MinuteElapses(m))

FairSpec == Spec /\ Fairness

TypeOK ==
    /\ StoreTypeOK /\ QueueTypeOK /\ SubmissionTypeOK /\ WorkerTypeOK
    /\ FailedEventsTypeOK /\ CronTypeOK /\ EnvTypeOK /\ HistoryTypeOK

-----------------------------------------------------------------------------
\* Vocabulary of the properties.

\* The job is in its queue or with a worker, has no result yet and is younger
\* than the TTL of its slot.
Live(j) == Pending(j) /\ result[j] = "none" /\ age[j] < 2

\* A handler of the job stands between fetching it and writing its result.
Working(j) == \E p \in Procs : wpc[p][j] \in WorkerPcs \ {"idle", "leave", "return"}

OnModel(m) == {j \in Jobs : sub[j].model = m}

\* The tokens of the model that were taken and not given back, one by one.
Outstanding(m) == UNION {{j} \X (refunded[j] + 1 .. consumed[j]) : j \in OnModel(m)}
Counted(m) == {j \in OnModel(m) : Pending(j) /\ result[j] = "none"}

-----------------------------------------------------------------------------
\* A user never has more live jobs than max_concurrency, whatever crashes,
\* retries, stalls and expiries happen: combinedCheckAndAcquire.lua counts slots,
\* and every place that gives a slot back has settled the job before.  A failed
\* command may leave the result unwritten and still remove the slot
\* (finalizeSuccess.ts:28, queueEvents.ts:122).
ConcurrencyWithinLimit ==
    \A u \in Users : ConcurrencyLimit[u] > 0 =>
        Cardinality({j \in Jobs : UserOf[j] = u /\ Live(j)}) <= ConcurrencyLimit[u]

\* A job that BullMQ has completed, by whichever of its runs, holds no slot, and
\* nobody takes it for the job again: neither a second handler of it, nor the retry
\* after a lost lock, nor an enqueue that arrives late (finalizeSuccess.ts:27).  An
\* answer may be there before the slot is back, and the slot of a failed handler
\* without the owner's id stays until its TTL.
SettledHoldsNoSlot ==
    \A j \in Jobs : bull[j].st = "completed" => j \notin slots[UserOf[j]]

\* The slots as leases: a job is let through when its submission gets its model.
Lease == INSTANCE SlotLease WITH
    Limit <- ConcurrencyLimit,
    asked <- {j \in Jobs : sub[j].model # NoModel},
    held <- [u \in Users |-> Unexpired(u)],
    lapsed <- {j \in Jobs : age[j] = 2},
    outcome <- result

\* combinedCheckAndAcquire.lua, the pipelines that settle a job command by command and
\* the TTL of the slots are one lease semaphore per user: nothing takes a slot past the
\* limit or twice, and nothing gives one back before its job has an outcome but the TTL.
ImplementsSlotLease == Lease!Spec

\* The queue of a model never holds more jobs than computeMaxQueueLength allows:
\* prepareJobSubmission increments first and compares afterwards.
BacklogWithinCap ==
    \A m \in Models : Cardinality(Counted(m)) <= MaxQueueLength[m]

\* queue:waiting never says less than there is: an undercount would let
\* prepareJobSubmission accept jobs past the cap.
WaitingCoversBacklog ==
    \A m \in Models : waiting[m] >= Cardinality(Counted(m))

\* A job reaches the provider at most Attempts + MaxStalled times: retries and
\* stalls are bounded, and a rate-limited delay is no call.
CallsBounded == \A j \in Jobs : calls[j] <= Attempts + MaxStalled

\* No provider call is made for a job whose model tokens were never taken, on
\* the first attempt or a later one (consumeLimitsIfNeeded skips on the flag).
CallsArePaidFor == \A j \in Jobs : calls[j] > 0 => consumed[j] > 0

\* Tokens given back for a job never exceed the tokens taken for it
\* (queueEvents.ts, expireStaleJobs.ts).
RefundsWithinConsumption == \A j \in Jobs : refunded[j] <= consumed[j]

\* A paid call is not refunded: model tokens never go back for a job whose answer is
\* in Redis.  handleJob.ts:48 resets provider_completed on a retry, and
\* queueEvents.ts:83 and expireStaleJobs.ts:49 decide on that flag alone.
PaidCallIsKept ==
    [][\A j \in Jobs : refunded'[j] > refunded[j] => result[j] # "completed"]_vars

\* The completed jobs of the day never exceed the model's daily limit.
CompletedWithinModelDay ==
    \A m \in Models : ModelRpd[m] > 0 =>
        Cardinality({j \in OnModel(m) : result[j] = "completed"}) <= ModelRpd[m]

\* When everything is over nothing is left behind: no backlog count, no slot of
\* an accepted job, and the daily counter is what was taken and not given back.
RestIsClean ==
    Quiescent =>
        /\ \A m \in Models :
              /\ waiting[m] = 0
              /\ rpd[m] = Cardinality(Outstanding(m))
        /\ \A u \in Users : \A j \in slots[u] : sub[j].pc # "accepted"

\* A completed result stays: no step turns it into a failure or an expiry.
CompletedIsFinal ==
    [][\A j \in Jobs : result[j] = "completed" => result'[j] = "completed"]_vars

\* The cron never removes a job a worker is working on.
NeverRemovedUnderWorker ==
    [][\A j \in Jobs : bull'[j].st = "removed" /\ bull[j].st # "removed"
                          => ~Working(j)]_vars

\* A job that has failed for good gets its result.
FinalFailureIsRecorded ==
    \A j \in Jobs : bull[j].st = "failed" ~> result[j] # "none"

\* Every job that got into its queue is settled in the end, also one whose request
\* failed and whose metadata was never written, after which the worker and the failed
\* handler find a hash without owner and model (enqueueJob.ts:54-77, queueEvents.ts:72),
\* through retries, lost locks, stalls, rate-limit delays and a change of day.
QueuedJobSettles ==
    \A j \in Jobs : bull[j].st # "none" ~> result[j] # "none"
=============================================================================

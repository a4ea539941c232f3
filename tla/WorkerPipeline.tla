--------------------------- MODULE WorkerPipeline -------------------------
(***************************************************************************)
(* The job handler of a worker process: handleJob and the functions it     *)
(* awaits.  wpc[p][j] is the await the handler of job j in process p       *)
(* stands at:                                                              *)
(*   idle      no handler                                                  *)
(*   read      hgetall of the meta (tokensAlreadyConsumed)                 *)
(*   mark      markInProgress                                              *)
(*   consume   consumeExecutionLimits                                      *)
(*   flag      hset tokens_consumed true                                   *)
(*   requeue   hset status queued, after the per-minute limit was hit      *)
(*   delay     job.moveToDelayed                                           *)
(*   reach     hset provider_completed false                               *)
(*   call      executeModel                                                *)
(*   reached   hset provider_completed true                                *)
(*   finalize  the pipeline of finalizeSuccess, at the HSET of the meta    *)
(*   store     the pipeline, at the HSET of the result                     *)
(*   release   the pipeline, at the ZREM of the slot                       *)
(*   leave     decrAndClampToZero of finalizeSuccess                       *)
(*   return    the handler has returned, BullMQ completes the job          *)
(*   throw     the handler has thrown, BullMQ retries or fails the job     *)
(*   fatal     it has thrown an UnrecoverableError                         *)
(* The pipeline is not a MULTI: Redis runs other clients' commands between *)
(* its commands, one may fail without the others, and exec() resolves      *)
(* nevertheless.                                                           *)
(* A process runs one handler of a job at a time: it does not fetch the    *)
(* job again before its previous handler has ended.                        *)
(***************************************************************************)
EXTENDS Submission

WorkerPcs == {"idle", "read", "mark", "consume", "flag", "requeue", "delay",
              "reach", "call", "reached", "finalize", "store", "release",
              "leave", "return", "throw", "fatal"}

\* The awaits that reject when their Redis command fails.
RedisPcs == {"read", "mark", "consume", "flag", "requeue", "delay", "reach",
             "call", "reached", "leave"}

WorkerTypeOK ==
    /\ wpc \in [Procs -> [Jobs -> WorkerPcs]]
    /\ wskip \in [Procs -> [Jobs -> BOOLEAN]]
    /\ up \in [Procs -> BOOLEAN]

WorkerInit ==
    /\ wpc = [p \in Procs |-> [j \in Jobs |-> "idle"]]
    /\ wskip = [p \in Procs |-> [j \in Jobs |-> FALSE]]
    /\ up = [p \in Procs |-> TRUE]

At(p, j, pc) == wpc[p][j] = pc
Goto(p, j, pc) == wpc' = [wpc EXCEPT ![p][j] = pc]

\* What no step of a handler touches.
WorkerFrame == UNCHANGED <<userRpd, sub, up, handlerVars, cron, age, day, refunded>>

\* A step that writes only the job's metadata.
OnlyMeta == UNCHANGED <<result, slots, waiting, rpm, rpd, queueVars, faults,
                        consumed, calls>>

-----------------------------------------------------------------------------
\* BullMQ hands the job to the process.  Without metaLag the meta MULTI, sent
\* in the same tick as queue.add, has landed or failed by then.
Fetch(p, j) ==
    /\ up[p] /\ At(p, j, "idle")
    /\ bull[j].st = "waiting"
    /\ (InFlight(j) => sub[j].put # "pending") \/ "metaLag" \in Environment
    /\ Locked(p, j)
    /\ Goto(p, j, "read")
    /\ UNCHANGED <<storeVars, events, wskip, faults, consumed, calls>>
    /\ WorkerFrame

\* Mutant: a job that was in progress before is taken to have its tokens.
ReadMetaByStatus(p, j) ==
    /\ At(p, j, "read")
    /\ wskip' = [wskip EXCEPT ![p][j] = meta[j].status = "in_progress"]
    /\ Goto(p, j, "mark")
    /\ UNCHANGED <<storeVars, queueVars, faults, consumed, calls>>
    /\ WorkerFrame

\* tokensAlreadyConsumed
ReadMeta(p, j) ==
    /\ At(p, j, "read")
    /\ wskip' = [wskip EXCEPT ![p][j] = meta[j].tokens]
    /\ Goto(p, j, "mark")
    /\ UNCHANGED <<storeVars, queueVars, faults, consumed, calls>>
    /\ WorkerFrame

\* markInProgress; 'skipped' goes straight to the provider.  The flag is dead
\* after the branch on it.
MarkInProgress(p, j) ==
    /\ At(p, j, "mark")
    /\ meta' = [meta EXCEPT ![j].status = "in_progress"]
    /\ Goto(p, j, IF wskip[p][j] THEN "reach" ELSE "consume")
    /\ wskip' = [wskip EXCEPT ![p][j] = FALSE]
    /\ OnlyMeta
    /\ WorkerFrame

-----------------------------------------------------------------------------
\* What consumeExecutionLimits answers for the job's model.
ConsumeVerdict(j) ==
    LET m == sub[j].model IN ConsumeCode(ModelRpm[m], rpm[m], ModelRpd[m], rpd[m])

\* The script refuses: nothing is consumed.
Refused(p, j, verdict, next) ==
    /\ At(p, j, "consume") /\ ConsumeVerdict(j) = verdict
    /\ Goto(p, j, next)
    /\ UNCHANGED <<storeVars, queueVars, wskip, faults, consumed, calls>>
    /\ WorkerFrame

HitMinuteLimit(p, j) == Refused(p, j, "modelRpm", "requeue")

\* UnrecoverableError('MODEL_RPD_EXCEEDED')
HitDayLimit(p, j) == Refused(p, j, "modelRpd", "fatal")

\* The script says OK: both counters are incremented.
TakeTokens(p, j) ==
    LET m == sub[j].model
    IN  /\ At(p, j, "consume") /\ ConsumeVerdict(j) = "ok"
        /\ rpm' = [rpm EXCEPT ![m] = @ + 1]
        /\ rpd' = [rpd EXCEPT ![m] = @ + 1]
        /\ consumed' = [consumed EXCEPT ![j] = @ + 1]
        /\ Goto(p, j, "flag")
        /\ UNCHANGED <<meta, result, slots, waiting, queueVars, wskip, faults,
                       calls>>
        /\ WorkerFrame

\* tokens_consumed: true
FlagTokens(p, j) ==
    /\ At(p, j, "flag")
    /\ meta' = [meta EXCEPT ![j].tokens = TRUE]
    /\ Goto(p, j, "reach")
    /\ OnlyMeta /\ UNCHANGED wskip
    /\ WorkerFrame

\* Mutant: a delayed job leaves the backlog count.
RequeueLeavesBacklog(p, j) ==
    /\ At(p, j, "requeue")
    /\ meta' = [meta EXCEPT ![j].status = "queued"]
    /\ LeaveWaiting(sub[j].model)
    /\ Goto(p, j, "delay")
    /\ UNCHANGED <<result, slots, rpm, rpd, queueVars, faults, consumed, calls, wskip>>
    /\ WorkerFrame

\* The per-minute limit was hit: status goes back to queued.
Requeue(p, j) ==
    /\ At(p, j, "requeue")
    /\ meta' = [meta EXCEPT ![j].status = "queued"]
    /\ Goto(p, j, "delay")
    /\ OnlyMeta /\ UNCHANGED wskip
    /\ WorkerFrame

\* moveToDelayed throws when the lock has been lost.
DelayJob(p, j) ==
    /\ At(p, j, "delay")
    /\ IF Holds(p, j)
       THEN Delayed(j) /\ Goto(p, j, "return")
       ELSE UNCHANGED bull /\ Goto(p, j, "throw")
    /\ UNCHANGED <<storeVars, events, wskip, faults, consumed, calls>>
    /\ WorkerFrame

-----------------------------------------------------------------------------
\* provider_completed: false, also on a retry.
ReachProvider(p, j) ==
    /\ At(p, j, "reach")
    /\ meta' = [meta EXCEPT ![j].provider = "false"]
    /\ Goto(p, j, "call")
    /\ OnlyMeta /\ UNCHANGED wskip
    /\ WorkerFrame

\* Mutant: a retryable error delays the job, as the per-minute limit does.
CallProviderDelays(p, j) ==
    /\ At(p, j, "call")
    /\ calls' = [calls EXCEPT ![j] = @ + 1]
    /\ \E next \in {"reached", "requeue", "fatal"} : Goto(p, j, next)
    /\ UNCHANGED <<storeVars, queueVars, wskip, faults, consumed>>
    /\ WorkerFrame

\* executeModel reaches the provider.  The answer, a retryable error and an
\* error marked retryable: false are all possible.
CallProvider(p, j) ==
    /\ At(p, j, "call")
    /\ calls' = [calls EXCEPT ![j] = @ + 1]
    /\ \E next \in {"reached", "throw", "fatal"} : Goto(p, j, next)
    /\ UNCHANGED <<storeVars, queueVars, wskip, faults, consumed>>
    /\ WorkerFrame

\* The limits hash has no api_name (the row was edited): no call is made.
NoApiName(p, j) ==
    /\ At(p, j, "call")
    /\ Goto(p, j, "fatal")
    /\ UNCHANGED <<storeVars, queueVars, wskip, faults, consumed, calls>>
    /\ WorkerFrame

\* provider_completed: true
ProviderReached(p, j) ==
    /\ At(p, j, "reached")
    /\ meta' = [meta EXCEPT ![j].provider = "true"]
    /\ Goto(p, j, "finalize")
    /\ OnlyMeta /\ UNCHANGED wskip
    /\ WorkerFrame

-----------------------------------------------------------------------------
\* usedModel: the api name without streaming, the model id with it.
UsedModel(j) == IF j \in StreamingJobs THEN "id" ELSE "api"

\* The pipeline's HSET of processed_model and status.
FinalizeMeta(p, j) ==
    /\ At(p, j, "finalize")
    /\ meta' = [meta EXCEPT ![j] = [@ EXCEPT !.model = UsedModel(j),
                                              !.status = "completed"]]
    /\ Goto(p, j, "store")
    /\ OnlyMeta /\ UNCHANGED wskip
    /\ WorkerFrame

\* The pipeline's HSET of the answer.
StoreAnswer(p, j) ==
    /\ At(p, j, "store")
    /\ result' = [result EXCEPT ![j] = "completed"]
    /\ Goto(p, j, "release")
    /\ UNCHANGED <<meta, slots, waiting, rpm, rpd, queueVars, wskip, faults,
                   consumed, calls>>
    /\ WorkerFrame

\* Mutant: the slot is left to expire.
KeepOwnSlot(p, j) ==
    /\ At(p, j, "release")
    /\ Goto(p, j, "leave")
    /\ UNCHANGED <<storeVars, queueVars, wskip, faults, consumed, calls>>
    /\ WorkerFrame

\* The pipeline's ZREM.
ReleaseOwnSlot(p, j) ==
    /\ At(p, j, "release")
    /\ ReleaseSlot(j)
    /\ Goto(p, j, "leave")
    /\ UNCHANGED <<meta, result, waiting, rpm, rpd, queueVars, wskip, faults,
                   consumed, calls>>
    /\ WorkerFrame

\* The last command of finalizeSuccess.
LeaveBacklog(p, j) ==
    /\ At(p, j, "leave")
    /\ LeaveWaiting(sub[j].model)
    /\ Goto(p, j, "return")
    /\ UNCHANGED <<meta, result, slots, rpm, rpd, queueVars, wskip, faults,
                   consumed, calls>>
    /\ WorkerFrame

-----------------------------------------------------------------------------
\* The handler returned.  A job it has just delayed is not its own any more.
Return(p, j) ==
    /\ At(p, j, "return")
    /\ IF Holds(p, j) THEN Completed(j) ELSE UNCHANGED bull
    /\ Goto(p, j, "idle")
    /\ UNCHANGED <<storeVars, events, wskip, faults, consumed, calls>>
    /\ WorkerFrame

\* Mutant: every attempt that fails gives the slot back.
ThrowReleasesSlot(p, j) ==
    /\ wpc[p][j] \in {"throw", "fatal"}
    /\ IF Holds(p, j) THEN Failed(j, At(p, j, "fatal")) ELSE UNCHANGED queueVars
    /\ ReleaseSlot(j)
    /\ Goto(p, j, "idle")
    /\ UNCHANGED <<meta, result, waiting, rpm, rpd, wskip, faults, consumed, calls>>
    /\ WorkerFrame

\* finalizeFailure has rethrown: BullMQ retries or fails the job.
Throw(p, j) ==
    /\ wpc[p][j] \in {"throw", "fatal"}
    /\ IF Holds(p, j) THEN Failed(j, At(p, j, "fatal")) ELSE UNCHANGED queueVars
    /\ Goto(p, j, "idle")
    /\ UNCHANGED <<storeVars, wskip, faults, consumed, calls>>
    /\ WorkerFrame

\* A Redis command that the handler awaits fails.  One that took effect before
\* its reply was lost is the same event at the next await, if that may reject.
RedisFails(p, j) ==
    /\ wpc[p][j] \in RedisPcs
    /\ Fault("redis")
    /\ Goto(p, j, "throw")
    /\ UNCHANGED <<storeVars, queueVars, wskip, consumed, calls>>
    /\ WorkerFrame

\* provider_completed: true, or the last decrement, takes effect and its reply is
\* lost: the retry does it again.
ReplyLost(p, j) ==
    /\ Fault("redis")
    /\ \/ /\ At(p, j, "reached")
          /\ meta' = [meta EXCEPT ![j].provider = "true"]
          /\ UNCHANGED waiting
       \/ /\ At(p, j, "leave")
          /\ LeaveWaiting(sub[j].model)
          /\ UNCHANGED meta
    /\ Goto(p, j, "throw")
    /\ UNCHANGED <<result, slots, rpm, rpd, queueVars, wskip, consumed, calls>>
    /\ WorkerFrame

\* Commands of the pipeline fail, the one at hand and perhaps some after it.  Nobody
\* looks at the errors that exec() resolves to: the handler goes on.
FinalizeLoses(p, j) ==
    /\ Fault("redis")
    /\ \/ At(p, j, "finalize") /\ \E pc \in {"store", "release", "leave"} : Goto(p, j, pc)
       \/ At(p, j, "store") /\ \E pc \in {"release", "leave"} : Goto(p, j, pc)
       \/ At(p, j, "release") /\ Goto(p, j, "leave")
    /\ UNCHANGED <<storeVars, queueVars, wskip, consumed, calls>>
    /\ WorkerFrame

HandlerFault(p, j) == RedisFails(p, j) \/ ReplyLost(p, j) \/ FinalizeLoses(p, j)

HandlerStep(p, j) ==
    \/ ReadMeta(p, j) \/ MarkInProgress(p, j)
    \/ TakeTokens(p, j) \/ HitMinuteLimit(p, j) \/ HitDayLimit(p, j)
    \/ FlagTokens(p, j) \/ Requeue(p, j) \/ DelayJob(p, j)
    \/ ReachProvider(p, j) \/ CallProvider(p, j) \/ NoApiName(p, j)
    \/ ProviderReached(p, j) \/ FinalizeMeta(p, j) \/ StoreAnswer(p, j)
    \/ ReleaseOwnSlot(p, j) \/ LeaveBacklog(p, j)
    \/ Return(p, j) \/ Throw(p, j)
=============================================================================

---------------------------- MODULE FailedEvents --------------------------
(***************************************************************************)
(* worker/queueEvents.ts: every worker process listens to the failed       *)
(* events of both queues and settles each failed job: model tokens back,   *)
(* result and metadata written, slot released, backlog decremented.  And   *)
(* the life of a worker process, because an event that a process had not   *)
(* finished handling dies with it.                                         *)
(*                                                                         *)
(* hpc[p][j] is the command the handler is to run next: idle, refund       *)
(* (returnTokens), write, mark and release (the pipeline's result,         *)
(* metadata and slot), leave (decrAndClampToZero); hsnap[p][j] is what it  *)
(* decided on from the metadata it read.  The completed handler only logs. *)
(***************************************************************************)
EXTENDS WorkerPipeline

FailedEventsTypeOK ==
    /\ hpc \in [Procs -> [Jobs -> {"idle", "refund", "write", "mark", "release",
                                   "leave"}]]
    /\ hsnap \in [Procs -> [Jobs -> [owner: BOOLEAN, model: {"none", "id", "api"}]]]

NoSnap == [owner |-> FALSE, model |-> "none"]

FailedEventsInit ==
    /\ hpc = [p \in Procs |-> [j \in Jobs |-> "idle"]]
    /\ hsnap = [p \in Procs |-> [j \in Jobs |-> NoSnap]]

\* What no step of the failed handler touches.
FailedEventsFrame ==
    UNCHANGED <<userRpd, bull, sub, up, workerVars, cron, envVars, consumed, calls>>

-----------------------------------------------------------------------------
\* Mutant: tokens_consumed is not consulted.
RefundDueUntaken(mt) ==
    mt.owner /\ mt.model # "none" /\ mt.provider # "true"

\* Tokens go back when they were taken and the provider call is not recorded
\* as completed.
RefundDue(mt) ==
    mt.owner /\ mt.model # "none" /\ mt.tokens /\ mt.provider # "true"

\* Mutant: the handler skips a job whose metadata does not name the owner.
OnFailedOfOwner(p, j) ==
    /\ up[p] /\ j \in events[p] /\ hpc[p][j] = "idle"
    /\ events' = [events EXCEPT ![p] = @ \ {j}]
    /\ hsnap' = [hsnap EXCEPT ![p][j] = [owner |-> meta[j].owner,
                                         model |-> meta[j].model]]
    /\ hpc' = [hpc EXCEPT ![p][j] =
                  IF ~meta[j].owner THEN "idle"
                  ELSE IF RefundDue(meta[j]) THEN "refund"
                  ELSE "write"]
    /\ UNCHANGED <<storeVars, refunded>>
    /\ FailedEventsFrame

\* The handler reads the job's state and its metadata.  A failed job stays
\* failed unless it is removed, so isFinalAttempt holds at the time of the event
\* and later.  A job without metadata is skipped.
OnFailed(p, j) ==
    /\ up[p] /\ j \in events[p] /\ hpc[p][j] = "idle"
    /\ events' = [events EXCEPT ![p] = @ \ {j}]
    /\ hsnap' = [hsnap EXCEPT ![p][j] = [owner |-> meta[j].owner,
                                         model |-> meta[j].model]]
    /\ hpc' = [hpc EXCEPT ![p][j] =
                  IF meta[j] = EmptyMeta THEN "idle"
                  ELSE IF RefundDue(meta[j]) THEN "refund"
                  ELSE "write"]
    /\ UNCHANGED <<storeVars, refunded>>
    /\ FailedEventsFrame

\* returnTokens(model).  When processed_model is an api name, the counters that
\* are decremented are not those of the model the tokens came from.
GiveTokensBack(p, j) ==
    /\ hpc[p][j] = "refund"
    /\ IF hsnap[p][j].model = "id"
       THEN ReturnTokens(sub[j].model, j)
       ELSE UNCHANGED <<rpm, rpd, refunded>>
    /\ hpc' = [hpc EXCEPT ![p][j] = "write"]
    /\ UNCHANGED <<meta, result, slots, waiting, events, hsnap>>
    /\ FailedEventsFrame

\* The pipeline's HSET of the result.
WriteFailure(p, j) ==
    /\ hpc[p][j] = "write"
    /\ result' = [result EXCEPT ![j] = "failed"]
    /\ hpc' = [hpc EXCEPT ![p][j] = "mark"]
    /\ UNCHANGED <<meta, slots, waiting, rpm, rpd, events, hsnap, refunded>>
    /\ FailedEventsFrame

\* The pipeline's HSET of the metadata.  The error message on the stream is in
\* ResultStream.
MarkFailure(p, j) ==
    /\ hpc[p][j] = "mark"
    /\ meta' = [meta EXCEPT ![j].status = "failed"]
    /\ hpc' = [hpc EXCEPT ![p][j] = "release"]
    /\ UNCHANGED <<result, slots, waiting, rpm, rpd, events, hsnap, refunded>>
    /\ FailedEventsFrame

\* Where the handler goes after the pipeline: decrAndClampToZero needs a model.
AfterPipeline(p, j) == IF hsnap[p][j].model = "none" THEN "idle" ELSE "leave"

\* Mutant: the slot of a failed job is left to expire.
KeepFailedSlot(p, j) ==
    /\ hpc[p][j] = "release"
    /\ hpc' = [hpc EXCEPT ![p][j] = AfterPipeline(p, j)]
    /\ UNCHANGED <<storeVars, events, hsnap, refunded>>
    /\ FailedEventsFrame

\* The pipeline's ZREM, which it contains when the metadata named the owner.
ReleaseFailedSlot(p, j) ==
    /\ hpc[p][j] = "release"
    /\ IF hsnap[p][j].owner THEN ReleaseSlot(j) ELSE UNCHANGED slots
    /\ hpc' = [hpc EXCEPT ![p][j] = AfterPipeline(p, j)]
    /\ UNCHANGED <<meta, result, waiting, rpm, rpd, events, hsnap, refunded>>
    /\ FailedEventsFrame

\* decrAndClampToZero on the backlog of the model the handler read.
LeaveAfterFailure(p, j) ==
    /\ hpc[p][j] = "leave"
    /\ IF hsnap[p][j].model = "id"
       THEN LeaveWaiting(sub[j].model)
       ELSE UNCHANGED waiting
    /\ hpc' = [hpc EXCEPT ![p][j] = "idle"]
    /\ hsnap' = [hsnap EXCEPT ![p][j] = NoSnap]
    /\ UNCHANGED <<meta, result, slots, rpm, rpd, events, refunded>>
    /\ FailedEventsFrame

FailedEventsStep(p, j) ==
    \/ OnFailed(p, j) \/ GiveTokensBack(p, j) \/ WriteFailure(p, j)
    \/ MarkFailure(p, j) \/ ReleaseFailedSlot(p, j) \/ LeaveAfterFailure(p, j)

\* Commands of the pipeline fail, the one at hand and perhaps some after it; exec()
\* resolves and the handler goes on.
FailureLoses(p, j) ==
    /\ Fault("redis")
    /\ \/ /\ hpc[p][j] = "write"
          /\ \E pc \in {"mark", "release", AfterPipeline(p, j)} :
                hpc' = [hpc EXCEPT ![p][j] = pc]
       \/ /\ hpc[p][j] = "mark"
          /\ \E pc \in {"release", AfterPipeline(p, j)} :
                hpc' = [hpc EXCEPT ![p][j] = pc]
       \/ /\ hpc[p][j] = "release"
          /\ hpc' = [hpc EXCEPT ![p][j] = AfterPipeline(p, j)]
    /\ UNCHANGED <<storeVars, queueVars, sub, up, workerVars, hsnap, cron, age, day,
                   historyVars>>

-----------------------------------------------------------------------------
NoHandler(p) == \A j \in Jobs : wpc[p][j] = "idle"

\* The process is gone with its handlers, the events it had not handled, and
\* the renewal of its locks.  What it had written stays.
Gone(p) ==
    /\ up' = [up EXCEPT ![p] = FALSE]
    /\ wpc' = [wpc EXCEPT ![p] = [j \in Jobs |-> "idle"]]
    /\ wskip' = [wskip EXCEPT ![p] = [j \in Jobs |-> FALSE]]
    /\ hpc' = [hpc EXCEPT ![p] = [j \in Jobs |-> "idle"]]
    /\ hsnap' = [hsnap EXCEPT ![p] = [j \in Jobs |-> NoSnap]]
    /\ events' = [events EXCEPT ![p] = {}]
    /\ bull' = [j \in Jobs |-> IF bull[j].lock = p
                               THEN [bull[j] EXCEPT !.lock = NoProc]
                               ELSE bull[j]]
    /\ UNCHANGED <<meta, result, slots, userRpd, rpm, rpd, sub, cron, age, day,
                   historyVars>>

\* The process dies at any point.
Crash(p) == up[p] /\ Fault("crash") /\ Gone(p) /\ UNCHANGED waiting

\* shutdown() in index.ts: closing the workers waits for the running jobs;
\* closing QueueEvents and Redis does not wait for the failed handlers.
Shutdown(p) ==
    up[p] /\ NoHandler(p) /\ Fault("shutdown") /\ Gone(p) /\ UNCHANGED waiting

\* A command of a listener that is not part of the pipeline fails: getJob (of the
\* completed handler too), getState and hgetall at idle, returnTokens at refund, or at
\* write when only its reply was lost, decrAndClampToZero at leave, before or after it
\* took effect.  The listener is async and nobody catches its rejection, which ends the
\* process.
ListenerRejects(p, j) ==
    /\ up[p]
    /\ Fault("redis")
    /\ \/ /\ \/ hpc[p][j] = "idle" /\ (j \in events[p] \/ bull[j].st = "completed")
             \/ hpc[p][j] \in {"refund", "write", "leave"}
          /\ UNCHANGED waiting
       \/ /\ hpc[p][j] = "leave" /\ hsnap[p][j].model = "id"
          /\ LeaveWaiting(sub[j].model)
    /\ Gone(p)

\* start() in index.ts: listeners first, from the events to come, then workers.
Restart(p) ==
    /\ ~up[p]
    /\ up' = [up EXCEPT ![p] = TRUE]
    /\ UNCHANGED <<storeVars, queueVars, sub, workerVars, handlerVars, cron, envVars,
                   historyVars>>
=============================================================================

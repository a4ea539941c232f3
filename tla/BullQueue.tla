----------------------------- MODULE BullQueue ----------------------------
(***************************************************************************)
(* The two BullMQ queues (lite and hard) as the repository uses them.  The *)
(* library is external: its behaviour is taken from the calls and options  *)
(* in worker/createWorker.ts (lockDuration, stalledInterval,               *)
(* maxStalledCount 1) and plugins/redis.ts (attempts 2, fixed backoff,     *)
(* nothing removed on completion or failure).                              *)
(*                                                                         *)
(*   - A job is handed to one worker at a time, which holds its lock.      *)
(*   - Only the holder of the lock can complete, fail or delay the job.    *)
(*   - A job whose lock has expired is stalled: it goes back to waiting,   *)
(*     and fails for good at stall number MaxStalled + 1.                  *)
(*   - A failed event is published when a job fails for good, to every     *)
(*     process that listens at that moment, and is not kept for others.    *)
(***************************************************************************)
EXTENDS PipelineState

BullStates == {"none", "waiting", "active", "delayed", "completed", "failed",
               "removed"}

\* att counts the attempts BullMQ has charged, stalls the lost locks.
BullRecord == [st: BullStates, att: Nat, stalls: Nat, lock: Procs \cup {NoProc}]

QueueTypeOK ==
    /\ bull \in [Jobs -> BullRecord]
    /\ events \in [Procs -> SUBSET Jobs]

QueueInit ==
    /\ bull = [j \in Jobs |-> [st |-> "none", att |-> 0, stalls |-> 0,
                               lock |-> NoProc]]
    /\ events = [p \in Procs |-> {}]

Pending(j)  == bull[j].st \in {"waiting", "active", "delayed"}
Holds(p, j) == bull[j].st = "active" /\ bull[j].lock = p

-----------------------------------------------------------------------------
\* Queue.add
Enqueued(j) == bull' = [bull EXCEPT ![j].st = "waiting"]

\* QueueEvents 'failed', broadcast to the processes that are up.
PublishFailed(j) ==
    events' = [p \in Procs |-> IF up[p] THEN events[p] \cup {j} ELSE events[p]]

\* Worker takes a waiting job.
Locked(p, j) ==
    bull' = [bull EXCEPT ![j] = [@ EXCEPT !.st = "active", !.lock = p]]

\* job.moveToDelayed, called while the lock is held; it counts no attempt.
Delayed(j) ==
    bull' = [bull EXCEPT ![j] = [@ EXCEPT !.st = "delayed", !.lock = NoProc]]

\* The processor returned.
Completed(j) ==
    bull' = [bull EXCEPT ![j] = [@ EXCEPT !.st = "completed", !.lock = NoProc]]

\* The processor threw, with an UnrecoverableError when fatal.
Failed(j, fatal) ==
    LET final == fatal \/ bull[j].att + 1 >= Attempts
        next  == IF final THEN "failed" ELSE "delayed"
    IN  /\ bull' = [bull EXCEPT ![j] = [@ EXCEPT !.st = next, !.lock = NoProc,
                                                 !.att = bull[j].att + 1]]
        /\ IF final THEN PublishFailed(j) ELSE UNCHANGED events

\* job.remove, which refuses a job that a worker has locked.
Removable(j) == bull[j].lock = NoProc
Removed(j)   == bull' = [bull EXCEPT ![j].st = "removed"]

-----------------------------------------------------------------------------
\* What the queue does on its own.
QueueFrame == UNCHANGED <<storeVars, sub, up, workerVars, handlerVars, cron,
                          age, day, historyVars>>

\* The delay of a retry or of a rate-limited job is over.
PromoteDelayed(j) ==
    /\ bull[j].st = "delayed"
    /\ bull' = [bull EXCEPT ![j].st = "waiting"]
    /\ UNCHANGED <<events, faults>>
    /\ QueueFrame

\* The stalled check of a live worker finds an active job without a lock.
RecoverStalled(j) ==
    /\ Holds(NoProc, j)
    /\ \E p \in Procs : up[p]
    /\ LET final == bull[j].stalls >= MaxStalled
           next  == IF final THEN "failed" ELSE "waiting"
       IN  /\ bull' = [bull EXCEPT ![j] = [@ EXCEPT !.st = next,
                                                    !.stalls = bull[j].stalls + 1]]
           /\ IF final THEN PublishFailed(j) ELSE UNCHANGED events
    /\ UNCHANGED faults
    /\ QueueFrame

\* The lock expires while the handler is still running: the process was paused
\* or cut off from Redis for longer than lockDuration.
LoseLock(j) ==
    /\ bull[j].st = "active" /\ bull[j].lock # NoProc
    /\ Fault("lockLost")
    /\ bull' = [bull EXCEPT ![j].lock = NoProc]
    /\ UNCHANGED events
    /\ QueueFrame
=============================================================================

-------------------------- MODULE ExclusionProofs --------------------------
(***************************************************************************)
(* What holds as long as certain faults are absent: who works on a job,    *)
(* what is given back for it, and what the counters in Redis say of the    *)
(* jobs they count.  Each theorem names the faults it excludes.            *)
(***************************************************************************)
EXTENDS PipelineProofs

-----------------------------------------------------------------------------
(* Without lost locks a handler holds its job.                             *)

\* The handler of j in p is between fetching the job and giving it up.
Runs(p, j) == wpc[p][j] \notin {"idle", "return"}

\* A handler that runs holds the lock of its job.
HandlerHolds == \A p \in Procs, j \in Jobs : Runs(p, j) => Holds(p, j)

\* A handler starts with Fetch and gives its job up when it delays it, returns or
\* throws.
LEMMA RunsMoves ==
    ASSUME TypeOK, NEW p \in Procs, NEW j \in Jobs,
           Fetch(p, j) \/ HandlerStep(p, j) \/ HandlerFault(p, j)
    PROVE  /\ Runs(p, j)' => Fetch(p, j) \/ Runs(p, j)
           /\ DelayJob(p, j) /\ Holds(p, j) => ~Runs(p, j)'
           /\ Return(p, j) \/ Throw(p, j) => ~Runs(p, j)'
           /\ \A q \in Procs, i \in Jobs : q # p \/ i # j => (Runs(q, i)' <=> Runs(q, i))
<1>1. \A q \in Procs, i \in Jobs : q # p \/ i # j => (Runs(q, i)' <=> Runs(q, i))
  BY HandlerWrites DEF Runs
<1>2. /\ DelayJob(p, j) /\ Holds(p, j) => ~Runs(p, j)'
      /\ Return(p, j) \/ Throw(p, j) => ~Runs(p, j)'
  BY GotoMoves DEF DelayJob, Return, Throw, Runs
<1>3. Runs(p, j)' => Fetch(p, j) \/ Runs(p, j)
  <2>1. CASE Return(p, j) \/ Throw(p, j)
    BY <1>2, <2>1
  <2>2. CASE HandlerFault(p, j) \/ (HandlerStep(p, j) /\ ~Return(p, j))
    BY <2>2 DEF HandlerFault, RedisFails, RedisPcs, ReplyLost, FinalizeLoses, HandlerStep,
                ReadMeta, MarkInProgress, TakeTokens, HitMinuteLimit, HitDayLimit, Refused,
                FlagTokens, Requeue, DelayJob, ReachProvider, CallProvider, NoApiName,
                ProviderReached, FinalizeMeta, StoreAnswer, ReleaseOwnSlot, LeaveBacklog,
                Throw, At, Runs
  <2>3. QED
    BY <2>1, <2>2
<1>4. QED
  BY <1>1, <1>2, <1>3

\* A lock is taken from a handler by its own process alone, unless it is lost.
LEMMA NextHolds ==
    ASSUME "lockLost" \notin Environment
    PROVE  TypeOK /\ WithinBudget /\ HandlerHolds /\ [Next]_vars => HandlerHolds'
<1> SUFFICES ASSUME TypeOK, WithinBudget, HandlerHolds, [Next]_vars PROVE HandlerHolds'
  OBVIOUS
<1> USE DEF HandlerHolds
<1>1. ASSUME NEW j \in Jobs,
             SubmissionStep(j) \/ EnqueueFails(j) \/ WebDies(j)
      PROVE  HandlerHolds'
  <2>1. UNCHANGED workerVars /\ \A i \in Jobs \ {j} : bull'[i] = bull[i]
    BY <1>1, SubmissionWrites DEF SubmissionFrame
  <2>2. bull'[j] = bull[j] \/ bull[j].st = "none"
    <3>1. AddJob(j) => sub[j].add # "done"
      BY DEF AddJob
    <3>2. QED
      BY <1>1, <3>1, SubmissionWrites DEF WithinBudget, AddedOnce
  <2>3. QED
    BY <2>1, <2>2 DEF Holds, Runs, workerVars
<1>2. ASSUME NEW j \in Jobs, PromoteDelayed(j) \/ RecoverStalled(j) \/ LoseLock(j)
      PROVE  HandlerHolds'
  <2>1. UNCHANGED workerVars /\ \A i \in Jobs \ {j} : bull'[i] = bull[i]
    BY <1>2, QueueWrites DEF QueueFrame
  <2>2. \A p \in Procs : ~Holds(p, j)
    BY <1>2, QueueAssumption DEF PromoteDelayed, RecoverStalled, LoseLock, Fault, Holds
  <2>3. QED
    BY <2>1, <2>2 DEF Holds, Runs, workerVars
<1>3. ASSUME NEW p \in Procs, NEW j \in Jobs,
             Fetch(p, j) \/ HandlerStep(p, j) \/ HandlerFault(p, j)
      PROVE  HandlerHolds'
  <2>1. \A q \in Procs, i \in Jobs \ {j} : Runs(q, i)' => Holds(q, i)'
    BY <1>3, RunsMoves, HandlerWrites DEF Holds
  <2>2. ASSUME NEW q \in Procs \ {p}, Runs(q, j)' PROVE Holds(q, j)'
    <3>1. Holds(q, j)
      BY <1>3, <2>2, RunsMoves
    <3>2. bull'[j] = bull[j]
      BY <1>3, <3>1, HandlerMoves DEF Holds
    <3>3. QED
      BY <3>1, <3>2 DEF Holds
  <2>3. ASSUME Runs(p, j)' PROVE Holds(p, j)'
    BY <1>3, <2>3, RunsMoves, HandlerMoves DEF Holds
  <2>4. QED
    BY <2>1, <2>2, <2>3
<1>4. ASSUME UNCHANGED <<bull, workerVars>> PROVE HandlerHolds'
  BY <1>4 DEF Holds, Runs, workerVars
<1>5. ASSUME NEW p \in Procs, NEW j \in Jobs,
             FailedEventsStep(p, j) \/ FailureLoses(p, j)
      PROVE  HandlerHolds'
  BY <1>4, <1>5, FailedWrites
<1>6. ASSUME NEW p \in Procs, ProcessStep(p)
      PROVE  HandlerHolds'
  <2>1. CASE UNCHANGED <<bull, workerVars>>
    BY <1>4, <2>1
  <2>2. CASE \A i \in Jobs : wpc'[p][i] = "idle"
    <3>1. ASSUME NEW q \in Procs, NEW i \in Jobs, Runs(q, i)' PROVE Holds(q, i)'
      <4>1. q # p /\ wpc'[q] = wpc[q]
        BY <1>6, <2>2, <3>1, ProcessWrites DEF Runs
      <4>2. Holds(q, i)
        BY <3>1, <4>1 DEF Runs
      <4>3. QED
        BY <1>6, <4>1, <4>2, ProcessWrites DEF Holds
    <3>2. QED
      BY <3>1
  <2>3. QED
    BY <1>6, <2>1, <2>2, ProcessWrites
<1>7. CASE ExpiryStep \/ CronDies \/ \E u \in Users : CleanupSlots(u)
  <2>1. UNCHANGED workerVars
    BY <1>7, CronWrites DEF CronFrame
  <2>2. \A i \in Jobs : bull'[i] = bull[i] \/ bull[i].lock = NoProc
    BY <1>7, CronWrites DEF Removable
  <2>3. QED
    BY <2>1, <2>2, QueueAssumption DEF Holds, Runs, workerVars
<1>8. CASE Midnight \/ (\E j \in Jobs : Age(j)) \/ \E m \in Models : MinuteElapses(m)
  BY <1>4, <1>8, TimeWrites DEF queueVars
<1>9. CASE Rest \/ UNCHANGED vars
  BY <1>4, <1>9 DEF Rest, vars, queueVars
<1>10. QED
  BY <1>1, <1>2, <1>3, <1>5, <1>6, <1>7, <1>8, <1>9 DEF Next, ProcessStep

\* Who removes a job: the cron, and only a job without a lock.
LEMMA RemovedUnlocked ==
    ASSUME TypeOK, [Next]_vars, NEW i \in Jobs,
           bull'[i].st = "removed", bull[i].st # "removed"
    PROVE  Removable(i) /\ RemoveStale(i)
<1>1. ASSUME NEW j \in Jobs,
             SubmissionStep(j) \/ EnqueueFails(j) \/ WebDies(j)
      PROVE  FALSE
  <2>1. AddJob(j) => bull'[j].st # "removed"
    BY DEF AddJob, Enqueued, TypeOK, QueueTypeOK, BullRecord
  <2>2. QED
    BY <1>1, <2>1, SubmissionWrites
<1>2. ASSUME NEW j \in Jobs, PromoteDelayed(j) \/ RecoverStalled(j) \/ LoseLock(j)
      PROVE  FALSE
  BY <1>2, QueueWrites, QueueMoves
<1>3. ASSUME NEW p \in Procs, NEW j \in Jobs,
             Fetch(p, j) \/ HandlerStep(p, j) \/ HandlerFault(p, j)
      PROVE  FALSE
  BY <1>3, HandlerWrites, HandlerMoves
<1>4. ASSUME NEW p \in Procs, NEW j \in Jobs,
             FailedEventsStep(p, j) \/ FailureLoses(p, j)
      PROVE  FALSE
  BY <1>4, FailedWrites
<1>5. ASSUME NEW p \in Procs, ProcessStep(p)
      PROVE  FALSE
  BY <1>5, ProcessWrites
<1>6. CASE ExpiryStep \/ CronDies \/ \E u \in Users : CleanupSlots(u)
  BY <1>6, CronWrites
<1>7. CASE Midnight \/ (\E j \in Jobs : Age(j)) \/ \E m \in Models : MinuteElapses(m)
  BY <1>7, TimeWrites DEF queueVars
<1>8. CASE Rest \/ UNCHANGED vars
  BY <1>8 DEF Rest, vars, queueVars
<1>9. QED
  BY <1>1, <1>2, <1>3, <1>4, <1>5, <1>6, <1>7, <1>8 DEF Next, ProcessStep

\* Initially no handler runs.
LEMMA InitHolds == Init => HandlerHolds
BY DEF Init, WorkerInit, HandlerHolds, Runs

\* The cron never removes a job under its worker, as long as workers renew their locks
\* in time: job.remove() refuses a locked job, and every handler that runs holds the
\* lock of its job, through delays, retries and crashes of other processes.  A handler
\* whose lock was lost keeps running without it, and then the cron may remove its job.
THEOREM RemovedJobsAreIdle ==
    ASSUME "lockLost" \notin Environment
    PROVE  Spec => NeverRemovedUnderWorker
<1>1. TypeOK /\ HandlerHolds /\ [Next]_vars =>
         [\A j \in Jobs : bull'[j].st = "removed" /\ bull[j].st # "removed"
                             => ~Working(j)]_vars
  <2> SUFFICES ASSUME TypeOK, HandlerHolds, [Next]_vars, NEW j \in Jobs,
                      bull'[j].st = "removed", bull[j].st # "removed"
               PROVE  ~Working(j)
    OBVIOUS
  <2>1. bull[j].lock = NoProc
    BY RemovedUnlocked DEF Removable
  <2>2. \A p \in Procs : ~Runs(p, j)
    BY <2>1, QueueAssumption DEF HandlerHolds, Holds
  <2>3. QED
    BY <2>2 DEF Working, Runs
<1>2. TypeOK /\ WithinBudget /\ HandlerHolds /\ [Next]_vars => HandlerHolds'
  BY NextHolds
<1>3. QED
  BY <1>1, <1>2, InitHolds, InitType, InitBudget, NextType, NextScanned, NextBudget, PTL
     DEF Spec, NeverRemovedUnderWorker

-----------------------------------------------------------------------------
(* Sets that are counted.                                                   *)

\* One more element makes a finite set larger by one at most.
LEMMA AddAtMostOne ==
    ASSUME NEW S, IsFiniteSet(S), NEW x
    PROVE  /\ IsFiniteSet(S \cup {x}) /\ Cardinality(S \cup {x}) \in Nat
           /\ Cardinality(S \cup {x}) <= Cardinality(S) + 1
<1>1. Cardinality(S) \in Nat
  BY FS_CardinalityType
<1>2. CASE x \in S
  <2>1. S \cup {x} = S
    BY <1>2
  <2>2. Cardinality(S \cup {x}) = Cardinality(S) /\ IsFiniteSet(S \cup {x})
    BY <2>1
  <2>3. QED
    BY <1>1, <2>2
<1>3. CASE x \notin S
  <2>1. Cardinality(S \cup {x}) = Cardinality(S) + 1 /\ IsFiniteSet(S \cup {x})
    BY <1>3, FS_AddElement
  <2>2. QED
    BY <1>1, <2>1
<1>4. QED
  BY <1>2, <1>3

-----------------------------------------------------------------------------
(* Refunds, as long as the cron has nothing to do.                          *)

\* No job is old enough for the cron.
NoneStale == cron = CronIdle /\ \A j \in Jobs : age[j] = 0

\* Failed events and their handlers are about jobs that failed for good.
AboutFailed ==
    \A p \in Procs, j \in Jobs :
        j \in events[p] \/ hpc[p][j] # "idle" => bull[j].st = "failed"

\* Jobs that do not age leave the cron idle.
LEMMA NextNoneStale ==
    ASSUME "aging" \notin Environment
    PROVE  TypeOK /\ NoneStale /\ [Next]_vars => NoneStale'
<1> SUFFICES ASSUME TypeOK, NoneStale, [Next]_vars PROVE NoneStale'
  OBVIOUS
<1>1. age' = age
  BY Writers
<1>2. cron.pc = "idle" /\ \A j \in Jobs : ~Stale(j)
  BY DEF NoneStale, CronIdle, Stale
<1>3. ~ExpiryStep /\ ~CronDies
  BY <1>2 DEF ExpiryStep, BeginExpiry, EndExpiry, ScanQueue, ReadStale, RemoveStale,
              RefundStale, ExpireStale, CronDies
<1>4. QED
  BY <1>1, <1>3, Writers DEF NoneStale

\* What BullMQ knows of a job changes in few ways: stalls are not forgotten, a failure
\* is final unless the cron removes the job, and it is told of when it happens.
LEMMA BullMoves ==
    ASSUME TypeOK, WithinBudget, NoneStale, [Next]_vars, NEW i \in Jobs
    PROVE  /\ bull'[i].stalls >= bull[i].stalls
           /\ bull[i].st = "failed" => bull'[i].st = "failed"
           /\ \A q \in Procs : i \in events'[q] =>
                 \/ i \in events[q]
                 \/ bull[i].st = "active" /\ bull'[i].st = "failed"
<1> DEFINE Moved == /\ bull'[i].stalls >= bull[i].stalls
                    /\ bull[i].st = "failed" => bull'[i].st = "failed"
                    /\ \A q \in Procs : i \in events'[q] =>
                          \/ i \in events[q]
                          \/ bull[i].st = "active" /\ bull'[i].st = "failed"
<1>0. bull[i].stalls \in Nat
  BY DEF TypeOK, QueueTypeOK, BullRecord
<1>1. ASSUME NEW j \in Jobs,
             SubmissionStep(j) \/ EnqueueFails(j) \/ WebDies(j)
      PROVE  Moved
  <2>1. AddJob(j) => bull[j].st = "none" /\ bull'[j].stalls = bull[j].stalls
    BY DEF AddJob, Enqueued, WithinBudget, AddedOnce, TypeOK, QueueTypeOK, BullRecord
  <2>2. events' = events
    BY <1>1, SubmissionWrites DEF SubmissionFrame
  <2>3. QED
    BY <1>0, <1>1, <2>1, <2>2, SubmissionWrites
<1>2. ASSUME NEW j \in Jobs, PromoteDelayed(j) \/ RecoverStalled(j) \/ LoseLock(j)
      PROVE  Moved
  <2>1. \A q \in Procs : events'[q] \subseteq events[q] \cup {j}
    BY <1>2 DEF PromoteDelayed, RecoverStalled, LoseLock, PublishFailed
  <2>2. CASE i = j
    BY <1>0, <1>2, <2>1, <2>2, QueueMoves DEF Holds
  <2>3. CASE i # j
    BY <1>0, <1>2, <2>1, <2>3, QueueWrites
  <2>4. QED
    BY <2>2, <2>3
<1>3. ASSUME NEW p \in Procs, NEW j \in Jobs,
             Fetch(p, j) \/ HandlerStep(p, j) \/ HandlerFault(p, j)
      PROVE  Moved
  <2>1. \A q \in Procs : events'[q] \subseteq events[q] \cup {j}
    <3>1. CASE Throw(p, j)
      BY <3>1 DEF Throw, Failed, PublishFailed, queueVars
    <3>2. QED
      BY <1>3, <3>1, HandlerMoves
  <2>2. CASE i = j
    <3>1. CASE Throw(p, j) /\ ~Holds(p, j)
      BY <1>0, <2>2, <3>1 DEF Throw, queueVars
    <3>2. CASE Throw(p, j) /\ Holds(p, j)
      BY <1>0, <1>3, <2>1, <2>2, <3>2, HandlerMoves DEF Holds
    <3>3. CASE ~Throw(p, j)
      BY <1>0, <1>3, <2>2, <3>3, HandlerMoves DEF Holds
    <3>4. QED
      BY <3>1, <3>2, <3>3
  <2>3. CASE i # j
    BY <1>0, <1>3, <2>1, <2>3, HandlerWrites
  <2>4. QED
    BY <2>2, <2>3
<1>4. ASSUME NEW p \in Procs, NEW j \in Jobs,
             FailedEventsStep(p, j) \/ FailureLoses(p, j)
      PROVE  Moved
  BY <1>0, <1>4, FailedWrites
<1>5. ASSUME NEW p \in Procs, ProcessStep(p)
      PROVE  Moved
  <2>1. \A q \in Procs : events'[q] \subseteq events[q]
    BY <1>5, ProcessWrites
  <2>2. QED
    BY <1>0, <1>5, <2>1, ProcessWrites
<1>6. CASE ExpiryStep \/ CronDies \/ \E u \in Users : CleanupSlots(u)
  <2>1. ~RemoveStale(i)
    BY DEF NoneStale, CronIdle, RemoveStale
  <2>2. QED
    BY <1>0, <1>6, <2>1, CronWrites
<1>7. CASE Midnight \/ (\E j \in Jobs : Age(j)) \/ \E m \in Models : MinuteElapses(m)
  BY <1>0, <1>7, TimeWrites DEF queueVars
<1>8. CASE Rest \/ UNCHANGED vars
  BY <1>0, <1>8 DEF Rest, vars, queueVars
<1>9. QED
  BY <1>1, <1>2, <1>3, <1>4, <1>5, <1>6, <1>7, <1>8 DEF Next, ProcessStep

\* Who handles a failed job, who is about to refund, who takes and who gives back tokens.
LEMMA Refunders ==
    ASSUME TypeOK, [Next]_vars, NEW i \in Jobs
    PROVE  /\ \A q \in Procs : hpc'[q][i] # "idle" => hpc[q][i] # "idle" \/ OnFailed(q, i)
           /\ \A q \in Procs : hpc'[q][i] = "refund" =>
                 hpc[q][i] = "refund" \/ (OnFailed(q, i) /\ RefundDue(meta[i]))
           /\ \/ refunded'[i] = refunded[i]
              \/ RefundStale(i)
              \/ /\ refunded'[i] = refunded[i] + 1
                 /\ \E p \in Procs : GiveTokensBack(p, i)
           /\ consumed'[i] >= consumed[i]
<1> DEFINE Moved == /\ \A q \in Procs :
                          hpc'[q][i] # "idle" => hpc[q][i] # "idle" \/ OnFailed(q, i)
                    /\ \A q \in Procs : hpc'[q][i] = "refund" =>
                          hpc[q][i] = "refund" \/ (OnFailed(q, i) /\ RefundDue(meta[i]))
                    /\ \/ refunded'[i] = refunded[i]
                       \/ RefundStale(i)
                       \/ /\ refunded'[i] = refunded[i] + 1
                          /\ \E p \in Procs : GiveTokensBack(p, i)
                    /\ consumed'[i] >= consumed[i]
<1>0. consumed[i] \in Nat /\ refunded[i] \in Nat
  BY DEF TypeOK, HistoryTypeOK
<1>1. ASSUME NEW j \in Jobs,
             SubmissionStep(j) \/ EnqueueFails(j) \/ WebDies(j)
      PROVE  Moved
  BY <1>0, <1>1, SubmissionWrites DEF SubmissionFrame, handlerVars, historyVars
<1>2. ASSUME NEW j \in Jobs, PromoteDelayed(j) \/ RecoverStalled(j) \/ LoseLock(j)
      PROVE  Moved
  BY <1>0, <1>2, QueueWrites DEF QueueFrame, handlerVars, historyVars
<1>3. ASSUME NEW p \in Procs, NEW j \in Jobs,
             Fetch(p, j) \/ HandlerStep(p, j) \/ HandlerFault(p, j)
      PROVE  Moved
  <2>1. hpc' = hpc /\ refunded' = refunded
    BY <1>3, HandlerWrites DEF WorkerFrame, handlerVars
  <2>2. consumed'[i] \in {consumed[i], consumed[i] + 1}
    <3>1. CASE TakeTokens(p, j)
      BY <3>1 DEF TakeTokens, TypeOK, HistoryTypeOK
    <3>2. CASE ~TakeTokens(p, j)
      <4>1. consumed' = consumed
        BY <1>3, <3>2
           DEF Fetch, HandlerFault, RedisFails, ReplyLost, FinalizeLoses, HandlerStep,
               ReadMeta, MarkInProgress, HitMinuteLimit, HitDayLimit, Refused, FlagTokens,
               Requeue, DelayJob, ReachProvider, CallProvider, NoApiName, ProviderReached,
               FinalizeMeta, StoreAnswer, ReleaseOwnSlot, LeaveBacklog, Return, Throw,
               OnlyMeta
      <4>2. QED
        BY <4>1
    <3>3. QED
      BY <3>1, <3>2
  <2>3. QED
    BY <1>0, <2>1, <2>2
<1>4. ASSUME NEW p \in Procs, NEW j \in Jobs,
             FailedEventsStep(p, j) \/ FailureLoses(p, j)
      PROVE  Moved
  <2>1. /\ consumed'[i] = consumed[i]
        /\ \A q \in Procs : q # p \/ i # j => hpc'[q][i] = hpc[q][i]
        /\ i # j => refunded'[i] = refunded[i]
    BY <1>4, FailedWrites
  <2>2. /\ hpc[p][j] # "idle" \/ OnFailed(p, j)
        /\ hpc'[p][j] = "refund" => OnFailed(p, j) /\ RefundDue(meta[j])
        /\ \/ refunded'[j] = refunded[j]
           \/ refunded'[j] = refunded[j] + 1 /\ GiveTokensBack(p, j)
    <3>1. CASE OnFailed(p, j)
      BY <3>1 DEF OnFailed, TypeOK, FailedEventsTypeOK
    <3>2. CASE GiveTokensBack(p, j)
      BY <3>2 DEF GiveTokensBack, ReturnTokens, TypeOK, FailedEventsTypeOK, HistoryTypeOK
    <3>3. CASE WriteFailure(p, j) \/ MarkFailure(p, j)
      BY <3>3 DEF WriteFailure, MarkFailure, TypeOK, FailedEventsTypeOK
    <3>4. CASE ReleaseFailedSlot(p, j) \/ LeaveAfterFailure(p, j)
      BY <3>4 DEF ReleaseFailedSlot, AfterPipeline, LeaveAfterFailure, TypeOK,
                  FailedEventsTypeOK
    <3>5. CASE FailureLoses(p, j)
      <4>1. /\ hpc[p][j] \in {"write", "mark", "release"} /\ refunded' = refunded
            /\ \E pc \in {"idle", "mark", "release", "leave"} :
                  hpc' = [hpc EXCEPT ![p][j] = pc]
        BY <3>5 DEF FailureLoses, AfterPipeline, historyVars
      <4>2. QED
        BY <4>1 DEF TypeOK, FailedEventsTypeOK
    <3>6. QED
      BY <1>4, <3>1, <3>2, <3>3, <3>4, <3>5 DEF FailedEventsStep
  <2>3. QED
    BY <1>0, <1>4, <2>1, <2>2
<1>5. ASSUME NEW p \in Procs, ProcessStep(p)
      PROVE  Moved
  BY <1>0, <1>5, ProcessWrites DEF historyVars, handlerVars
<1>6. CASE ExpiryStep \/ CronDies \/ \E u \in Users : CleanupSlots(u)
  BY <1>0, <1>6, CronWrites DEF CronFrame, handlerVars
<1>7. CASE Midnight \/ (\E j \in Jobs : Age(j)) \/ \E m \in Models : MinuteElapses(m)
  BY <1>0, <1>7, TimeWrites DEF handlerVars, historyVars
<1>8. CASE Rest \/ UNCHANGED vars
  BY <1>0, <1>8 DEF Rest, vars, handlerVars, historyVars
<1>9. QED
  BY <1>1, <1>2, <1>3, <1>4, <1>5, <1>6, <1>7, <1>8 DEF Next, ProcessStep

\* A failed event is published when a job fails for good, and the handler starts with it.
LEMMA NextAboutFailed ==
    TypeOK /\ WithinBudget /\ NoneStale /\ AboutFailed /\ [Next]_vars => AboutFailed'
<1> SUFFICES ASSUME TypeOK, WithinBudget, NoneStale, AboutFailed, [Next]_vars,
                    NEW p \in Procs, NEW i \in Jobs,
                    i \in events'[p] \/ hpc'[p][i] # "idle"
             PROVE  bull'[i].st = "failed"
  BY DEF AboutFailed
<1>1. CASE i \in events'[p]
  BY <1>1, BullMoves DEF AboutFailed
<1>2. CASE hpc'[p][i] # "idle"
  <2>1. hpc[p][i] # "idle" \/ i \in events[p]
    BY <1>2, Refunders DEF OnFailed
  <2>2. QED
    BY <2>1, BullMoves DEF AboutFailed
<1>3. QED
  BY <1>1, <1>2

\* Initially nothing is old or failed.
LEMMA InitRefunds == Init => NoneStale /\ AboutFailed
BY DEF Init, CronInit, EnvInit, QueueInit, FailedEventsInit, NoneStale, AboutFailed

\* With one process a failed job is settled once.
RefundedOnce ==
    \A j \in Jobs :
        /\ refunded[j] <= 1 /\ (refunded[j] > 0 => consumed[j] > 0 /\ bull[j].st = "failed")
        /\ \A p \in Procs :
              /\ j \in events[p] => hpc[p][j] = "idle" /\ refunded[j] = 0
              /\ hpc[p][j] = "refund" => refunded[j] = 0 /\ consumed[j] > 0

\* The one handler of a failed job takes its event, and gives the tokens back once.
LEMMA NextRefundedOnce ==
    ASSUME \A p, q \in Procs : p = q
    PROVE  TypeOK /\ WithinBudget /\ NothingUnpaid /\ NoneStale /\ AboutFailed
               /\ RefundedOnce /\ [Next]_vars => RefundedOnce'
<1> SUFFICES ASSUME TypeOK, WithinBudget, NothingUnpaid, NoneStale, AboutFailed,
                    RefundedOnce, [Next]_vars, NEW j \in Jobs
             PROVE  /\ refunded'[j] <= 1
                    /\ refunded'[j] > 0 => consumed'[j] > 0 /\ bull'[j].st = "failed"
                    /\ \A p \in Procs :
                          /\ j \in events'[p] => hpc'[p][j] = "idle" /\ refunded'[j] = 0
                          /\ hpc'[p][j] = "refund" => refunded'[j] = 0 /\ consumed'[j] > 0
  BY DEF RefundedOnce
<1>1. /\ refunded[j] \in Nat /\ consumed[j] \in Nat /\ consumed'[j] \in Nat
      /\ consumed'[j] >= consumed[j]
      /\ refunded[j] <= 1 /\ (refunded[j] > 0 => consumed[j] > 0 /\ bull[j].st = "failed")
  BY NextType, Refunders DEF TypeOK, HistoryTypeOK, RefundedOnce
<1>2. \A p \in Procs : /\ j \in events[p] => hpc[p][j] = "idle" /\ refunded[j] = 0
                       /\ hpc[p][j] = "refund" => refunded[j] = 0 /\ consumed[j] > 0
                       /\ j \in events[p] \/ hpc[p][j] # "idle" => bull[j].st = "failed"
  BY DEF RefundedOnce, AboutFailed
<1>3. ~RefundStale(j)
  BY DEF NoneStale, CronIdle, RefundStale
<1>4. \/ refunded'[j] = refunded[j]
      \/ /\ refunded'[j] = refunded[j] + 1
         /\ \A p \in Procs : hpc[p][j] = "refund" /\ hpc'[p][j] = "write"
  <2>1. \A p \in Procs : GiveTokensBack(p, j) => hpc[p][j] = "refund" /\ hpc'[p][j] = "write"
    BY DEF GiveTokensBack, TypeOK, FailedEventsTypeOK
  <2>2. QED
    BY <1>3, <2>1, Refunders
<1>5. bull[j].st = "failed" => bull'[j].st = "failed"
  BY BullMoves
<1>6. refunded'[j] <= 1 /\ (refunded'[j] > 0 => consumed'[j] > 0 /\ bull'[j].st = "failed")
  <2>1. CASE refunded'[j] = refunded[j]
    BY <1>1, <1>5, <2>1
  <2>2. CASE refunded'[j] = refunded[j] + 1 /\ \E p \in Procs : hpc[p][j] = "refund"
    BY <1>1, <1>2, <1>5, <2>2
  <2>3. CASE Procs = {}
    <3>1. ~\E p \in Procs : GiveTokensBack(p, j)
      BY <2>3
    <3>2. refunded'[j] = refunded[j]
      BY <1>3, <3>1, Refunders
    <3>3. QED
      BY <2>1, <3>2
  <2>4. QED
    BY <1>4, <2>1, <2>2, <2>3
<1>7. ASSUME NEW p \in Procs, j \in events'[p]
      PROVE  hpc'[p][j] = "idle" /\ refunded'[j] = 0
  <2>1. hpc[p][j] = "idle" /\ refunded[j] = 0
    BY <1>1, <1>2, <1>7, BullMoves
  <2>2. ~OnFailed(p, j)
    BY <1>7 DEF OnFailed, TypeOK, QueueTypeOK
  <2>3. QED
    BY <1>4, <2>1, <2>2, Refunders
<1>8. ASSUME NEW p \in Procs, hpc'[p][j] = "refund"
      PROVE  refunded'[j] = 0 /\ consumed'[j] > 0
  <2>1. refunded'[j] = refunded[j]
    BY <1>4, <1>8
  <2>2. refunded[j] = 0 /\ consumed[j] > 0
    <3>1. CASE hpc[p][j] = "refund"
      BY <1>2, <3>1
    <3>2. CASE OnFailed(p, j) /\ RefundDue(meta[j])
      BY <1>1, <1>2, <3>2 DEF OnFailed, RefundDue, NothingUnpaid, Unpaid
    <3>3. QED
      BY <1>8, <3>1, <3>2, Refunders
  <2>3. QED
    BY <1>1, <2>1, <2>2
<1>9. QED
  BY <1>6, <1>7, <1>8

\* Initially nothing is refunded.
LEMMA InitRefundedOnce == Init => RefundedOnce
BY DEF Init, HistoryInit, QueueInit, FailedEventsInit, RefundedOnce

\* Tokens given back for a job never exceed the tokens taken for it, for every number of
\* jobs, users and models, with one worker process: its failed handler gives them back at
\* most once, and only if the metadata says they were taken.  Every process handles every
\* failed event, so with two of them a job may be refunded twice; and the cron may refund
\* a job that fails while it looks at it.
THEOREM RefundsAreCovered ==
    ASSUME "aging" \notin Environment, \A p, q \in Procs : p = q
    PROVE  Spec => []RefundsWithinConsumption
<1>1. TypeOK /\ RefundedOnce => RefundsWithinConsumption
  BY DEF TypeOK, HistoryTypeOK, RefundedOnce, RefundsWithinConsumption
<1>2. TypeOK /\ NoneStale /\ [Next]_vars => NoneStale'
  BY NextNoneStale
<1>3. TypeOK /\ WithinBudget /\ NothingUnpaid /\ NoneStale /\ AboutFailed
          /\ RefundedOnce /\ [Next]_vars => RefundedOnce'
  BY NextRefundedOnce
<1>4. Init => NothingUnpaid
  BY DEF Init, StoreInit, HistoryInit, WorkerInit, EmptyMeta, NothingUnpaid, Unpaid, PaidPcs
<1>5. QED
  BY <1>1, <1>2, <1>3, <1>4, InitType, NextType, InitBudget, NextScanned, NextBudget,
     InitRefunds, NextAboutFailed, NextPays, InitRefundedOnce, PTL DEF Spec

-----------------------------------------------------------------------------
(* The backlog of a model, with one worker process that is not cut off from *)
(* its jobs and requests whose promises do not fail.                        *)

\* queue.add follows INCR, and no request has undone it.
AddFollowsIncr ==
    \A j \in Jobs : /\ sub[j].pc \in {"idle", "select", "incr", "full", "rejected"}
                           => sub[j].add = "pending"
                    /\ sub[j].pc \notin {"undo", "error"}

\* A process handles a failed job once.
EventsFirst == \A p \in Procs, j \in Jobs : j \in events[p] => hpc[p][j] = "idle"

\* A handler that leaves the backlog, or has left it and still has its job, has written
\* the result.
LeavesSettled ==
    \A p \in Procs, j \in Jobs :
        wpc[p][j] = "leave" \/ (wpc[p][j] = "return" /\ Holds(p, j)) => result[j] # "none"

\* The job has been counted in queue:waiting and has not been taken off: its request has
\* incremented and not queued it, it is in its queue or with a handler that has not left
\* the backlog, or it failed and its failed handler has not left it.
HasLeft(j) == \E p \in Procs : Holds(p, j) /\ wpc[p][j] = "return"
InBacklog(j) ==
    \/ bull[j].st = "none" /\ sub[j].pc \in {"full", "enqueue"}
    \/ Pending(j) /\ ~HasLeft(j)
    \/ bull[j].st = "failed" /\ \E p \in Procs : j \in events[p] \/ hpc[p][j] # "idle"
Backlog(m)  == {j \in OnModel(m) : InBacklog(j)}
Admitted(m) == {j \in Backlog(m) : sub[j].pc # "full"}

BacklogCounted ==
    \A m \in Models : /\ Cardinality(Backlog(m)) <= waiting[m]
                      /\ Cardinality(Admitted(m)) <= MaxQueueLength[m]

\* The tokens of the job were taken and have not been given back.
Spent(j) == consumed[j] > 0 /\ refunded[j] = 0
SpentCounted ==
    \A m \in Models : ModelRpd[m] > 0 =>
        /\ Cardinality({j \in OnModel(m) : Spent(j)}) <= rpd[m]
        /\ rpd[m] <= ModelRpd[m]

\* An answered job is over, or with the handler that answered it.
AnswerHeld ==
    \A j \in Jobs : result[j] = "completed" =>
        \/ bull[j].st = "completed"
        \/ \E p \in Procs : Holds(p, j) /\ wpc[p][j] \in {"release", "leave", "return"}

\* What a request does about the backlog.
LEMMA RequestSteps ==
    ASSUME TypeOK, AddFollowsIncr, "addFails" \notin Environment, NEW j \in Jobs,
           SubmissionStep(j) \/ EnqueueFails(j) \/ WebDies(j)
    PROVE  /\ sub'[j].pc \in {"idle", "select", "incr", "full", "rejected"}
                 => sub'[j].add = "pending"
           /\ sub'[j].pc \notin {"undo", "error"}
           /\ sub'[j].pc \in {"full", "enqueue"} =>
                 sub'[j].pc = sub[j].pc \/ CountWaiting(j)
           /\ AddJob(j) => sub[j].pc = "enqueue" /\ bull'[j].st = "waiting"
           /\ CountWaiting(j) =>
                 /\ sub[j].pc = "incr" /\ sub'[j].model = sub[j].model
                 /\ sub'[j].pc = IF BacklogFull(sub[j].model) THEN "full" ELSE "enqueue"
           /\ UndoWaiting(j) => sub[j].pc = "full" /\ sub'[j].pc = "rejected"
<1> USE DEF AddFollowsIncr, TypeOK, SubmissionTypeOK
<1>1. CASE StartSubmission(j) \/ SkipUnloaded(j) \/ SkipExhausted(j)
  <2>1. CASE StartSubmission(j)
    BY <2>1 DEF StartSubmission, AddJob, InFlight, CountWaiting, UndoWaiting
  <2>2. CASE SkipUnloaded(j)
    BY <2>2 DEF SkipUnloaded, AtCandidate, AddJob, InFlight, CountWaiting, UndoWaiting
  <2>3. CASE SkipExhausted(j)
    BY <2>3 DEF SkipExhausted, AtLoaded, AtCandidate, AddJob, InFlight, CountWaiting,
                UndoWaiting
  <2>4. QED
    BY <1>1, <2>1, <2>2, <2>3
<1>2. CASE RefuseUser(j) \/ NoModelLeft(j)
  <2>1. sub[j].pc = "select" /\ sub' = [sub EXCEPT ![j].pc = "rejected"]
    BY <1>2 DEF RefuseUser, NoModelLeft, AtLoaded, AtCandidate
  <2>2. QED
    BY <2>1 DEF AddJob, InFlight, CountWaiting, UndoWaiting
<1>3. CASE AcquireCandidate(j)
  BY <1>3, AcquireMoves DEF AddJob, InFlight, CountWaiting, UndoWaiting
<1>4. CASE CountWaiting(j)
  BY <1>4 DEF CountWaiting, AddJob, InFlight, UndoWaiting
<1>5. CASE UndoWaiting(j) \/ UndoEnqueue(j)
  BY <1>5 DEF UndoWaiting, UndoEnqueue, AddJob, InFlight, CountWaiting
<1>6. CASE AddJob(j)
  <2>1. sub[j].pc = "enqueue"
    BY <1>6 DEF AddJob, InFlight
  <2>2. sub'[j].pc \in {"enqueue", "accepted"} /\ bull'[j].st = "waiting"
    BY <1>6, <2>1 DEF AddJob, Joined, Enqueued, QueueTypeOK, BullRecord
  <2>3. QED
    BY <1>6, <2>1, <2>2 DEF AddJob, Joined, CountWaiting, UndoWaiting
<1>7. CASE PutMeta(j)
  <2>1. sub[j].pc = "enqueue"
    BY <1>7 DEF PutMeta, InFlight
  <2>2. sub'[j].pc \in {"enqueue", "accepted"}
    BY <1>7, <2>1 DEF PutMeta, Joined
  <2>3. AddJob(j) => bull'[j].st = "waiting"
    BY DEF AddJob, Enqueued, QueueTypeOK, BullRecord
  <2>4. sub'[j].pc = "enqueue" => sub'[j].pc = sub[j].pc
    BY <2>1
  <2>5. QED
    BY <2>1, <2>2, <2>3, <2>4 DEF CountWaiting, UndoWaiting
<1>8. CASE EnqueueFails(j)
  BY <1>8 DEF EnqueueFails, Fault
<1>9. CASE WebDies(j)
  <2>1. sub' = [sub EXCEPT ![j].pc = "dead"] /\ ~CountWaiting(j) /\ ~UndoWaiting(j)
    <3>1. sub' = [sub EXCEPT ![j].pc = "dead"]
      BY <1>9 DEF WebDies
    <3>2. sub'[j].pc = "dead"
      BY <3>1
    <3>3. QED
      BY <3>1, <3>2 DEF CountWaiting, UndoWaiting
  <2>2. ~AddJob(j)
    <3>1. AddJob(j) => sub'[j].pc \in {"accepted", sub[j].pc}
      BY DEF AddJob, Joined
    <3>2. sub[j].pc # "dead" /\ sub'[j].pc = "dead"
      BY <1>9, <2>1 DEF WebDies, Answered
    <3>3. QED
      BY <3>1, <3>2
  <2>3. QED
    BY <2>1, <2>2
<1>10. QED
  BY <1>1, <1>2, <1>3, <1>4, <1>5, <1>6, <1>7, <1>8, <1>9 DEF SubmissionStep

\* The request of a job counts it before it queues it.
LEMMA NextAddFollowsIncr ==
    ASSUME "addFails" \notin Environment
    PROVE  TypeOK /\ AddFollowsIncr /\ [Next]_vars => AddFollowsIncr'
<1> SUFFICES ASSUME TypeOK, AddFollowsIncr, [Next]_vars, NEW j \in Jobs
             PROVE  /\ sub'[j].pc \in {"idle", "select", "incr", "full", "rejected"}
                          => sub'[j].add = "pending"
                    /\ sub'[j].pc \notin {"undo", "error"}
  BY DEF AddFollowsIncr
<1>1. CASE sub'[j] = sub[j]
  BY <1>1 DEF AddFollowsIncr
<1>2. CASE SubmissionStep(j) \/ EnqueueFails(j) \/ WebDies(j)
  BY <1>2, RequestSteps
<1>3. QED
  BY <1>1, <1>2, Writers

\* A process whose handler of a failed job runs gets no further event of it.
LEMMA NextEventsFirst ==
    TypeOK /\ WithinBudget /\ NoneStale /\ AboutFailed /\ EventsFirst /\ [Next]_vars
        => EventsFirst'
<1> SUFFICES ASSUME TypeOK, WithinBudget, NoneStale, AboutFailed, EventsFirst, [Next]_vars,
                    NEW p \in Procs, NEW j \in Jobs, j \in events'[p]
             PROVE  hpc'[p][j] = "idle"
  BY DEF EventsFirst
<1>1. hpc[p][j] = "idle"
  BY BullMoves DEF EventsFirst, AboutFailed
<1>2. ~OnFailed(p, j)
  BY DEF OnFailed, TypeOK, QueueTypeOK
<1>3. QED
  BY <1>1, <1>2, Refunders

\* Only a handler of the job moves on, and only by fetching it a process gets its lock.
LEMMA Handling ==
    ASSUME TypeOK, [Next]_vars, NEW r \in Procs, NEW i \in Jobs
    PROVE  /\ \/ wpc'[r][i] \in {wpc[r][i], "idle"}
              \/ Fetch(r, i) \/ HandlerStep(r, i) \/ HandlerFault(r, i)
           /\ Holds(r, i)' => Holds(r, i) \/ Fetch(r, i)
<1> DEFINE Moved == /\ \/ wpc'[r][i] \in {wpc[r][i], "idle"}
                       \/ Fetch(r, i) \/ HandlerStep(r, i) \/ HandlerFault(r, i)
                    /\ Holds(r, i)' => Holds(r, i) \/ Fetch(r, i)
<1> USE DEF Holds
<1>1. ASSUME NEW j \in Jobs,
             SubmissionStep(j) \/ EnqueueFails(j) \/ WebDies(j)
      PROVE  Moved
  <2>1. AddJob(j) => bull'[j].st = "waiting"
    BY DEF AddJob, Enqueued, TypeOK, QueueTypeOK, BullRecord
  <2>2. QED
    BY <1>1, <2>1, SubmissionWrites DEF SubmissionFrame, workerVars
<1>2. ASSUME NEW j \in Jobs, PromoteDelayed(j) \/ RecoverStalled(j) \/ LoseLock(j)
      PROVE  Moved
  BY <1>2, QueueWrites, QueueMoves, QueueAssumption DEF QueueFrame, workerVars
<1>3. ASSUME NEW p \in Procs, NEW j \in Jobs,
             Fetch(p, j) \/ HandlerStep(p, j) \/ HandlerFault(p, j)
      PROVE  Moved
  <2>1. CASE i = j
    <3>1. Holds(r, i)' => Holds(r, i) \/ Fetch(r, i)
      BY <1>3, <2>1, HandlerMoves, QueueAssumption
    <3>2. QED
      BY <1>3, <2>1, <3>1, HandlerWrites
  <2>2. CASE i # j
    BY <1>3, <2>2, HandlerWrites
  <2>3. QED
    BY <2>1, <2>2
<1>4. ASSUME NEW p \in Procs, NEW j \in Jobs,
             FailedEventsStep(p, j) \/ FailureLoses(p, j)
      PROVE  Moved
  BY <1>4, FailedWrites DEF workerVars
<1>5. ASSUME NEW p \in Procs, ProcessStep(p)
      PROVE  Moved
  BY <1>5, ProcessWrites, QueueAssumption DEF workerVars
<1>6. CASE ExpiryStep \/ CronDies \/ \E u \in Users : CleanupSlots(u)
  BY <1>6, CronWrites DEF CronFrame, workerVars
<1>7. CASE Midnight \/ (\E j \in Jobs : Age(j)) \/ \E m \in Models : MinuteElapses(m)
  BY <1>7, TimeWrites DEF queueVars, workerVars
<1>8. CASE Rest \/ UNCHANGED vars
  BY <1>8 DEF Rest, vars, queueVars, workerVars
<1>9. QED
  BY <1>1, <1>2, <1>3, <1>4, <1>5, <1>6, <1>7, <1>8 DEF Next, ProcessStep

\* The handler writes the result before it leaves the backlog, if no command fails.
LEMMA NextLeavesSettled ==
    ASSUME "redis" \notin Environment
    PROVE  TypeOK /\ ResultFirst /\ LeavesSettled /\ [Next]_vars => LeavesSettled'
<1> SUFFICES ASSUME TypeOK, ResultFirst, LeavesSettled, [Next]_vars,
                    NEW p \in Procs, NEW j \in Jobs,
                    wpc'[p][j] = "leave" \/ (wpc'[p][j] = "return" /\ Holds(p, j)')
             PROVE  result'[j] # "none"
  BY DEF LeavesSettled
<1>1. result[j] # "none" => result'[j] # "none"
  BY Settles
<1>2. CASE wpc'[p][j] = wpc[p][j]
  <2>1. ~Fetch(p, j)
    BY <1>2, GotoMoves DEF Fetch, At
  <2>2. QED
    BY <1>1, <1>2, <2>1, Handling DEF LeavesSettled
<1>3. CASE Fetch(p, j) \/ HandlerStep(p, j)
  <2>1. CASE ReleaseOwnSlot(p, j)
    BY <1>1, <2>1 DEF ReleaseOwnSlot, ResultFirst
  <2>2. CASE LeaveBacklog(p, j)
    BY <1>1, <2>2 DEF LeaveBacklog, At, LeavesSettled
  <2>3. CASE DelayJob(p, j)
    <3>1. Holds(p, j) => ~Holds(p, j)' /\ wpc'[p][j] # "leave"
      BY <2>3, HandlerMoves, GotoMoves DEF HandlerStep, Holds, DelayJob
    <3>2. ~Holds(p, j) => wpc'[p][j] = "throw"
      BY <2>3, GotoMoves DEF DelayJob
    <3>3. QED
      BY <3>1, <3>2
  <2>4. CASE \/ Fetch(p, j) \/ ReadMeta(p, j) \/ MarkInProgress(p, j)
             \/ TakeTokens(p, j) \/ HitMinuteLimit(p, j) \/ HitDayLimit(p, j)
             \/ FlagTokens(p, j) \/ Requeue(p, j) \/ ReachProvider(p, j)
             \/ CallProvider(p, j) \/ NoApiName(p, j) \/ ProviderReached(p, j)
             \/ FinalizeMeta(p, j) \/ StoreAnswer(p, j) \/ Return(p, j) \/ Throw(p, j)
    <3>1. wpc'[p][j] \notin {"leave", "return"}
      BY <2>4, GotoMoves
         DEF Fetch, ReadMeta, MarkInProgress, TakeTokens, HitMinuteLimit,
             HitDayLimit, Refused, FlagTokens, Requeue, ReachProvider, CallProvider,
             NoApiName, ProviderReached, FinalizeMeta, StoreAnswer, Return, Throw
    <3>2. QED
      BY <3>1
  <2>5. QED
    BY <1>3, <2>1, <2>2, <2>3, <2>4 DEF HandlerStep
<1>4. ~HandlerFault(p, j)
  BY DEF HandlerFault, RedisFails, ReplyLost, FinalizeLoses, Fault
<1>5. QED
  BY <1>2, <1>3, <1>4, Handling

\* A job is counted by the INCR of its request alone.
LEMMA BacklogMoves ==
    ASSUME TypeOK, WithinBudget, HandlerHolds, NoneStale, AboutFailed, AddFollowsIncr,
           [Next]_vars, NEW i \in Jobs, InBacklog(i)',
           \A k \in {"addFails", "lockLost", "crash", "redis"} : k \notin Environment
    PROVE  InBacklog(i) \/ CountWaiting(i)
<1> USE DEF InBacklog
<1>1. ASSUME NEW j \in Jobs,
             SubmissionStep(j) \/ EnqueueFails(j) \/ WebDies(j)
      PROVE  InBacklog(i) \/ CountWaiting(i)
  <2>1. UNCHANGED <<wpc, hpc, events>>
    BY <1>1, SubmissionWrites DEF SubmissionFrame, workerVars, handlerVars
  <2>2. CASE bull'[i] = bull[i]
    <3>1. sub'[i].pc \in {"full", "enqueue"} => sub'[i].pc = sub[i].pc \/ CountWaiting(i)
      BY <1>1, RequestSteps, SubmissionWrites
    <3>2. QED
      BY <2>1, <2>2, <3>1 DEF Pending, HasLeft, Holds
  <2>3. CASE i = j /\ AddJob(j)
    BY <1>1, <2>3, RequestSteps DEF AddJob, WithinBudget, AddedOnce
  <2>4. QED
    BY <1>1, <2>2, <2>3, SubmissionWrites
<1>2. ASSUME NEW j \in Jobs, PromoteDelayed(j) \/ RecoverStalled(j) \/ LoseLock(j)
      PROVE  InBacklog(i)
  <2>1. UNCHANGED <<wpc, hpc, sub>>
    BY <1>2, QueueWrites DEF QueueFrame, workerVars, handlerVars
  <2>2. CASE i = j
    <3>1. Pending(i) /\ ~HasLeft(i)
      BY <1>2, <2>2, QueueAssumption
         DEF PromoteDelayed, RecoverStalled, LoseLock, Fault, Pending, HasLeft, Holds
    <3>2. QED
      BY <3>1
  <2>3. CASE i # j
    <3>1. bull'[i] = bull[i]
      BY <1>2, <2>3, QueueWrites
    <3>2. \A q \in Procs : i \in events'[q] => i \in events[q] \/ bull[i].st = "active"
      BY BullMoves
    <3>3. QED
      BY <2>1, <3>1, <3>2 DEF Pending, HasLeft, Holds
  <2>4. QED
    BY <2>2, <2>3
<1>3. ASSUME NEW p \in Procs, NEW j \in Jobs,
             Fetch(p, j) \/ HandlerStep(p, j) \/ HandlerFault(p, j)
      PROVE  InBacklog(i)
  <2>1. UNCHANGED <<hpc, sub>>
    BY <1>3, HandlerWrites DEF WorkerFrame, handlerVars
  <2>2. \A q \in Procs : i \in events'[q] =>
           i \in events[q] \/ (bull[i].st = "active" /\ bull'[i].st = "failed")
    BY BullMoves
  <2>3. CASE i # j
    <3>1. bull'[i] = bull[i] /\ \A q \in Procs : wpc'[q][i] = wpc[q][i]
      BY <1>3, <2>3, HandlerWrites
    <3>2. QED
      BY <2>1, <2>2, <3>1 DEF Pending, HasLeft, Holds
  <2>4. CASE i = j /\ Fetch(p, j)
    BY <2>4, HandlerMoves DEF Pending, HasLeft, Holds
  <2>5. CASE i = j /\ bull'[j] = bull[j]
    <3>1. HasLeft(i) => HasLeft(i)'
      <4>1. ASSUME NEW q \in Procs, Holds(q, i), wpc[q][i] = "return"
            PROVE  Holds(q, i)' /\ wpc'[q][i] = "return"
        <5>1. Holds(q, i)'
          BY <2>5, <4>1 DEF Holds
        <5>2. CASE q = p
          <6>1. Return(p, j)
            BY <1>3, <2>5, <4>1, <5>2
               DEF Fetch, HandlerFault, RedisFails, ReplyLost, FinalizeLoses, Fault,
                   HandlerStep, ReadMeta, MarkInProgress, TakeTokens, HitMinuteLimit,
                   HitDayLimit, Refused, FlagTokens, Requeue, DelayJob, ReachProvider,
                   CallProvider, NoApiName, ProviderReached, FinalizeMeta, StoreAnswer,
                   ReleaseOwnSlot, LeaveBacklog, Throw, At
          <6>2. bull'[j].st # "active"
            BY <1>3, <2>5, <4>1, <5>2, <6>1, HandlerMoves
          <6>3. QED
            BY <5>1, <6>2, <2>5 DEF Holds
        <5>3. CASE q # p
          BY <1>3, <4>1, <5>1, <5>3, HandlerWrites
        <5>4. QED
          BY <5>2, <5>3
      <4>2. QED
        BY <4>1 DEF HasLeft
    <3>2. QED
      BY <2>1, <2>2, <2>5, <3>1 DEF Pending
  <2>6. CASE i = j /\ (DelayJob(p, j) \/ Throw(p, j)) /\ Holds(p, j)
    <3>1. wpc[p][j] # "return" /\ \A q \in Procs : Holds(q, j) => q = p
      BY <2>6 DEF DelayJob, Throw, At, Holds
    <3>2. QED
      BY <2>6, <3>1 DEF Pending, HasLeft, Holds
  <2>7. CASE i = j /\ Return(p, j) /\ Holds(p, j)
    <3>1. ~DelayJob(p, j)
      BY <2>7 DEF Return, DelayJob, At
    <3>2. bull'[j].st = "completed"
      BY <1>3, <2>7, <3>1, HandlerMoves
    <3>3. QED
      BY <2>7, <3>2 DEF Pending
  <2>8. QED
    BY <1>3, <2>3, <2>4, <2>5, <2>6, <2>7, HandlerMoves
<1>4. ASSUME NEW p \in Procs, NEW j \in Jobs,
             FailedEventsStep(p, j) \/ FailureLoses(p, j)
      PROVE  InBacklog(i)
  <2>1. /\ UNCHANGED <<bull, wpc, sub>>
        /\ \A q \in Procs : events'[q] \subseteq events[q]
    BY <1>4, FailedWrites DEF workerVars
  <2>2. \A q \in Procs : hpc'[q][i] # "idle" => hpc[q][i] # "idle" \/ i \in events[q]
    BY Refunders DEF OnFailed
  <2>3. QED
    BY <2>1, <2>2 DEF Pending, HasLeft, Holds
<1>5. ASSUME NEW p \in Procs, ProcessStep(p)
      PROVE  InBacklog(i)
  <2>1. Shutdown(p) \/ Restart(p)
    BY <1>5 DEF ProcessStep, Crash, ListenerRejects, Fault
  <2>2. sub' = sub /\ bull'[i].st = bull[i].st
    BY <1>5, ProcessWrites
  <2>3. ASSUME HasLeft(i) PROVE HasLeft(i)'
    <3>1. PICK q \in Procs : Holds(q, i) /\ wpc[q][i] = "return"
      BY <2>3 DEF HasLeft
    <3>2. CASE q = p /\ Shutdown(p)
      BY <3>1, <3>2 DEF Shutdown, NoHandler
    <3>3. CASE q # p
      BY <1>5, <3>1, <3>3, ProcessWrites DEF HasLeft, Holds
    <3>4. CASE Restart(p)
      BY <3>1, <3>4 DEF Restart, queueVars, workerVars, HasLeft, Holds
    <3>5. QED
      BY <1>5, <2>1, <3>2, <3>3, <3>4
  <2>4. \A q \in Procs : /\ i \in events'[q] => i \in events[q]
                         /\ hpc'[q][i] # "idle" => hpc[q][i] # "idle"
    BY <1>5, ProcessWrites DEF handlerVars
  <2>5. QED
    BY <2>2, <2>3, <2>4 DEF Pending
<1>6. CASE ExpiryStep \/ CronDies \/ \E u \in Users : CleanupSlots(u)
  <2>1. ~RemoveStale(i)
    BY DEF NoneStale, CronIdle, RemoveStale
  <2>2. bull'[i] = bull[i] /\ UNCHANGED <<wpc, hpc, sub, events>>
    BY <1>6, <2>1, CronWrites DEF CronFrame, workerVars, handlerVars
  <2>3. QED
    BY <2>2 DEF Pending, HasLeft, Holds
<1>7. CASE Midnight \/ (\E j \in Jobs : Age(j)) \/ \E m \in Models : MinuteElapses(m)
  BY <1>7, TimeWrites DEF queueVars, workerVars, handlerVars, Pending, HasLeft, Holds
<1>8. CASE Rest \/ UNCHANGED vars
  BY <1>8 DEF Rest, vars, queueVars, workerVars, handlerVars, Pending, HasLeft, Holds
<1>9. QED
  BY <1>1, <1>2, <1>3, <1>4, <1>5, <1>6, <1>7, <1>8 DEF Next, ProcessStep

\* Who writes queue:waiting.
LEMMA WaitingWriters ==
    ASSUME TypeOK, [Next]_vars, "redis" \notin Environment
    PROVE  \/ waiting' = waiting
           \/ \E j \in Jobs : CountWaiting(j) \/ UndoWaiting(j) \/ UndoEnqueue(j)
                                 \/ ExpireStale(j)
           \/ \E p \in Procs, j \in Jobs : LeaveBacklog(p, j) \/ LeaveAfterFailure(p, j)
<1>1. ASSUME NEW j \in Jobs, SubmissionStep(j) \/ EnqueueFails(j) \/ WebDies(j)
      PROVE  waiting' = waiting \/ CountWaiting(j) \/ UndoWaiting(j) \/ UndoEnqueue(j)
  BY <1>1 DEF SubmissionStep, StartSubmission, SkipUnloaded, AcquireCandidate, SkipExhausted,
              RefuseUser, NoModelLeft, AddJob, PutMeta, EnqueueFails, WebDies
<1>2. ASSUME NEW j \in Jobs, PromoteDelayed(j) \/ RecoverStalled(j) \/ LoseLock(j)
      PROVE  waiting' = waiting
  BY <1>2, QueueWrites DEF QueueFrame, storeVars
<1>3. ASSUME NEW p \in Procs, NEW j \in Jobs,
             Fetch(p, j) \/ HandlerStep(p, j) \/ HandlerFault(p, j)
      PROVE  waiting' = waiting \/ LeaveBacklog(p, j)
  <2>1. CASE \/ MarkInProgress(p, j) \/ FlagTokens(p, j) \/ Requeue(p, j)
             \/ ReachProvider(p, j) \/ ProviderReached(p, j) \/ FinalizeMeta(p, j)
             \/ StoreAnswer(p, j) \/ ReleaseOwnSlot(p, j) \/ TakeTokens(p, j)
    BY <2>1 DEF MarkInProgress, FlagTokens, Requeue, ReachProvider, ProviderReached,
                FinalizeMeta, StoreAnswer, ReleaseOwnSlot, TakeTokens, OnlyMeta
  <2>2. CASE \/ Fetch(p, j) \/ ReadMeta(p, j) \/ HitMinuteLimit(p, j)
             \/ HitDayLimit(p, j) \/ DelayJob(p, j) \/ CallProvider(p, j)
             \/ NoApiName(p, j) \/ Return(p, j) \/ Throw(p, j)
    BY <2>2 DEF Fetch, ReadMeta, HitMinuteLimit, HitDayLimit, Refused, DelayJob,
                CallProvider, NoApiName, Return, Throw, storeVars
  <2>3. ~HandlerFault(p, j)
    BY DEF HandlerFault, RedisFails, ReplyLost, FinalizeLoses, Fault
  <2>4. QED
    BY <1>3, <2>1, <2>2, <2>3 DEF HandlerStep
<1>4. ASSUME NEW p \in Procs, NEW j \in Jobs,
             FailedEventsStep(p, j) \/ FailureLoses(p, j)
      PROVE  waiting' = waiting \/ LeaveAfterFailure(p, j)
  BY <1>4 DEF FailedEventsStep, OnFailed, GiveTokensBack, WriteFailure, MarkFailure,
              ReleaseFailedSlot, FailureLoses, storeVars
<1>5. ASSUME NEW p \in Procs, ProcessStep(p)
      PROVE  waiting' = waiting
  BY <1>5, ProcessWrites
<1>6. CASE ExpiryStep \/ CronDies \/ \E u \in Users : CleanupSlots(u)
  <2>1. waiting' = waiting \/ \E j \in Jobs : ExpireStale(j)
    BY <1>6 DEF ExpiryStep, BeginExpiry, EndExpiry, ScanQueue, ReadStale, RemoveStale,
                RefundStale, CronDies, CleanupSlots, storeVars
  <2>2. QED
    BY <2>1
<1>7. CASE Midnight \/ (\E j \in Jobs : Age(j)) \/ \E m \in Models : MinuteElapses(m)
  BY <1>7, TimeWrites
<1>8. CASE Rest \/ UNCHANGED vars
  BY <1>8 DEF Rest, vars, storeVars
<1>9. QED
  BY <1>1, <1>2, <1>3, <1>4, <1>5, <1>6, <1>7, <1>8 DEF Next, ProcessStep

\* What the count rests on: no lost lock, no dead worker, no failed promise, no failed
\* command, no expiry.
Unhurt ==
    \A k \in {"addFails", "lockLost", "crash", "redis", "aging"} : k \notin Environment
CountFacts ==
    /\ TypeOK /\ WithinBudget /\ HandlerHolds /\ NoneStale /\ AboutFailed
    /\ AddFollowsIncr /\ EventsFirst

\* The backlog of a model, and what was admitted to it, grow by the INCR alone.
LEMMA BacklogMembers ==
    ASSUME Unhurt, CountFacts, [Next]_vars, NEW m \in Models, NEW i \in Jobs
    PROVE  /\ i \in Backlog(m)' =>
                 i \in Backlog(m) \/ (CountWaiting(i) /\ sub[i].model = m)
           /\ i \in Admitted(m)' =>
                 i \in Admitted(m) \/ (CountWaiting(i) /\ ~BacklogFull(m) /\ sub[i].model = m)
<1> USE DEF CountFacts
<1>1. ASSUME i \in Backlog(m)'
      PROVE  i \in Backlog(m) \/ (CountWaiting(i) /\ sub[i].model = m)
  <2>1. ~AcquireCandidate(i)
    <3>1. SUFFICES ASSUME AcquireCandidate(i) PROVE FALSE
      OBVIOUS
    <3>2. sub[i].add = "pending" /\ bull' = bull /\ sub'[i].pc = "incr"
      BY <3>1, AcquireMoves DEF AddFollowsIncr, AcquireCandidate
    <3>3. bull'[i].st = "none"
      BY <3>2 DEF WithinBudget, AddedOnce
    <3>4. QED
      BY <1>1, <3>2, <3>3 DEF Backlog, InBacklog, Pending
  <2>2. sub'[i].model = sub[i].model
    BY <2>1, SubmissionMoves, Writers
  <2>3. InBacklog(i) \/ CountWaiting(i)
    BY <1>1, BacklogMoves DEF Backlog, Unhurt
  <2>4. QED
    BY <1>1, <2>2, <2>3 DEF Backlog, OnModel
<1>2. ASSUME i \in Admitted(m)'
      PROVE  i \in Admitted(m) \/ (CountWaiting(i) /\ ~BacklogFull(m) /\ sub[i].model = m)
  <2>1. i \in Backlog(m)' /\ sub'[i].pc # "full"
    BY <1>2 DEF Admitted
  <2>2. CASE CountWaiting(i) /\ sub[i].model = m
    <3>1. SubmissionStep(i)
      BY <2>2 DEF SubmissionStep
    <3>2. ~BacklogFull(m)
      BY <2>1, <2>2, <3>1, RequestSteps DEF Unhurt
    <3>3. QED
      BY <2>2, <3>2
  <2>3. CASE i \in Backlog(m) /\ sub[i].pc # "full"
    BY <2>3 DEF Admitted
  <2>4. CASE i \in Backlog(m) /\ sub[i].pc = "full"
    <3>1. bull[i].st = "none"
      BY <2>4 DEF AddFollowsIncr, WithinBudget, AddedOnce
    <3>2. SubmissionStep(i) \/ EnqueueFails(i) \/ WebDies(i)
      BY <2>1, <2>4, Writers
    <3>3. bull'[i].st = "none"
      BY <2>4, <3>1, <3>2, RequestSteps, SubmissionWrites DEF Unhurt
    <3>4. sub'[i].pc \notin {"full", "enqueue"} \/ CountWaiting(i)
      BY <2>1, <2>4, <3>2, RequestSteps DEF Unhurt
    <3>5. ~CountWaiting(i)
      BY <2>4 DEF CountWaiting
    <3>6. QED
      BY <2>1, <3>3, <3>4, <3>5 DEF Backlog, InBacklog, Pending
  <2>5. QED
    BY <1>1, <2>1, <2>2, <2>3, <2>4
<1>3. QED
  BY <1>1, <1>2

\* Whoever decrements takes a job off that was counted, and takes it off once.
LEMMA BacklogLeaves ==
    ASSUME Unhurt, CountFacts, [Next]_vars, \A p, q \in Procs : p = q, NEW j \in Jobs,
           \/ UndoWaiting(j)
           \/ \E p \in Procs : \/ LeaveBacklog(p, j)
                               \/ LeaveAfterFailure(p, j) /\ hsnap[p][j].model = "id"
    PROVE  /\ InBacklog(j) /\ ~InBacklog(j)'
           /\ \A m \in Models :
                 \/ m # sub[j].model /\ waiting'[m] = waiting[m]
                 \/ m = sub[j].model /\ waiting'[m] \in {waiting[m] - 1, DecrAndClamp(waiting[m])}
<1> USE DEF CountFacts
<1>1. CASE UndoWaiting(j)
  <2>1. sub[j].pc = "full" /\ sub'[j].pc = "rejected" /\ bull' = bull
    BY <1>1, RequestSteps DEF SubmissionStep, Unhurt, UndoWaiting
  <2>2. bull[j].st = "none"
    BY <2>1 DEF AddFollowsIncr, WithinBudget, AddedOnce
  <2>3. QED
    BY <1>1, <2>1, <2>2 DEF InBacklog, Pending, UndoWaiting, TypeOK, StoreTypeOK
<1>2. ASSUME NEW p \in Procs, LeaveBacklog(p, j)
      PROVE  /\ InBacklog(j) /\ ~InBacklog(j)'
             /\ \A m \in Models :
                 \/ m # sub[j].model /\ waiting'[m] = waiting[m]
                 \/ m = sub[j].model /\ waiting'[m] \in {waiting[m] - 1, DecrAndClamp(waiting[m])}
  <2>1. Holds(p, j) /\ wpc[p][j] = "leave"
    BY <1>2 DEF LeaveBacklog, At, HandlerHolds, Runs
  <2>2. Holds(p, j)' /\ wpc'[p][j] = "return"
    BY <1>2, <2>1, GotoMoves DEF LeaveBacklog, Holds, queueVars
  <2>3. \A q \in Procs : Holds(q, j) => q = p
    BY <2>1 DEF Holds
  <2>4. InBacklog(j) /\ ~InBacklog(j)'
    BY <2>1, <2>2, <2>3 DEF InBacklog, Pending, HasLeft, Holds
  <2>5. QED
    BY <1>2, <2>4 DEF LeaveBacklog, LeaveWaiting, TypeOK, StoreTypeOK
<1>3. ASSUME NEW p \in Procs, LeaveAfterFailure(p, j), hsnap[p][j].model = "id"
      PROVE  /\ InBacklog(j) /\ ~InBacklog(j)'
             /\ \A m \in Models :
                 \/ m # sub[j].model /\ waiting'[m] = waiting[m]
                 \/ m = sub[j].model /\ waiting'[m] \in {waiting[m] - 1, DecrAndClamp(waiting[m])}
  <2>1. /\ hpc[p][j] = "leave" /\ hpc'[p][j] = "idle" /\ UNCHANGED <<bull, events>>
    BY <1>3 DEF LeaveAfterFailure, FailedEventsFrame, TypeOK, FailedEventsTypeOK
  <2>2. bull[j].st = "failed" /\ j \notin events[p]
    BY <2>1 DEF AboutFailed, EventsFirst
  <2>3. InBacklog(j) /\ ~InBacklog(j)'
    BY <2>1, <2>2 DEF InBacklog, Pending
  <2>4. QED
    BY <1>3, <2>3 DEF LeaveAfterFailure, LeaveWaiting, TypeOK, StoreTypeOK
<1>4. QED
  BY <1>1, <1>2, <1>3

\* The backlog of a model is finite.
LEMMA BacklogFinite ==
    ASSUME NEW m
    PROVE  /\ IsFiniteSet(Backlog(m)) /\ Cardinality(Backlog(m)) \in Nat
           /\ Admitted(m) \subseteq Backlog(m)
           /\ IsFiniteSet(Admitted(m)) /\ Cardinality(Admitted(m)) \in Nat
<1>1. Backlog(m) \subseteq Jobs /\ Admitted(m) \subseteq Backlog(m)
  BY DEF Backlog, Admitted, OnModel
<1>2. QED
  BY <1>1, JobsAssumption, FS_Subset, FS_CardinalityType

\* The count never says less than there is, and what is admitted fits.
LEMMA NextBacklogCounted ==
    ASSUME Unhurt, \A p, q \in Procs : p = q
    PROVE  CountFacts /\ BacklogCounted /\ [Next]_vars => BacklogCounted'
<1> SUFFICES ASSUME CountFacts, BacklogCounted, [Next]_vars, NEW m \in Models
             PROVE  /\ Cardinality(Backlog(m)') <= waiting'[m]
                    /\ Cardinality(Admitted(m)') <= MaxQueueLength[m]
  BY DEF BacklogCounted
<1> DEFINE B == Backlog(m)
           A == Admitted(m)
<1>1. /\ IsFiniteSet(B) /\ Cardinality(B) \in Nat
      /\ IsFiniteSet(A) /\ Cardinality(A) \in Nat /\ A \subseteq B
  BY BacklogFinite
<1>2. /\ Cardinality(B) <= waiting[m] /\ Cardinality(A) <= MaxQueueLength[m]
      /\ waiting[m] \in Int /\ MaxQueueLength[m] \in Nat
  BY LimitsAssumption DEF BacklogCounted, CountFacts, TypeOK, StoreTypeOK
<1>3. \A i \in Jobs : /\ i \in B' => i \in B \/ (CountWaiting(i) /\ sub[i].model = m)
                      /\ i \in A' => \/ i \in A
                                     \/ CountWaiting(i) /\ ~BacklogFull(m) /\ sub[i].model = m
  BY BacklogMembers
<1>4. B' \subseteq Jobs /\ A' \subseteq B'
  BY DEF Backlog, Admitted, OnModel
<1>5. ASSUME NEW j \in Jobs, CountWaiting(j)
      PROVE  Cardinality(B') <= waiting'[m] /\ Cardinality(A') <= MaxQueueLength[m]
  <2>1. \A i \in Jobs : CountWaiting(i) => i = j
    <3>1. SubmissionStep(j) /\ sub'[j].pc # "incr"
      BY <1>5 DEF SubmissionStep, CountWaiting, CountFacts, TypeOK, SubmissionTypeOK
    <3>2. \A i \in Jobs \ {j} : sub'[i] = sub[i]
      BY <3>1, SubmissionWrites DEF CountFacts
    <3>3. \A i \in Jobs : CountWaiting(i) => sub[i].pc = "incr" /\ sub'[i].pc # "incr"
      BY DEF CountWaiting, CountFacts, TypeOK, SubmissionTypeOK
    <3>4. QED
      BY <3>2, <3>3
  <2>2. CASE sub[j].model = m
    <3>1. waiting'[m] = waiting[m] + 1
      BY <1>5, <2>2 DEF CountWaiting, CountFacts, TypeOK, StoreTypeOK
    <3>2. B' \subseteq B \cup {j} /\ IsFiniteSet(B \cup {j})
      BY <1>1, <1>3, <1>4, <2>1, FS_AddElement
    <3>3. Cardinality(B \cup {j}) \in Nat /\ Cardinality(B \cup {j}) <= Cardinality(B) + 1
      BY <1>1, AddAtMostOne
    <3>4. /\ Cardinality(B') <= Cardinality(B \cup {j}) /\ Cardinality(B') \in Nat
          /\ IsFiniteSet(B')
      BY <3>2, FS_Subset, FS_CardinalityType
    <3>5. Cardinality(B') <= waiting'[m]
      BY <1>1, <1>2, <3>1, <3>3, <3>4
    <3>6. CASE BacklogFull(m)
      <4>1. A' \subseteq A
        BY <1>3, <1>4, <3>6
      <4>2. Cardinality(A') <= Cardinality(A) /\ Cardinality(A') \in Nat
        BY <1>1, <4>1, FS_Subset, FS_CardinalityType
      <4>3. QED
        BY <1>1, <1>2, <3>5, <4>2
    <3>7. CASE ~BacklogFull(m)
      <4>1. Cardinality(A') <= Cardinality(B') /\ Cardinality(A') \in Nat
        BY <1>4, <3>4, FS_Subset, FS_CardinalityType
      <4>2. waiting[m] + 1 <= MaxQueueLength[m]
        BY <1>2, <3>7 DEF BacklogFull
      <4>3. QED
        BY <1>2, <3>1, <3>4, <3>5, <4>1, <4>2
    <3>8. QED
      BY <3>6, <3>7
  <2>3. CASE sub[j].model # m
    <3>1. waiting'[m] = waiting[m]
      BY <1>5, <2>3 DEF CountWaiting, CountFacts, TypeOK, StoreTypeOK
    <3>2. B' \subseteq B /\ A' \subseteq A
      BY <1>3, <1>4, <2>1, <2>3
    <3>3. /\ Cardinality(B') <= Cardinality(B) /\ Cardinality(B') \in Nat
          /\ Cardinality(A') <= Cardinality(A) /\ Cardinality(A') \in Nat
      BY <1>1, <3>2, FS_Subset, FS_CardinalityType
    <3>4. QED
      BY <1>1, <1>2, <3>1, <3>3
  <2>4. QED
    BY <2>2, <2>3
<1>6. CASE \A i \in Jobs : ~CountWaiting(i)
  <2>1. B' \subseteq B /\ A' \subseteq A
    BY <1>3, <1>4, <1>6
  <2>2. /\ Cardinality(B') <= Cardinality(B) /\ Cardinality(B') \in Nat
        /\ Cardinality(A') <= Cardinality(A) /\ Cardinality(A') \in Nat
    BY <1>1, <2>1, FS_Subset, FS_CardinalityType
  <2>3. CASE waiting'[m] = waiting[m]
    BY <1>1, <1>2, <2>2, <2>3
  <2>4. ASSUME NEW j \in Jobs,
               \/ UndoWaiting(j)
               \/ \E p \in Procs : \/ LeaveBacklog(p, j)
                                   \/ LeaveAfterFailure(p, j) /\ hsnap[p][j].model = "id",
               waiting'[m] # waiting[m]
        PROVE  Cardinality(B') <= waiting'[m] /\ Cardinality(A') <= MaxQueueLength[m]
    <3>1. /\ InBacklog(j) /\ ~InBacklog(j)' /\ m = sub[j].model
          /\ waiting'[m] \in {waiting[m] - 1, DecrAndClamp(waiting[m])}
      BY <2>4, BacklogLeaves
    <3>2. j \in B /\ j \notin B'
      BY <3>1 DEF Backlog, OnModel
    <3>3. IsFiniteSet(B \ {j}) /\ Cardinality(B \ {j}) = Cardinality(B) - 1
      BY <1>1, <3>2, FS_RemoveElement
    <3>4. B' \subseteq B \ {j}
      BY <2>1, <3>2
    <3>5. Cardinality(B') <= Cardinality(B) - 1
      BY <3>3, <3>4, FS_Subset
    <3>6. QED
      BY <1>1, <1>2, <2>2, <3>1, <3>5 DEF DecrAndClamp
  <2>5. \/ waiting' = waiting
        \/ \E j \in Jobs :
              \/ UndoWaiting(j)
              \/ \E p \in Procs : \/ LeaveBacklog(p, j)
                                  \/ LeaveAfterFailure(p, j) /\ hsnap[p][j].model = "id"
    <3>1. \A j \in Jobs : ~UndoEnqueue(j) /\ ~ExpireStale(j)
      BY DEF CountFacts, AddFollowsIncr, NoneStale, CronIdle, UndoEnqueue, ExpireStale
    <3>2. \A p \in Procs, j \in Jobs :
             LeaveAfterFailure(p, j) => waiting' = waiting \/ hsnap[p][j].model = "id"
      BY DEF LeaveAfterFailure
    <3>3. QED
      BY <1>6, <3>1, <3>2, WaitingWriters DEF CountFacts, Unhurt
  <2>6. QED
    BY <2>3, <2>4, <2>5
<1>7. QED
  BY <1>5, <1>6

\* Initially nothing is counted.
LEMMA InitBacklog == Init => AddFollowsIncr /\ EventsFirst /\ LeavesSettled /\ BacklogCounted
<1> SUFFICES ASSUME Init
             PROVE  AddFollowsIncr /\ EventsFirst /\ LeavesSettled /\ BacklogCounted
  OBVIOUS
<1>1. AddFollowsIncr /\ EventsFirst /\ LeavesSettled
  BY DEF Init, SubmissionInit, QueueInit, WorkerInit, AddFollowsIncr, EventsFirst,
         LeavesSettled
<1>2. \A j \in Jobs : ~InBacklog(j)
  BY DEF Init, SubmissionInit, QueueInit, InBacklog, Pending
<1>3. \A m \in Models : Backlog(m) = {} /\ Admitted(m) = {}
  BY <1>2 DEF Backlog, Admitted, OnModel
<1>4. BacklogCounted
  <2>1. \A m \in Models : Cardinality(Backlog(m)) = 0 /\ Cardinality(Admitted(m)) = 0
    BY <1>3, FS_EmptySet
  <2>2. \A m \in Models : waiting[m] = 0 /\ MaxQueueLength[m] \in Nat
    BY LimitsAssumption DEF Init, StoreInit
  <2>3. QED
    BY <2>1, <2>2 DEF BacklogCounted
<1>5. QED
  BY <1>1, <1>4

\* The facts of the count hold throughout.
LEMMA CountFactsHold ==
    ASSUME Unhurt, \A p, q \in Procs : p = q
    PROVE  Spec => [](CountFacts /\ BacklogCounted /\ LeavesSettled)
<1>1. TypeOK /\ WithinBudget /\ HandlerHolds /\ [Next]_vars => HandlerHolds'
  BY NextHolds DEF Unhurt
<1>2. TypeOK /\ NoneStale /\ [Next]_vars => NoneStale'
  BY NextNoneStale DEF Unhurt
<1>3. TypeOK /\ AddFollowsIncr /\ [Next]_vars => AddFollowsIncr'
  BY NextAddFollowsIncr DEF Unhurt
<1>4. CountFacts /\ BacklogCounted /\ [Next]_vars => BacklogCounted'
  BY NextBacklogCounted
<1>5. CountFacts <=> /\ TypeOK /\ WithinBudget /\ HandlerHolds /\ NoneStale /\ AboutFailed
                     /\ AddFollowsIncr /\ EventsFirst
  BY DEF CountFacts
<1>6. Spec => []CountFacts
  BY <1>1, <1>2, <1>3, <1>5, InitType, NextType, InitBudget, NextScanned, NextBudget,
     InitHolds, InitRefunds, NextAboutFailed, InitBacklog, NextEventsFirst, PTL DEF Spec
<1>7. Spec => []BacklogCounted
  BY <1>4, <1>6, InitBacklog, PTL DEF Spec
<1>8. TypeOK /\ ResultFirst /\ [Next]_vars => ResultFirst'
  BY NextResultFirst DEF Unhurt
<1>9. TypeOK /\ ResultFirst /\ LeavesSettled /\ [Next]_vars => LeavesSettled'
  BY NextLeavesSettled DEF Unhurt
<1>10. Spec => []LeavesSettled
  BY <1>8, <1>9, InitType, NextType, InitResultFirst, InitBacklog, PTL DEF Spec
<1>11. QED
  BY <1>6, <1>7, <1>10, PTL

\* The jobs the properties count are admitted ones.
LEMMA CountedAdmitted ==
    ASSUME CountFacts, LeavesSettled, NEW m \in Models
    PROVE  /\ Cardinality(Counted(m)) <= Cardinality(Admitted(m))
           /\ Cardinality(Counted(m)) <= Cardinality(Backlog(m))
           /\ Cardinality(Counted(m)) \in Nat
<1>1. ASSUME NEW j \in Counted(m) PROVE j \in Admitted(m)
  <2>1. j \in OnModel(m) /\ j \in Jobs /\ Pending(j) /\ result[j] = "none"
    BY DEF Counted, OnModel
  <2>2. ~HasLeft(j)
    BY <2>1 DEF LeavesSettled, HasLeft
  <2>3. sub[j].pc # "full"
    BY <2>1 DEF CountFacts, AddFollowsIncr, WithinBudget, AddedOnce, Pending
  <2>4. QED
    BY <2>1, <2>2, <2>3 DEF Admitted, Backlog, InBacklog
<1>2. Counted(m) \subseteq Admitted(m) /\ Counted(m) \subseteq Backlog(m)
  BY <1>1, BacklogFinite
<1>3. QED
  BY <1>2, BacklogFinite, FS_Subset, FS_CardinalityType

\* queue:waiting never says less than there is, for every number of jobs and models and
\* through rejections, rate-limit delays, retries, dying requests and shutdowns: whoever
\* decrements it takes a job off that was counted, and a job is taken off once.  Every
\* process decrements for every failed job, a handler that was cut off, or whose decrement
\* took effect without a reply, decrements for a job that runs again, and the cron for one
\* that has just failed, so the theorem is about one process, without lost locks, dead
\* workers, failed promises, failed Redis commands and aging.
THEOREM BacklogIsCovered ==
    ASSUME Unhurt, \A p, q \in Procs : p = q
    PROVE  Spec => []WaitingCoversBacklog
<1>1. CountFacts /\ BacklogCounted /\ LeavesSettled => WaitingCoversBacklog
  <2> SUFFICES ASSUME CountFacts, BacklogCounted, LeavesSettled, NEW m \in Models
               PROVE  waiting[m] >= Cardinality(Counted(m))
    BY DEF WaitingCoversBacklog
  <2>1. waiting[m] \in Int /\ Cardinality(Backlog(m)) \in Nat
    BY BacklogFinite DEF CountFacts, TypeOK, StoreTypeOK
  <2>2. QED
    BY <2>1, CountedAdmitted DEF BacklogCounted
<1>2. QED
  BY <1>1, CountFactsHold, PTL

\* The queue of a model never holds more jobs than computeMaxQueueLength allows, under the
\* same conditions: prepareJobSubmission compares the value its own INCR returned, which
\* covers every job counted before.
THEOREM BacklogIsCapped ==
    ASSUME Unhurt, \A p, q \in Procs : p = q
    PROVE  Spec => []BacklogWithinCap
<1>1. CountFacts /\ BacklogCounted /\ LeavesSettled => BacklogWithinCap
  <2> SUFFICES ASSUME CountFacts, BacklogCounted, LeavesSettled, NEW m \in Models
               PROVE  Cardinality(Counted(m)) <= MaxQueueLength[m]
    BY DEF BacklogWithinCap
  <2>1. MaxQueueLength[m] \in Nat /\ Cardinality(Admitted(m)) \in Nat
    BY BacklogFinite, LimitsAssumption
  <2>2. QED
    BY <2>1, CountedAdmitted DEF BacklogCounted
<1>2. QED
  BY <1>1, CountFactsHold, PTL

-----------------------------------------------------------------------------
(* The daily limit of a model, without failed commands, dead workers, lost  *)
(* locks, midnight and aging.                                               *)

\* Who takes tokens, and who writes the daily counters.
LEMMA DayWriters ==
    ASSUME TypeOK, [Next]_vars
    PROVE  /\ \A i \in Jobs : \/ consumed'[i] = consumed[i]
                              \/ \E p \in Procs : TakeTokens(p, i)
           /\ \/ rpd' = rpd
              \/ \E p \in Procs, j \in Jobs : TakeTokens(p, j) \/ GiveTokensBack(p, j)
              \/ \E j \in Jobs : RefundStale(j)
              \/ Midnight
<1> DEFINE Moved == /\ \A i \in Jobs : \/ consumed'[i] = consumed[i]
                                       \/ \E p \in Procs : TakeTokens(p, i)
                    /\ \/ rpd' = rpd
                       \/ \E p \in Procs, j \in Jobs : TakeTokens(p, j) \/ GiveTokensBack(p, j)
                       \/ \E j \in Jobs : RefundStale(j)
                       \/ Midnight
<1>1. ASSUME NEW j \in Jobs,
             SubmissionStep(j) \/ EnqueueFails(j) \/ WebDies(j)
      PROVE  Moved
  BY <1>1, SubmissionWrites DEF SubmissionFrame, historyVars
<1>2. ASSUME NEW j \in Jobs, PromoteDelayed(j) \/ RecoverStalled(j) \/ LoseLock(j)
      PROVE  Moved
  BY <1>2, QueueWrites DEF QueueFrame, historyVars, storeVars
<1>3. ASSUME NEW p \in Procs, NEW j \in Jobs,
             Fetch(p, j) \/ HandlerStep(p, j) \/ HandlerFault(p, j)
      PROVE  Moved
  <2>1. CASE \/ MarkInProgress(p, j) \/ FlagTokens(p, j) \/ Requeue(p, j)
             \/ ReachProvider(p, j) \/ ProviderReached(p, j) \/ FinalizeMeta(p, j)
             \/ StoreAnswer(p, j) \/ ReleaseOwnSlot(p, j) \/ LeaveBacklog(p, j)
    BY <2>1 DEF MarkInProgress, FlagTokens, Requeue, ReachProvider, ProviderReached,
                FinalizeMeta, StoreAnswer, ReleaseOwnSlot, LeaveBacklog, OnlyMeta
  <2>2. CASE \/ Fetch(p, j) \/ HandlerFault(p, j) \/ ReadMeta(p, j)
             \/ HitMinuteLimit(p, j) \/ HitDayLimit(p, j) \/ DelayJob(p, j)
             \/ CallProvider(p, j) \/ NoApiName(p, j) \/ Return(p, j) \/ Throw(p, j)
    BY <2>2 DEF Fetch, HandlerFault, RedisFails, ReplyLost, FinalizeLoses, ReadMeta,
                HitMinuteLimit, HitDayLimit, Refused, DelayJob, CallProvider, NoApiName,
                Return, Throw, storeVars
  <2>3. CASE TakeTokens(p, j)
    BY <1>3, <2>3, HandlerWrites
  <2>4. QED
    BY <1>3, <2>1, <2>2, <2>3 DEF HandlerStep
<1>4. ASSUME NEW p \in Procs, NEW j \in Jobs,
             FailedEventsStep(p, j) \/ FailureLoses(p, j)
      PROVE  Moved
  BY <1>4 DEF FailedEventsStep, OnFailed, WriteFailure, MarkFailure, ReleaseFailedSlot,
              LeaveAfterFailure, GiveTokensBack, FailureLoses, FailedEventsFrame, storeVars,
              historyVars
<1>5. ASSUME NEW p \in Procs, ProcessStep(p)
      PROVE  Moved
  BY <1>5, ProcessWrites DEF storeVars, historyVars
<1>6. CASE ExpiryStep \/ CronDies \/ \E u \in Users : CleanupSlots(u)
  <2>1. rpd' = rpd \/ \E j \in Jobs : RefundStale(j)
    BY <1>6 DEF ExpiryStep, BeginExpiry, EndExpiry, ScanQueue, ReadStale, RemoveStale,
                ExpireStale, CronDies, CleanupSlots, storeVars
  <2>2. QED
    BY <1>6, <2>1, CronWrites DEF CronFrame
<1>7. CASE (\E j \in Jobs : Age(j)) \/ \E m \in Models : MinuteElapses(m)
  BY <1>7 DEF Age, MinuteElapses, EnvFrame, storeVars, historyVars
<1>8. CASE Midnight \/ Rest \/ UNCHANGED vars
  BY <1>8 DEF Midnight, Rest, vars, storeVars, historyVars
<1>9. QED
  BY <1>1, <1>2, <1>3, <1>4, <1>5, <1>6, <1>7, <1>8 DEF Next, ProcessStep

\* Tokens are taken for queued jobs only.
TakenQueued == \A j \in Jobs : bull[j].st = "none" => consumed[j] = 0

\* A handler runs for a queued job.
LEMMA NextTakenQueued ==
    TypeOK /\ QueuedLeaveTraces /\ TakenQueued /\ [Next]_vars => TakenQueued'
<1> SUFFICES ASSUME TypeOK, QueuedLeaveTraces, TakenQueued, [Next]_vars, NEW j \in Jobs,
                    bull'[j].st = "none"
             PROVE  consumed'[j] = 0
  BY DEF TakenQueued
<1>1. bull[j].st = "none"
  BY QueuedStays
<1>2. ~\E p \in Procs : TakeTokens(p, j)
  BY <1>1 DEF QueuedLeaveTraces, NoTrace, TakeTokens, At
<1>3. QED
  BY <1>1, <1>2, DayWriters DEF TakenQueued

\* The counter of a model covers what its jobs have taken and not got back, and the
\* script takes no more than the limit.
SpentOn(m) == {j \in OnModel(m) : Spent(j)}

\* Tokens are finitely many.
LEMMA SpentFinite ==
    ASSUME NEW m
    PROVE  IsFiniteSet(SpentOn(m)) /\ Cardinality(SpentOn(m)) \in Nat
<1>1. SpentOn(m) \subseteq Jobs
  BY DEF SpentOn, OnModel
<1>2. QED
  BY <1>1, JobsAssumption, FS_Subset, FS_CardinalityType

\* consumeExecutionLimits.lua counts up with the tokens it takes, and returnTokensAtomic.lua
\* down for a job that has them.
LEMMA NextSpentCounted ==
    ASSUME "midnight" \notin Environment, \A p, q \in Procs : p = q
    PROVE  TypeOK /\ TypeOK' /\ WithinBudget /\ QueuedLeaveTraces /\ TakenQueued /\ NoneStale
               /\ RefundedOnce /\ SpentCounted /\ [Next]_vars => SpentCounted'
<1> SUFFICES ASSUME TypeOK, TypeOK', WithinBudget, QueuedLeaveTraces, TakenQueued, NoneStale,
                    RefundedOnce, SpentCounted, [Next]_vars, NEW m \in Models, ModelRpd[m] > 0
             PROVE  Cardinality(SpentOn(m)') <= rpd'[m] /\ rpd'[m] <= ModelRpd[m]
  BY DEF SpentCounted, SpentOn
<1> DEFINE S == SpentOn(m)
<1>1. IsFiniteSet(S) /\ Cardinality(S) \in Nat
  BY SpentFinite
<1>2. /\ Cardinality(S) <= rpd[m] /\ rpd[m] <= ModelRpd[m]
      /\ rpd[m] \in Nat /\ ModelRpd[m] \in Nat
  BY LimitsAssumption DEF SpentCounted, SpentOn, TypeOK, StoreTypeOK
<1>3. S' \subseteq Jobs
  BY DEF SpentOn, OnModel
<1>4. \A i \in Jobs : /\ refunded[i] \in Nat /\ refunded'[i] \in Nat
                      /\ consumed[i] \in Nat /\ consumed'[i] \in Nat
                      /\ refunded'[i] = refunded[i] \/ refunded'[i] = refunded[i] + 1
  <2>1. \A i \in Jobs : ~RefundStale(i)
    BY DEF NoneStale, CronIdle, RefundStale
  <2>2. QED
    BY <2>1, Refunders DEF TypeOK, HistoryTypeOK
<1>5. ASSUME NEW i \in Jobs, i \in S', ~\E p \in Procs : TakeTokens(p, i)
      PROVE  i \in S
  <2>1. Spent(i)
    BY <1>4, <1>5, DayWriters DEF SpentOn, Spent
  <2>2. ~AcquireCandidate(i)
    <3>1. bull[i].st # "none"
      BY <2>1 DEF TakenQueued, Spent
    <3>2. QED
      BY <3>1, AcquireMoves DEF QueuedLeaveTraces, SlotFirst, WithinBudget, AddedOnce
  <2>3. sub'[i].model = sub[i].model
    BY <2>2, SubmissionMoves, Writers
  <2>4. QED
    BY <1>5, <2>1, <2>3 DEF SpentOn, OnModel
<1>6. ASSUME NEW p \in Procs, NEW j \in Jobs, TakeTokens(p, j)
      PROVE  Cardinality(S') <= rpd'[m] /\ rpd'[m] <= ModelRpd[m]
  <2>1. \A q \in Procs, i \in Jobs : TakeTokens(q, i) => i = j
    <3>1. \A q \in Procs, i \in Jobs :
             TakeTokens(q, i) => wpc[q][i] = "consume" /\ wpc'[q][i] = "flag"
      BY GotoMoves DEF TakeTokens, At
    <3>2. \A q \in Procs, i \in Jobs : i # j => wpc'[q][i] = wpc[q][i]
      BY <1>6, HandlerWrites DEF HandlerStep
    <3>3. QED
      BY <3>1, <3>2
  <2>2. CASE sub[j].model = m
    <3>1. rpd'[m] = rpd[m] + 1 /\ rpd[m] + 1 <= ModelRpd[m]
      <4>1. rpd'[m] = rpd[m] + 1
        BY <1>6, <2>2 DEF TakeTokens, TypeOK, StoreTypeOK
      <4>2. ConsumeVerdict(j) = "ok"
        BY <1>6 DEF TakeTokens
      <4>3. ~Exhausted(ModelRpd[m], rpd[m])
        BY <2>2, <4>2 DEF ConsumeVerdict, ConsumeCode
      <4>4. QED
        BY <1>2, <4>1, <4>3 DEF Exhausted
    <3>2. S' \subseteq S \cup {j} /\ IsFiniteSet(S \cup {j})
      BY <1>1, <1>3, <1>5, <2>1, FS_AddElement
    <3>3. Cardinality(S \cup {j}) \in Nat /\ Cardinality(S \cup {j}) <= Cardinality(S) + 1
      BY <1>1, AddAtMostOne
    <3>4. Cardinality(S') <= Cardinality(S \cup {j}) /\ Cardinality(S') \in Nat
      BY <3>2, FS_Subset, FS_CardinalityType
    <3>5. QED
      BY <1>1, <1>2, <3>1, <3>3, <3>4
  <2>3. CASE sub[j].model # m
    <3>1. rpd'[m] = rpd[m]
      BY <1>6, <2>3 DEF TakeTokens, TypeOK, StoreTypeOK
    <3>2. j \notin S'
      BY <1>6, <2>3 DEF TakeTokens, WorkerFrame, SpentOn, OnModel
    <3>3. S' \subseteq S
      BY <1>3, <1>5, <2>1, <3>2
    <3>4. Cardinality(S') <= Cardinality(S) /\ Cardinality(S') \in Nat
      BY <1>1, <3>3, FS_Subset, FS_CardinalityType
    <3>5. QED
      BY <1>1, <1>2, <3>1, <3>4
  <2>4. QED
    BY <2>2, <2>3
<1>7. CASE ~\E p \in Procs, j \in Jobs : TakeTokens(p, j)
  <2>1. S' \subseteq S
    BY <1>3, <1>5, <1>7
  <2>2. Cardinality(S') <= Cardinality(S) /\ Cardinality(S') \in Nat
    BY <1>1, <2>1, FS_Subset, FS_CardinalityType
  <2>3. CASE rpd'[m] = rpd[m]
    BY <1>1, <1>2, <2>2, <2>3
  <2>4. ASSUME NEW p \in Procs, NEW j \in Jobs, GiveTokensBack(p, j), rpd'[m] # rpd[m]
        PROVE  Cardinality(S') <= rpd'[m] /\ rpd'[m] <= ModelRpd[m]
    <3>1. /\ hpc[p][j] = "refund" /\ sub' = sub
          /\ rpd' = [rpd EXCEPT ![sub[j].model] = DecrAndClamp(@)]
          /\ refunded' = [refunded EXCEPT ![j] = @ + 1]
      BY <2>4 DEF GiveTokensBack, ReturnTokens, FailedEventsFrame
    <3>2. m = sub[j].model /\ rpd'[m] = DecrAndClamp(rpd[m]) /\ refunded'[j] = refunded[j] + 1
      BY <2>4, <3>1 DEF TypeOK, StoreTypeOK, HistoryTypeOK
    <3>3. j \in S /\ j \notin S'
      BY <1>4, <3>1, <3>2 DEF RefundedOnce, SpentOn, OnModel, Spent
    <3>4. IsFiniteSet(S \ {j}) /\ Cardinality(S \ {j}) = Cardinality(S) - 1
      BY <1>1, <3>3, FS_RemoveElement
    <3>5. S' \subseteq S \ {j}
      BY <2>1, <3>3
    <3>6. Cardinality(S') <= Cardinality(S) - 1
      BY <3>4, <3>5, FS_Subset
    <3>7. QED
      BY <1>1, <1>2, <2>2, <3>2, <3>6 DEF DecrAndClamp
  <2>5. rpd' = rpd \/ \E p \in Procs, j \in Jobs : GiveTokensBack(p, j)
    <3>1. ~Midnight /\ \A j \in Jobs : ~RefundStale(j)
      BY DEF Midnight, NoneStale, CronIdle, RefundStale
    <3>2. QED
      BY <1>7, <3>1, DayWriters
  <2>6. QED
    BY <2>3, <2>4, <2>5
<1>8. QED
  BY <1>6, <1>7

\* A handler that wrote an answer keeps its job until BullMQ has completed it.
LEMMA NextAnswerHeld ==
    ASSUME \A k \in {"redis", "crash", "lockLost"} : k \notin Environment
    PROVE  TypeOK /\ WithinBudget /\ HandlerHolds /\ NoneStale /\ AnswerHeld /\ [Next]_vars
               => AnswerHeld'
<1> SUFFICES ASSUME TypeOK, WithinBudget, HandlerHolds, NoneStale, AnswerHeld, [Next]_vars,
                    NEW i \in Jobs, result'[i] = "completed"
             PROVE  \/ bull'[i].st = "completed"
                    \/ \E p \in Procs : Holds(p, i)' /\ wpc'[p][i] \in {"release", "leave", "return"}
  BY DEF AnswerHeld
<1> DEFINE Held == \/ bull'[i].st = "completed"
                   \/ \E p \in Procs : Holds(p, i)' /\ wpc'[p][i] \in {"release", "leave", "return"}
<1>1. CASE \E p \in Procs : StoreAnswer(p, i)
  <2>1. PICK p \in Procs : StoreAnswer(p, i)
    BY <1>1
  <2>2. Holds(p, i)' /\ wpc'[p][i] = "release"
    BY <2>1, GotoMoves DEF StoreAnswer, At, HandlerHolds, Runs, Holds, queueVars
  <2>3. QED
    BY <2>2
<1>2. CASE bull[i].st = "completed"
  <2>1. bull'[i].st = "completed"
    <3>1. ASSUME NEW j \in Jobs, SubmissionStep(j) \/ EnqueueFails(j) \/ WebDies(j)
          PROVE  bull'[i].st = "completed"
      BY <1>2, <3>1, SubmissionWrites DEF AddJob, WithinBudget, AddedOnce
    <3>2. ASSUME NEW j \in Jobs, PromoteDelayed(j) \/ RecoverStalled(j) \/ LoseLock(j)
          PROVE  bull'[i].st = "completed"
      BY <1>2, <3>2, QueueWrites, QueueMoves DEF Holds
    <3>3. ASSUME NEW p \in Procs, NEW j \in Jobs,
                 Fetch(p, j) \/ HandlerStep(p, j) \/ HandlerFault(p, j)
          PROVE  bull'[i].st = "completed"
      BY <1>2, <3>3, HandlerWrites, HandlerMoves DEF Holds
    <3>4. ASSUME NEW p \in Procs, NEW j \in Jobs,
                 FailedEventsStep(p, j) \/ FailureLoses(p, j)
          PROVE  bull'[i].st = "completed"
      BY <1>2, <3>4, FailedWrites
    <3>5. ASSUME NEW p \in Procs, ProcessStep(p)
          PROVE  bull'[i].st = "completed"
      BY <1>2, <3>5, ProcessWrites
    <3>6. CASE ExpiryStep \/ CronDies \/ \E u \in Users : CleanupSlots(u)
      <4>1. ~RemoveStale(i)
        BY DEF NoneStale, CronIdle, RemoveStale
      <4>2. QED
        BY <1>2, <3>6, <4>1, CronWrites
    <3>7. CASE Midnight \/ (\E j \in Jobs : Age(j)) \/ \E m \in Models : MinuteElapses(m)
      BY <1>2, <3>7, TimeWrites DEF queueVars
    <3>8. CASE Rest \/ UNCHANGED vars
      BY <1>2, <3>8 DEF Rest, vars, queueVars
    <3>9. QED
      BY <3>1, <3>2, <3>3, <3>4, <3>5, <3>6, <3>7, <3>8 DEF Next, ProcessStep
  <2>2. QED
    BY <2>1
<1>3. ASSUME NEW q \in Procs, Holds(q, i), wpc[q][i] \in {"release", "leave", "return"}
      PROVE  Held
  <2>a. CASE bull'[i] = bull[i] /\ wpc'[q][i] = wpc[q][i]
    BY <1>3, <2>a DEF Holds
  <2>1. ASSUME NEW j \in Jobs, SubmissionStep(j) \/ EnqueueFails(j) \/ WebDies(j)
        PROVE  Held
    <3>1. AddJob(j) => bull[j].st = "none"
      BY DEF AddJob, WithinBudget, AddedOnce
    <3>2. QED
      BY <1>3, <2>a, <2>1, <3>1, SubmissionWrites DEF SubmissionFrame, workerVars, Holds
  <2>2. ASSUME NEW j \in Jobs, PromoteDelayed(j) \/ RecoverStalled(j) \/ LoseLock(j)
        PROVE  Held
    <3>1. i # j
      BY <1>3, <2>2, QueueAssumption DEF PromoteDelayed, RecoverStalled, LoseLock, Fault, Holds
    <3>2. QED
      BY <2>a, <2>2, <3>1, QueueWrites DEF QueueFrame, workerVars
  <2>3. ASSUME NEW p \in Procs, NEW j \in Jobs,
               Fetch(p, j) \/ HandlerStep(p, j) \/ HandlerFault(p, j)
        PROVE  Held
    <3>1. CASE i # j
      BY <2>a, <2>3, <3>1, HandlerWrites
    <3>2. CASE i = j /\ p # q
      <4>1. bull'[i] = bull[i]
        BY <1>3, <2>3, <3>2, HandlerMoves DEF Holds
      <4>2. QED
        BY <2>a, <2>3, <3>2, <4>1, HandlerWrites
    <3>3. CASE i = j /\ p = q
      <4>1. ReleaseOwnSlot(p, j) \/ LeaveBacklog(p, j) \/ Return(p, j)
        BY <1>3, <2>3, <3>3
           DEF Fetch, HandlerFault, RedisFails, ReplyLost, FinalizeLoses, Fault,
               HandlerStep, ReadMeta, MarkInProgress, TakeTokens, HitMinuteLimit,
               HitDayLimit, Refused, FlagTokens, Requeue, DelayJob, ReachProvider,
               CallProvider, NoApiName, ProviderReached, FinalizeMeta, StoreAnswer, Throw, At
      <4>2. CASE ReleaseOwnSlot(p, j) \/ LeaveBacklog(p, j)
        BY <1>3, <3>3, <4>2, GotoMoves DEF ReleaseOwnSlot, LeaveBacklog, queueVars, Holds
      <4>3. CASE Return(p, j)
        <5>1. ~DelayJob(p, j)
          BY <4>3 DEF Return, DelayJob, At
        <5>2. QED
          BY <1>3, <2>3, <3>3, <4>3, <5>1, HandlerMoves
      <4>4. QED
        BY <4>1, <4>2, <4>3
    <3>4. QED
      BY <3>1, <3>2, <3>3
  <2>4. ASSUME NEW p \in Procs, NEW j \in Jobs,
               FailedEventsStep(p, j) \/ FailureLoses(p, j)
        PROVE  Held
    BY <2>a, <2>4, FailedWrites DEF workerVars
  <2>5. ASSUME NEW p \in Procs, ProcessStep(p)
        PROVE  Held
    <3>1. CASE Restart(p)
      BY <2>a, <3>1 DEF Restart, queueVars, workerVars
    <3>2. CASE Shutdown(p)
      <4>1. p # q
        BY <1>3, <3>2 DEF Shutdown, NoHandler
      <4>2. QED
        BY <1>3, <2>5, <4>1, ProcessWrites DEF Holds
    <3>3. QED
      BY <2>5, <3>1, <3>2 DEF ProcessStep, Crash, ListenerRejects, Fault
  <2>6. CASE ExpiryStep \/ CronDies \/ \E u \in Users : CleanupSlots(u)
    <3>1. ~RemoveStale(i)
      BY DEF NoneStale, CronIdle, RemoveStale
    <3>2. QED
      BY <2>a, <2>6, <3>1, CronWrites DEF CronFrame, workerVars
  <2>7. CASE Midnight \/ (\E j \in Jobs : Age(j)) \/ \E m \in Models : MinuteElapses(m)
    BY <2>a, <2>7, TimeWrites DEF queueVars, workerVars
  <2>8. CASE Rest \/ UNCHANGED vars
    BY <2>a, <2>8 DEF Rest, vars, queueVars, workerVars
  <2>9. QED
    BY <2>1, <2>2, <2>3, <2>4, <2>5, <2>6, <2>7, <2>8 DEF Next, ProcessStep
<1>4. QED
  BY <1>1, <1>2, <1>3, Settles DEF AnswerHeld

\* Initially no tokens are taken and nothing is answered.
LEMMA InitDay == Init => QueuedLeaveTraces /\ TakenQueued /\ SpentCounted /\ AnswerHeld
<1> SUFFICES ASSUME Init PROVE QueuedLeaveTraces /\ TakenQueued /\ SpentCounted /\ AnswerHeld
  OBVIOUS
<1>1. QueuedLeaveTraces
  BY DEF Init, StoreInit, QueueInit, WorkerInit, FailedEventsInit, SubmissionInit,
         QueuedLeaveTraces, NoTrace, SlotFirst
<1>2. TakenQueued /\ AnswerHeld
  BY DEF Init, StoreInit, HistoryInit, TakenQueued, AnswerHeld
<1>3. SpentCounted
  <2>1. \A j \in Jobs : ~Spent(j)
    BY DEF Init, HistoryInit, Spent
  <2>2. \A m \in Models : {j \in OnModel(m) : Spent(j)} = {}
    BY <2>1 DEF OnModel
  <2>3. \A m \in Models : /\ Cardinality({j \in OnModel(m) : Spent(j)}) = 0
                          /\ rpd[m] = 0 /\ ModelRpd[m] \in Nat
    BY <2>2, FS_EmptySet, LimitsAssumption DEF Init, StoreInit
  <2>4. QED
    BY <2>3 DEF SpentCounted
<1>4. QED
  BY <1>1, <1>2, <1>3

\* The completed jobs of the day never exceed the model's daily limit, for every number of
\* jobs, users and models: an answer costs tokens that are not given back, since a job with
\* an answer does not fail any more.  It may when a command after the answer fails or its
\* worker is cut off, and its tokens go back twice with two processes; the counter starts
\* again at midnight.
THEOREM ModelDayHolds ==
    ASSUME \A k \in {"redis", "crash", "lockLost", "midnight", "aging"} : k \notin Environment,
           \A p, q \in Procs : p = q
    PROVE  Spec => []CompletedWithinModelDay
<1>1. TypeOK /\ NothingUnpaid /\ RefundedOnce /\ SpentCounted /\ AnswerHeld
          => CompletedWithinModelDay
  <2> SUFFICES ASSUME TypeOK, NothingUnpaid, RefundedOnce, SpentCounted, AnswerHeld,
                      NEW m \in Models, ModelRpd[m] > 0
               PROVE  Cardinality({j \in OnModel(m) : result[j] = "completed"}) <= ModelRpd[m]
    BY DEF CompletedWithinModelDay
  <2> DEFINE C == {j \in OnModel(m) : result[j] = "completed"}
  <2>1. ASSUME NEW j \in C PROVE Spent(j)
    <3>1. j \in Jobs /\ consumed[j] \in Nat /\ refunded[j] \in Nat
      BY <2>1 DEF OnModel, TypeOK, HistoryTypeOK
    <3>2. consumed[j] > 0
      BY <2>1, <3>1 DEF NothingUnpaid, Unpaid
    <3>3. bull[j].st # "failed"
      BY <2>1, <3>1 DEF AnswerHeld, Holds
    <3>4. QED
      BY <3>1, <3>2, <3>3 DEF RefundedOnce, Spent
  <2>2. C \subseteq SpentOn(m)
    BY <2>1 DEF SpentOn
  <2>3. Cardinality(C) <= Cardinality(SpentOn(m)) /\ Cardinality(C) \in Nat
    BY <2>2, SpentFinite, FS_Subset, FS_CardinalityType
  <2>4. Cardinality(SpentOn(m)) <= rpd[m] /\ rpd[m] <= ModelRpd[m]
    BY DEF SpentCounted, SpentOn
  <2>5. Cardinality(SpentOn(m)) \in Nat /\ rpd[m] \in Nat /\ ModelRpd[m] \in Nat
    BY SpentFinite, LimitsAssumption DEF TypeOK, StoreTypeOK
  <2>6. QED
    BY <2>3, <2>4, <2>5
<1>2. TypeOK /\ WithinBudget /\ HandlerHolds /\ [Next]_vars => HandlerHolds'
  BY NextHolds
<1>3. TypeOK /\ NoneStale /\ [Next]_vars => NoneStale'
  BY NextNoneStale
<1>4. TypeOK /\ WithinBudget /\ NothingUnpaid /\ NoneStale /\ AboutFailed
          /\ RefundedOnce /\ [Next]_vars => RefundedOnce'
  BY NextRefundedOnce
<1>5. TypeOK /\ TypeOK' /\ WithinBudget /\ QueuedLeaveTraces /\ TakenQueued /\ NoneStale
          /\ RefundedOnce /\ SpentCounted /\ [Next]_vars => SpentCounted'
  BY NextSpentCounted
<1>6. TypeOK /\ WithinBudget /\ HandlerHolds /\ NoneStale /\ AnswerHeld /\ [Next]_vars
          => AnswerHeld'
  BY NextAnswerHeld
<1>7. Init => NothingUnpaid
  BY DEF Init, StoreInit, HistoryInit, WorkerInit, EmptyMeta, NothingUnpaid, Unpaid, PaidPcs
<1>8. Spec => [](TypeOK /\ WithinBudget /\ ScannedQueued /\ HandlerHolds /\ NoneStale)
  BY <1>2, <1>3, InitType, NextType, InitBudget, NextScanned, NextBudget, InitHolds,
     InitRefunds, PTL DEF Spec
<1>9. Spec => [](NothingUnpaid /\ AboutFailed /\ QueuedLeaveTraces /\ TakenQueued)
  BY <1>7, <1>8, NextPays, InitRefunds, NextAboutFailed, InitDay, NextTraces,
     NextTakenQueued, PTL DEF Spec
<1>10. Spec => [](RefundedOnce /\ AnswerHeld)
  BY <1>4, <1>6, <1>8, <1>9, InitRefundedOnce, InitDay, PTL DEF Spec
<1>11. QED
  BY <1>1, <1>5, <1>8, <1>9, <1>10, InitDay, PTL DEF Spec

\* The tokens of a job whose answer is in Redis are not given back, for every number of
\* jobs and processes and through rejections, retries, stalled checks, dying requests and
\* shutdowns: the handler that stored the answer keeps the job until BullMQ has completed
\* it, and only a failed job is refunded.  One failed command after the answer is enough
\* for the opposite, whatever provider_completed said of the call: the retry resets it.
THEOREM AnswersAreNotRefunded ==
    ASSUME \A k \in {"redis", "crash", "lockLost", "aging"} : k \notin Environment
    PROVE  Spec => PaidCallIsKept
<1>1. TypeOK /\ WithinBudget /\ HandlerHolds /\ [Next]_vars => HandlerHolds'
  BY NextHolds
<1>2. TypeOK /\ NoneStale /\ [Next]_vars => NoneStale'
  BY NextNoneStale
<1>3. TypeOK /\ WithinBudget /\ HandlerHolds /\ NoneStale /\ AnswerHeld /\ [Next]_vars
          => AnswerHeld'
  BY NextAnswerHeld
<1>4. TypeOK /\ NoneStale /\ AboutFailed /\ AnswerHeld /\ [Next]_vars
          => [\A j \in Jobs : refunded'[j] > refunded[j] => result[j] # "completed"]_vars
  <2> SUFFICES ASSUME TypeOK, NoneStale, AboutFailed, AnswerHeld, [Next]_vars,
                      NEW j \in Jobs, refunded'[j] > refunded[j]
               PROVE  result[j] # "completed"
    OBVIOUS
  <2>1. refunded[j] \in Nat /\ ~RefundStale(j)
    BY DEF TypeOK, HistoryTypeOK, NoneStale, CronIdle, RefundStale
  <2>2. PICK p \in Procs : GiveTokensBack(p, j)
    BY <2>1, Refunders
  <2>3. bull[j].st = "failed"
    BY <2>2 DEF GiveTokensBack, AboutFailed
  <2>4. QED
    BY <2>3 DEF AnswerHeld, Holds
<1>5. Spec => [](TypeOK /\ WithinBudget /\ ScannedQueued /\ HandlerHolds /\ NoneStale)
  BY <1>1, <1>2, InitType, NextType, InitBudget, NextScanned, NextBudget, InitHolds,
     InitRefunds, PTL DEF Spec
<1>6. Spec => [](AboutFailed /\ AnswerHeld)
  BY <1>3, <1>5, InitRefunds, NextAboutFailed, InitDay, PTL DEF Spec
<1>7. QED
  BY <1>4, <1>5, <1>6, PTL DEF Spec, PaidCallIsKept

-----------------------------------------------------------------------------
(* What is left when everything is over.                                    *)

\* The daily counter of a model is the number of its tokens that are out.
TokensCounted ==
    \A m \in Models :
        IsFiniteSet(Outstanding(m)) /\ rpd[m] = Cardinality(Outstanding(m))

\* A token is out when it was taken and not given back.
LEMMA OutstandingTokens ==
    ASSUME TypeOK, TypeOK', NEW m, NEW t
    PROVE  /\ t \in Outstanding(m) <=>
                 \E j \in Jobs, k \in Int : /\ sub[j].model = m /\ t = <<j, k>>
                                            /\ refunded[j] < k /\ k <= consumed[j]
           /\ t \in Outstanding(m)' <=>
                 \E j \in Jobs, k \in Int : /\ sub'[j].model = m /\ t = <<j, k>>
                                            /\ refunded'[j] < k /\ k <= consumed'[j]
<1>1. \A j \in Jobs : /\ refunded[j] \in Nat /\ consumed[j] \in Nat
                      /\ refunded'[j] \in Nat /\ consumed'[j] \in Nat
  BY DEF TypeOK, HistoryTypeOK
<1>2. \A j \in Jobs, k \in Int : /\ k \in refunded[j] + 1 .. consumed[j] <=>
                                       refunded[j] < k /\ k <= consumed[j]
                                 /\ k \in refunded'[j] + 1 .. consumed'[j] <=>
                                       refunded'[j] < k /\ k <= consumed'[j]
  BY <1>1
<1>3. \A j \in Jobs : /\ refunded[j] + 1 .. consumed[j] \subseteq Int
                      /\ refunded'[j] + 1 .. consumed'[j] \subseteq Int
  BY <1>1
<1>4. t \in Outstanding(m) <=>
         \E j \in Jobs : sub[j].model = m
            /\ \E k \in refunded[j] + 1 .. consumed[j] : t = <<j, k>>
  BY DEF Outstanding, OnModel
<1>5. t \in Outstanding(m)' <=>
         \E j \in Jobs : sub'[j].model = m
            /\ \E k \in refunded'[j] + 1 .. consumed'[j] : t = <<j, k>>
  BY DEF Outstanding, OnModel
<1>6. QED
  BY <1>2, <1>3, <1>4, <1>5

\* consumeExecutionLimits.lua puts a token out and returnTokensAtomic.lua takes one back,
\* each with the counter.
LEMMA NextTokensCounted ==
    ASSUME "midnight" \notin Environment, \A p, q \in Procs : p = q
    PROVE  TypeOK /\ TypeOK' /\ WithinBudget /\ QueuedLeaveTraces /\ TakenQueued /\ NoneStale
               /\ RefundedOnce /\ TokensCounted /\ [Next]_vars => TokensCounted'
<1> SUFFICES ASSUME TypeOK, TypeOK', WithinBudget, QueuedLeaveTraces, TakenQueued, NoneStale,
                    RefundedOnce, TokensCounted, [Next]_vars, NEW m \in Models
             PROVE  IsFiniteSet(Outstanding(m)') /\ rpd'[m] = Cardinality(Outstanding(m)')
  BY DEF TokensCounted
<1> DEFINE T == Outstanding(m)
<1>1. IsFiniteSet(T) /\ rpd[m] = Cardinality(T) /\ rpd[m] \in Nat
  BY DEF TokensCounted, TypeOK, StoreTypeOK
<1>2. \A i \in Jobs : /\ refunded[i] \in Nat /\ refunded'[i] \in Nat
                      /\ consumed[i] \in Nat /\ consumed'[i] \in Nat
                      /\ refunded[i] <= consumed[i]
  BY DEF TypeOK, HistoryTypeOK, RefundedOnce
<1>3. \A i \in Jobs : sub'[i].model = sub[i].model \/ (consumed[i] = 0 /\ consumed'[i] = 0)
  <2>1. SUFFICES ASSUME NEW i \in Jobs, AcquireCandidate(i)
                 PROVE  consumed[i] = 0 /\ consumed'[i] = 0
    BY SubmissionMoves, Writers
  <2>2. bull[i].st = "none" /\ SubmissionStep(i)
    BY <2>1, AcquireMoves DEF QueuedLeaveTraces, SlotFirst, WithinBudget, AddedOnce,
                              SubmissionStep
  <2>3. consumed' = consumed
    BY <2>2, SubmissionWrites DEF SubmissionFrame, historyVars
  <2>4. QED
    BY <2>2, <2>3 DEF TakenQueued
<1>4. ASSUME NEW p \in Procs, NEW j \in Jobs, TakeTokens(p, j)
      PROVE  IsFiniteSet(T') /\ rpd'[m] = Cardinality(T')
  <2> DEFINE new == <<j, consumed[j] + 1>>
  <2>1. /\ sub' = sub /\ refunded' = refunded /\ consumed'[j] = consumed[j] + 1
        /\ \A i \in Jobs \ {j} : consumed'[i] = consumed[i]
        /\ rpd' = [rpd EXCEPT ![sub[j].model] = @ + 1]
    BY <1>4 DEF TakeTokens, WorkerFrame, TypeOK, HistoryTypeOK
  <2>2. CASE sub[j].model = m
    <3>1. T' = T \cup {new}
      <4>1. ASSUME NEW t PROVE t \in T' <=> t \in T \/ t = new
        <5>1. \A i \in Jobs, k \in Int :
                 /\ refunded'[i] < k /\ k <= consumed'[i] <=>
                       \/ refunded[i] < k /\ k <= consumed[i]
                       \/ i = j /\ k = consumed[j] + 1
          BY <1>2, <2>1
        <5>2. consumed[j] + 1 \in Int
          BY <1>2
        <5>3. QED
          BY <2>1, <2>2, <5>1, <5>2, OutstandingTokens
      <4>2. QED
        BY <4>1
    <3>2. new \notin T
      <4>1. ASSUME NEW k \in Int, k <= consumed[j], new = <<j, k>> PROVE FALSE
        <5>1. k = consumed[j] + 1
          BY <4>1
        <5>2. QED
          BY <1>2, <4>1, <5>1
      <4>2. \A i \in Jobs, k \in Int : new = <<i, k>> => i = j
        OBVIOUS
      <4>3. QED
        BY <4>1, <4>2, OutstandingTokens
    <3>3. rpd'[m] = rpd[m] + 1
      BY <2>1, <2>2 DEF TypeOK, StoreTypeOK
    <3> HIDE DEF T, new
    <3>4. QED
      BY <1>1, <3>1, <3>2, <3>3, FS_AddElement
  <2>3. CASE sub[j].model # m
    <3>1. T' = T
      <4>1. ASSUME NEW t PROVE t \in T' <=> t \in T
        BY <2>1, <2>3, OutstandingTokens
      <4>2. QED
        BY <4>1
    <3>2. rpd'[m] = rpd[m]
      BY <2>1, <2>3 DEF TypeOK, StoreTypeOK
    <3>3. QED
      BY <1>1, <3>1, <3>2
  <2>4. QED
    BY <2>2, <2>3
<1>5. ASSUME NEW p \in Procs, NEW j \in Jobs, GiveTokensBack(p, j),
             hsnap[p][j].model = "id"
      PROVE  IsFiniteSet(T') /\ rpd'[m] = Cardinality(T')
  <2> DEFINE old == <<j, 1>>
  <2>1. /\ sub' = sub /\ consumed' = consumed /\ refunded'[j] = refunded[j] + 1
        /\ \A i \in Jobs \ {j} : refunded'[i] = refunded[i]
        /\ rpd' = [rpd EXCEPT ![sub[j].model] = DecrAndClamp(@)]
    BY <1>5 DEF GiveTokensBack, ReturnTokens, FailedEventsFrame, TypeOK, HistoryTypeOK
  <2>2. refunded[j] = 0 /\ consumed[j] > 0
    BY <1>5 DEF GiveTokensBack, RefundedOnce
  <2>3. CASE sub[j].model = m
    <3>1. T' = T \ {old}
      <4>1. ASSUME NEW t PROVE t \in T' <=> t \in T /\ t # old
        <5>1. \A i \in Jobs, k \in Int :
                 /\ refunded'[i] < k /\ k <= consumed'[i] <=>
                       /\ refunded[i] < k /\ k <= consumed[i]
                       /\ ~(i = j /\ k = 1)
          BY <1>2, <2>1, <2>2
        <5>2. QED
          BY <2>1, <2>3, <5>1, OutstandingTokens
      <4>2. QED
        BY <4>1
    <3>2. old \in T
      BY <1>2, <2>2, <2>3, OutstandingTokens
    <3>3. rpd'[m] = DecrAndClamp(rpd[m])
      BY <2>1, <2>3 DEF TypeOK, StoreTypeOK
    <3> HIDE DEF T, old
    <3>4. IsFiniteSet(T') /\ Cardinality(T') = Cardinality(T) - 1
      BY <1>1, <3>1, <3>2, FS_RemoveElement
    <3>5. Cardinality(T') \in Nat
      BY <3>4, FS_CardinalityType
    <3>6. QED
      BY <1>1, <3>3, <3>4, <3>5 DEF DecrAndClamp
  <2>4. CASE sub[j].model # m
    <3>1. T' = T
      <4>1. ASSUME NEW t PROVE t \in T' <=> t \in T
        BY <2>1, <2>4, OutstandingTokens
      <4>2. QED
        BY <4>1
    <3>2. rpd'[m] = rpd[m]
      BY <2>1, <2>4 DEF TypeOK, StoreTypeOK
    <3>3. QED
      BY <1>1, <3>1, <3>2
  <2>5. QED
    BY <2>3, <2>4
<1>6. CASE /\ ~\E p \in Procs, j \in Jobs : TakeTokens(p, j)
           /\ ~\E p \in Procs, j \in Jobs : GiveTokensBack(p, j) /\ hsnap[p][j].model = "id"
  <2>1. \A i \in Jobs : consumed'[i] = consumed[i]
    BY <1>6, DayWriters
  <2>2. \A p \in Procs, j \in Jobs : GiveTokensBack(p, j) => UNCHANGED <<rpd, refunded>>
    BY <1>6 DEF GiveTokensBack
  <2>3. ~Midnight /\ \A j \in Jobs : ~RefundStale(j)
    BY DEF Midnight, NoneStale, CronIdle, RefundStale
  <2>4. rpd' = rpd
    BY <1>6, <2>2, <2>3, DayWriters
  <2>5. \A i \in Jobs : refunded'[i] = refunded[i]
    BY <2>2, <2>3, Refunders
  <2>6. T' = T
    <3>1. ASSUME NEW t PROVE t \in T' <=> t \in T
      <4>1. \A i \in Jobs, k \in Int : refunded[i] < k /\ k <= consumed[i] =>
               sub'[i].model = sub[i].model
        BY <1>2, <1>3
      <4>2. QED
        BY <2>1, <2>5, <4>1, OutstandingTokens
    <3>2. QED
      BY <3>1
  <2>7. QED
    BY <1>1, <2>4, <2>6
<1>7. QED
  BY <1>4, <1>5, <1>6

\* Initially no token is out.
LEMMA InitTokens == Init => TokensCounted
<1> SUFFICES ASSUME Init, NEW m \in Models
             PROVE  IsFiniteSet(Outstanding(m)) /\ rpd[m] = Cardinality(Outstanding(m))
  BY DEF TokensCounted
<1>1. \A j \in Jobs : refunded[j] + 1 .. consumed[j] = {}
  BY DEF Init, HistoryInit
<1>2. Outstanding(m) = {}
  BY <1>1 DEF Outstanding, OnModel
<1>3. QED
  BY <1>2, FS_EmptySet DEF Init, StoreInit

\* The daily counter of a model is at all times what was taken and not given back, for
\* every number of jobs, users and models and through crashes, lost locks, failed commands
\* and dying requests: a retry that finds no flag takes tokens again and counts again, and
\* one refund takes one unit off.  The theorem is about one worker process, jobs that do
\* not age and one day: a second process and the cron give the same token back again, and
\* midnight forgets the tokens that are out.
THEOREM DayCounterIsExact ==
    ASSUME \A k \in {"midnight", "aging"} : k \notin Environment,
           \A p, q \in Procs : p = q
    PROVE  Spec => []TokensCounted
<1>1. TypeOK /\ NoneStale /\ [Next]_vars => NoneStale'
  BY NextNoneStale
<1>2. TypeOK /\ WithinBudget /\ NothingUnpaid /\ NoneStale /\ AboutFailed
          /\ RefundedOnce /\ [Next]_vars => RefundedOnce'
  BY NextRefundedOnce
<1>3. TypeOK /\ TypeOK' /\ WithinBudget /\ QueuedLeaveTraces /\ TakenQueued /\ NoneStale
          /\ RefundedOnce /\ TokensCounted /\ [Next]_vars => TokensCounted'
  BY NextTokensCounted
<1>4. Init => NothingUnpaid
  BY DEF Init, StoreInit, HistoryInit, WorkerInit, EmptyMeta, NothingUnpaid, Unpaid, PaidPcs
<1>5. Spec => [](TypeOK /\ WithinBudget /\ ScannedQueued /\ NoneStale)
  BY <1>1, InitType, NextType, InitBudget, NextScanned, NextBudget, InitRefunds, PTL DEF Spec
<1>6. Spec => [](NothingUnpaid /\ AboutFailed /\ QueuedLeaveTraces /\ TakenQueued)
  BY <1>4, <1>5, NextPays, InitRefunds, NextAboutFailed, InitDay, NextTraces,
     NextTakenQueued, PTL DEF Spec
<1>7. Spec => []RefundedOnce
  BY <1>2, <1>5, <1>6, InitRefundedOnce, PTL DEF Spec
<1>8. QED
  BY <1>3, <1>5, <1>6, <1>7, InitTokens, PTL DEF Spec

\* Nothing but minutes passing happens to the program; a cron that has nothing to do
\* may die.
Calm == Environment \subseteq {"minute", "cronDies"}

AllUp == \A p \in Procs : up[p]

\* Both promises of a request settle, a queued job is one whose queue.add did, and a
\* worker gets it with its metadata.
Whole(j) ==
    /\ sub[j].pc # "dead" /\ sub[j].put # "failed"
    /\ sub[j].pc = "accepted" => bull[j].st # "none" /\ sub[j].put = "done"
    /\ bull[j].st # "none" => sub[j].pc \in {"enqueue", "accepted"}
    /\ sub[j].put = "pending" => bull[j].st \in {"none", "waiting"}
    /\ sub[j].put = "done" => meta[j].owner /\ meta[j].model # "none"
RequestWhole == \A j \in Jobs : Whole(j)

\* The metadata names the model the request took until a handler has an answer for it.
ModelKept ==
    \A j \in Jobs : meta[j].model = "api" =>
        result[j] = "completed" \/ \E p \in Procs : At(p, j, "store")

\* A failed handler knows the owner and the model of its job.
SnapWhole ==
    \A p \in Procs, j \in Jobs :
        hpc[p][j] # "idle" => hsnap[p][j] = [owner |-> TRUE, model |-> "id"]

\* queue:waiting is the number of jobs that were counted and not taken off.
BacklogExact == \A m \in Models : waiting[m] = Cardinality(Backlog(m))

\* A failed handler has yet to release the slot of the job.
ToRelease(p, j) == j \in events[p] \/ hpc[p][j] \in {"refund", "write", "mark", "release"}

\* A job is not removed, and one that failed holds no slot, or a failed handler will
\* release it.
FailedReleased ==
    \A j \in Jobs :
        /\ bull[j].st # "removed"
        /\ bull[j].st = "failed" =>
              j \notin slots[UserOf[j]] \/ \E p \in Procs : ToRelease(p, j)

\* What can happen then.
LEMMA CalmNext ==
    ASSUME Calm, TypeOK, NoneStale, AllUp, [Next]_vars
    PROVE  \/ \E j \in Jobs : SubmissionStep(j) \/ PromoteDelayed(j) \/ RecoverStalled(j)
           \/ \E p \in Procs, j \in Jobs :
                 Fetch(p, j) \/ HandlerStep(p, j) \/ FailedEventsStep(p, j)
           \/ UNCHANGED <<meta, result, slots, waiting, rpd, queueVars, sub, up, workerVars,
                          handlerVars, historyVars>>
<1>2. \A k \in {"addFails", "webDies", "lockLost", "aging", "redis", "crash", "shutdown",
                "midnight"} : k \notin Environment
  BY DEF Calm
<1>3. /\ \A j \in Jobs : ~EnqueueFails(j) /\ ~WebDies(j) /\ ~LoseLock(j) /\ ~Age(j)
      /\ \A p \in Procs, j \in Jobs : ~HandlerFault(p, j) /\ ~FailureLoses(p, j)
      /\ ~Midnight
  BY <1>2 DEF EnqueueFails, WebDies, LoseLock, Age, HandlerFault, RedisFails, ReplyLost,
              FinalizeLoses, FailureLoses, Midnight, Fault
<1>4. \A p \in Procs : ~ProcessStep(p)
  BY <1>2 DEF ProcessStep, Crash, Shutdown, ListenerRejects, Restart, AllUp, Fault
<1>5. /\ ~ExpiryStep /\ ~CronDies
      /\ \A u \in Users : ~CleanupSlots(u)
  <2>1. cron.pc = "idle" /\ \A j \in Jobs : ~Stale(j)
    BY DEF NoneStale, CronIdle, Stale
  <2>2. ASSUME NEW u \in Users PROVE Unexpired(u) = slots[u]
    BY DEF Unexpired, NoneStale, TypeOK, StoreTypeOK
  <2>3. QED
    BY <2>1, <2>2 DEF ExpiryStep, BeginExpiry, EndExpiry, ScanQueue, ReadStale, RemoveStale,
                      RefundStale, ExpireStale, CronDies, CleanupSlots
<1>6. CASE Rest \/ (\E m \in Models : MinuteElapses(m)) \/ UNCHANGED vars
  BY <1>6 DEF Rest, MinuteElapses, vars, storeVars, queueVars, workerVars, handlerVars,
              historyVars
<1>7. CASE \E j \in Jobs : \/ SubmissionStep(j) \/ EnqueueFails(j) \/ WebDies(j)
                           \/ PromoteDelayed(j) \/ RecoverStalled(j) \/ LoseLock(j)
  BY <1>3, <1>7
<1>8. CASE \E p \in Procs, j \in Jobs :
              \/ Fetch(p, j) \/ HandlerStep(p, j) \/ HandlerFault(p, j)
              \/ FailedEventsStep(p, j) \/ FailureLoses(p, j)
  BY <1>3, <1>8
<1>9. QED
  BY <1>3, <1>4, <1>5, <1>6, <1>7, <1>8 DEF Next, ProcessStep

\* No process goes down.
LEMMA NextAllUp ==
    ASSUME Calm
    PROVE  TypeOK /\ NoneStale /\ AllUp /\ [Next]_vars => AllUp' /\ up' = up
<1> SUFFICES ASSUME TypeOK, NoneStale, AllUp, [Next]_vars PROVE up' = up
  BY DEF AllUp
<1>1. ASSUME NEW j \in Jobs, SubmissionStep(j) \/ PromoteDelayed(j) \/ RecoverStalled(j)
      PROVE  up' = up
  BY <1>1, SubmissionWrites, QueueWrites DEF SubmissionFrame, QueueFrame
<1>2. ASSUME NEW p \in Procs, NEW j \in Jobs,
             Fetch(p, j) \/ HandlerStep(p, j) \/ FailedEventsStep(p, j)
      PROVE  up' = up
  BY <1>2, HandlerWrites, FailedWrites DEF WorkerFrame
<1>3. QED
  BY <1>1, <1>2, CalmNext

\* What BullMQ knows of a job, and who is told: a worker fetches it before it can end, the
\* holder of its lock completes it, and its failure reaches a process.
LEMMA CalmQueue ==
    ASSUME Calm, TypeOK, NoneStale, AllUp, [Next]_vars, NEW i \in Jobs
    PROVE  /\ bull'[i].st = "removed" => bull[i].st = "removed"
           /\ bull'[i].st \notin {"none", "waiting"} =>
                 bull[i].st \notin {"none", "waiting"} \/ \E p \in Procs : Fetch(p, i)
           /\ bull'[i].st = "completed" =>
                 bull[i].st = "completed" \/ \E p \in Procs : Holds(p, i) /\ Return(p, i)
           /\ bull'[i].st = "failed" =>
                 bull[i].st = "failed" \/ \E p \in Procs : i \in events'[p]
           /\ \A p \in Procs : /\ i \in events[p] => i \in events'[p] \/ OnFailed(p, i)
                               /\ hpc'[p][i] = hpc[p][i] \/ FailedEventsStep(p, i)
<1> DEFINE Told == \A p \in Procs : /\ i \in events[p] => i \in events'[p] \/ OnFailed(p, i)
                                    /\ hpc'[p][i] = hpc[p][i] \/ FailedEventsStep(p, i)
           Goal == /\ bull'[i].st = "removed" => bull[i].st = "removed"
                   /\ bull'[i].st \notin {"none", "waiting"} =>
                         bull[i].st \notin {"none", "waiting"} \/ \E p \in Procs : Fetch(p, i)
                   /\ bull'[i].st = "completed" =>
                         \/ bull[i].st = "completed"
                         \/ \E p \in Procs : Holds(p, i) /\ Return(p, i)
                   /\ bull'[i].st = "failed" =>
                         bull[i].st = "failed" \/ \E p \in Procs : i \in events'[p]
                   /\ Told
<1>1. ASSUME NEW j \in Jobs, SubmissionStep(j)
      PROVE  Goal
  <2>1. AddJob(j) => bull'[j].st = "waiting"
    BY DEF AddJob, Enqueued, TypeOK, QueueTypeOK, BullRecord
  <2>2. QED
    BY <1>1, <2>1, SubmissionWrites DEF SubmissionFrame, handlerVars
<1>2. ASSUME NEW j \in Jobs, PromoteDelayed(j) \/ RecoverStalled(j)
      PROVE  Goal
  <2>1. Told
    BY <1>2, QueueWrites
       DEF QueueFrame, handlerVars, PromoteDelayed, RecoverStalled, PublishFailed
  <2>2. CASE i = j /\ PromoteDelayed(j)
    BY <2>1, <2>2, QueueMoves DEF RecoverStalled, LoseLock, PromoteDelayed, Holds
  <2>3. CASE i = j /\ RecoverStalled(j)
    <3>1. bull[j].st = "active" /\ bull'[j].st \in {"waiting", "failed"}
      BY <2>3 DEF RecoverStalled, Holds, TypeOK, QueueTypeOK, BullRecord
    <3>2. bull'[j].st = "failed" => \E p \in Procs : j \in events'[p]
      <4>1. CASE bull[j].stalls >= MaxStalled
        BY <2>3, <4>1 DEF RecoverStalled, PublishFailed
      <4>2. CASE ~(bull[j].stalls >= MaxStalled)
        BY <2>3, <4>2 DEF RecoverStalled, TypeOK, QueueTypeOK, BullRecord
      <4>3. QED
        BY <4>1, <4>2
    <3>3. QED
      BY <2>1, <2>3, <3>1, <3>2
  <2>4. CASE i # j
    BY <1>2, <2>1, <2>4, QueueWrites
  <2>5. QED
    BY <1>2, <2>2, <2>3, <2>4
<1>3. ASSUME NEW p \in Procs, NEW j \in Jobs, Fetch(p, j) \/ HandlerStep(p, j)
      PROVE  Goal
  <2>1. Told
    <3>1. CASE Throw(p, j)
      BY <1>3, <3>1, HandlerWrites
         DEF WorkerFrame, handlerVars, Throw, Failed, PublishFailed, queueVars
    <3>2. CASE ~Throw(p, j)
      BY <1>3, <3>2, HandlerWrites, HandlerMoves DEF WorkerFrame, handlerVars
    <3>3. QED
      BY <3>1, <3>2
  <2>2. CASE bull'[i] = bull[i]
    BY <2>1, <2>2
  <2>3. CASE i = j /\ Fetch(p, j)
    BY <2>1, <2>3, HandlerMoves
  <2>4. CASE i = j /\ DelayJob(p, j) /\ Holds(p, j)
    <3>1. bull'[j].st = "delayed" /\ bull[j].st = "active"
      BY <1>3, <2>4, HandlerMoves DEF Holds
    <3>2. QED
      BY <2>1, <2>4, <3>1
  <2>5. CASE i = j /\ Return(p, j) /\ Holds(p, j)
    <3>1. ~DelayJob(p, j)
      BY <2>5 DEF Return, DelayJob, At
    <3>2. bull'[j].st = "completed" /\ bull[j].st = "active"
      BY <1>3, <2>5, <3>1, HandlerMoves DEF Holds
    <3>3. QED
      BY <2>1, <2>5, <3>2
  <2>6. CASE i = j /\ Throw(p, j) /\ Holds(p, j)
    <3>1. bull'[j].st \in {"delayed", "failed"} /\ bull[j].st = "active"
      BY <1>3, <2>6, HandlerMoves DEF Holds
    <3>2. bull'[j].st = "failed" => j \in events'[p]
      <4> DEFINE final == At(p, j, "fatal") \/ bull[j].att + 1 >= Attempts
      <4>1. CASE final
        BY <2>6, <4>1 DEF Throw, Failed, PublishFailed, AllUp
      <4>2. CASE ~final
        BY <2>6, <4>2 DEF Throw, Failed, TypeOK, QueueTypeOK, BullRecord
      <4>3. QED
        BY <4>1, <4>2
    <3>3. QED
      BY <2>1, <2>6, <3>1, <3>2
  <2>7. QED
    BY <1>3, <2>2, <2>3, <2>4, <2>5, <2>6, HandlerWrites, HandlerMoves
<1>4. ASSUME NEW p \in Procs, NEW j \in Jobs, FailedEventsStep(p, j)
      PROVE  Goal
  <2>1. Told
    <3>1. ASSUME NEW q \in Procs, i \in events[q], i \notin events'[q]
          PROVE  OnFailed(q, i)
      <4>1. OnFailed(p, j)
        BY <1>4, <3>1
           DEF FailedEventsStep, GiveTokensBack, WriteFailure, MarkFailure,
               ReleaseFailedSlot, LeaveAfterFailure
      <4>2. q = p /\ i = j
        BY <3>1, <4>1 DEF OnFailed, TypeOK, QueueTypeOK
      <4>3. QED
        BY <4>1, <4>2
    <3>2. \A q \in Procs : hpc'[q][i] = hpc[q][i] \/ FailedEventsStep(q, i)
      BY <1>4, FailedWrites
    <3>3. QED
      BY <3>1, <3>2
  <2>2. QED
    BY <1>4, <2>1, FailedWrites
<1>5. CASE UNCHANGED <<queueVars, handlerVars>>
  BY <1>5 DEF queueVars, handlerVars
<1>6. QED
  BY <1>1, <1>2, <1>3, <1>4, <1>5, CalmNext

\* What the request of a job does to its promises and to the metadata.
LEMMA WholeMoves ==
    ASSUME TypeOK, WithinBudget, AddFollowsIncr, NEW j \in Jobs, Whole(j), SubmissionStep(j)
    PROVE  Whole(j)'
<1> USE DEF TypeOK, SubmissionTypeOK, Whole
<1>1. (bull[j].st = "none") <=> (sub[j].add # "done")
  BY DEF WithinBudget, AddedOnce
<1>2. sub[j].pc \notin {"undo", "error"}
  BY DEF AddFollowsIncr
<1>3. CASE AddJob(j)
  <2>1. sub[j].pc = "enqueue" /\ sub[j].add = "pending" /\ meta' = meta
    BY <1>2, <1>3 DEF AddJob, InFlight
  <2>2. bull'[j].st = "waiting"
    BY <1>3 DEF AddJob, Enqueued, QueueTypeOK, BullRecord
  <2>3. sub'[j].put = sub[j].put
        /\ sub'[j].pc = IF sub[j].put = "done" THEN "accepted" ELSE "enqueue"
    BY <1>3, <2>1 DEF AddJob, Joined
  <2>4. QED
    BY <2>1, <2>2, <2>3
<1>4. CASE PutMeta(j)
  <2>1. sub[j].pc = "enqueue" /\ sub[j].put = "pending" /\ bull' = bull
    BY <1>2, <1>4 DEF PutMeta, InFlight
  <2>2. meta'[j].owner /\ meta'[j].model = "id"
    BY <1>4 DEF PutMeta, StoreTypeOK, MetaRecord
  <2>3. sub'[j].put = "done"
        /\ sub'[j].pc = IF sub[j].add = "done" THEN "accepted" ELSE "enqueue"
    BY <1>4, <2>1 DEF PutMeta, Joined
  <2>4. QED
    BY <1>1, <2>1, <2>2, <2>3
<1>5. CASE \/ StartSubmission(j) \/ SkipUnloaded(j) \/ SkipExhausted(j) \/ RefuseUser(j)
           \/ NoModelLeft(j) \/ CountWaiting(j) \/ UndoWaiting(j)
  <2>1. /\ sub[j].pc \in {"idle", "select", "incr", "full"} /\ UNCHANGED <<meta, bull>>
        /\ sub'[j].put = sub[j].put
        /\ sub'[j].pc \in {"select", "rejected", "full", "enqueue"}
    <3>1. CASE StartSubmission(j)
      BY <3>1 DEF StartSubmission
    <3>2. CASE CountWaiting(j)
      BY <3>2 DEF CountWaiting
    <3>3. CASE UndoWaiting(j)
      BY <3>3 DEF UndoWaiting
    <3>4. CASE SkipUnloaded(j)
      BY <3>4 DEF SkipUnloaded, AtCandidate
    <3>5. CASE SkipExhausted(j)
      BY <3>5 DEF SkipExhausted, AtLoaded, AtCandidate
    <3>6. CASE RefuseUser(j)
      BY <3>6 DEF RefuseUser, AtLoaded, AtCandidate
    <3>7. CASE NoModelLeft(j)
      BY <3>7 DEF NoModelLeft
    <3> HIDE DEF TypeOK, SubmissionTypeOK, Whole
    <3>8. QED
      BY <1>5, <3>1, <3>2, <3>3, <3>4, <3>5, <3>6, <3>7
  <2>2. QED
    BY <2>1
<1>6. CASE AcquireCandidate(j)
  <2>1. sub[j].pc = "select" /\ sub'[j].pc = "incr" /\ UNCHANGED <<meta, bull>>
    BY <1>6, AcquireMoves DEF AcquireCandidate
  <2>2. sub'[j].put = sub[j].put
    BY <1>6 DEF AcquireCandidate
  <2>3. QED
    BY <2>1, <2>2
<1>7. QED
  BY <1>2, <1>3, <1>4, <1>5, <1>6 DEF SubmissionStep, UndoEnqueue

\* Only a handler with an answer writes another model into the metadata, and nothing takes
\* its owner away.
LEMMA ModelMoves ==
    ASSUME Calm, TypeOK, NoneStale, AllUp, [Next]_vars, NEW i \in Jobs
    PROVE  \/ meta'[i].owner = meta[i].owner /\ meta'[i].model = meta[i].model
           \/ meta'[i].owner /\ meta'[i].model = "id" /\ SubmissionStep(i)
           \/ /\ \E p \in Procs : FinalizeMeta(p, i)
              /\ meta'[i].owner = meta[i].owner /\ meta'[i].model \in {"id", "api"}
<1> USE DEF TypeOK, StoreTypeOK, MetaRecord
<1>1. ASSUME NEW j \in Jobs, SubmissionStep(j)
      PROVE  \/ meta'[i].owner = meta[i].owner /\ meta'[i].model = meta[i].model
             \/ meta'[i].owner /\ meta'[i].model = "id" /\ SubmissionStep(i)
  <2>1. CASE PutMeta(j)
    BY <1>1, <2>1 DEF PutMeta
  <2>2. CASE ~PutMeta(j)
    <3>1. meta' = meta
      BY <1>1, <2>2 DEF SubmissionStep, StartSubmission, SkipUnloaded, AcquireCandidate,
                        SkipExhausted, RefuseUser, NoModelLeft, CountWaiting, UndoWaiting,
                        AddJob, UndoEnqueue
    <3>2. QED
      BY <3>1
  <2>3. QED
    BY <2>1, <2>2
<1>2. ASSUME NEW j \in Jobs, PromoteDelayed(j) \/ RecoverStalled(j)
      PROVE  meta' = meta
  BY <1>2, QueueWrites DEF QueueFrame, storeVars
<1>3. ASSUME NEW p \in Procs, NEW j \in Jobs, Fetch(p, j) \/ HandlerStep(p, j)
      PROVE  \/ meta'[i].owner = meta[i].owner /\ meta'[i].model = meta[i].model
             \/ /\ FinalizeMeta(p, i)
                /\ meta'[i].owner = meta[i].owner /\ meta'[i].model \in {"id", "api"}
  <2>1. CASE \/ MarkInProgress(p, j) \/ FlagTokens(p, j) \/ Requeue(p, j)
             \/ ReachProvider(p, j) \/ ProviderReached(p, j)
    <3>1. CASE MarkInProgress(p, j)
      BY <3>1 DEF MarkInProgress
    <3>2. CASE FlagTokens(p, j)
      BY <3>2 DEF FlagTokens
    <3>3. CASE Requeue(p, j)
      BY <3>3 DEF Requeue
    <3>4. CASE ReachProvider(p, j)
      BY <3>4 DEF ReachProvider
    <3>5. CASE ProviderReached(p, j)
      BY <3>5 DEF ProviderReached
    <3> HIDE DEF TypeOK, StoreTypeOK, MetaRecord
    <3>6. QED
      BY <2>1, <3>1, <3>2, <3>3, <3>4, <3>5
  <2>2. CASE \/ Fetch(p, j) \/ ReadMeta(p, j) \/ HitMinuteLimit(p, j) \/ TakeTokens(p, j)
             \/ HitDayLimit(p, j) \/ DelayJob(p, j) \/ CallProvider(p, j)
             \/ NoApiName(p, j) \/ StoreAnswer(p, j) \/ ReleaseOwnSlot(p, j)
             \/ LeaveBacklog(p, j) \/ Return(p, j) \/ Throw(p, j)
    <3> HIDE DEF TypeOK, StoreTypeOK, MetaRecord
    <3>1. meta' = meta
      BY <2>2 DEF Fetch, ReadMeta, HitMinuteLimit, HitDayLimit, TakeTokens, Refused,
                  DelayJob, CallProvider, NoApiName, StoreAnswer, ReleaseOwnSlot,
                  LeaveBacklog, Return, Throw, storeVars
    <3>2. QED
      BY <3>1
  <2>3. CASE FinalizeMeta(p, j)
    BY <2>3 DEF FinalizeMeta, UsedModel
  <2>4. QED
    BY <1>3, <2>1, <2>2, <2>3 DEF HandlerStep
<1>4. ASSUME NEW p \in Procs, NEW j \in Jobs, FailedEventsStep(p, j)
      PROVE  meta'[i].owner = meta[i].owner /\ meta'[i].model = meta[i].model
  <2>1. CASE \/ OnFailed(p, j) \/ GiveTokensBack(p, j) \/ WriteFailure(p, j)
             \/ ReleaseFailedSlot(p, j) \/ LeaveAfterFailure(p, j)
    <3> HIDE DEF TypeOK, StoreTypeOK, MetaRecord
    <3>1. meta' = meta
      BY <2>1 DEF OnFailed, GiveTokensBack, WriteFailure, ReleaseFailedSlot,
                  LeaveAfterFailure, storeVars
    <3>2. QED
      BY <3>1
  <2>2. CASE MarkFailure(p, j)
    BY <2>2 DEF MarkFailure
  <2> HIDE DEF TypeOK, StoreTypeOK, MetaRecord
  <2>3. QED
    BY <1>4, <2>1, <2>2 DEF FailedEventsStep
<1>5. QED
  BY <1>1, <1>2, <1>3, <1>4, CalmNext

\* The promises of every request settle.
LEMMA NextRequestWhole ==
    ASSUME Calm
    PROVE  TypeOK /\ WithinBudget /\ ScannedQueued /\ NoneStale /\ AllUp /\ AddFollowsIncr
               /\ RequestWhole /\ [Next]_vars => RequestWhole'
<1> SUFFICES ASSUME TypeOK, WithinBudget, ScannedQueued, NoneStale, AllUp, AddFollowsIncr,
                    RequestWhole, [Next]_vars, NEW i \in Jobs
             PROVE  Whole(i)'
  BY DEF RequestWhole
<1>1. Whole(i)
  BY DEF RequestWhole
<1>2. CASE SubmissionStep(i)
  BY <1>1, <1>2, WholeMoves
<1>3. CASE ~SubmissionStep(i)
  <2>1. sub'[i] = sub[i]
    <3>1. ~EnqueueFails(i) /\ ~WebDies(i)
      BY DEF Calm, EnqueueFails, WebDies, Fault
    <3>2. QED
      BY <1>3, <3>1, Writers
  <2>2. /\ meta[i].owner => meta'[i].owner
        /\ meta[i].model # "none" => meta'[i].model # "none"
    BY <1>3, ModelMoves
  <2>3. bull[i].st # "none" => bull'[i].st # "none"
    BY QueuedStays
  <2>4. bull[i].st = "none" => bull'[i].st = "none"
    BY <1>3, QueuedByAdd DEF SubmissionStep
  <2>5. sub[i].put = "pending" => ~\E p \in Procs : Fetch(p, i)
    <3>1. SUFFICES ASSUME NEW p \in Procs, sub[i].put = "pending", Fetch(p, i) PROVE FALSE
      OBVIOUS
    <3>2. ~InFlight(i) /\ bull[i].st = "waiting"
      BY <3>1 DEF Fetch, Calm
    <3>3. QED
      BY <1>1, <3>1, <3>2 DEF Whole, InFlight
  <2>6. sub[i].put = "pending" => bull'[i].st \in {"none", "waiting"}
    BY <1>1, <2>5, CalmQueue DEF Whole
  <2>7. QED
    BY <1>1, <2>1, <2>2, <2>3, <2>4, <2>6 DEF Whole
<1>4. QED
  BY <1>2, <1>3

\* An answer is not overwritten: a failed handler is about another job.
LEMMA AnswerStays ==
    ASSUME TypeOK, NoneStale, AboutFailed, AnswerHeld, [Next]_vars, NEW i \in Jobs,
           result[i] = "completed"
    PROVE  result'[i] = "completed"
<1>1. ~ExpireStale(i)
  BY DEF NoneStale, CronIdle, ExpireStale
<1>2. \A p \in Procs : ~WriteFailure(p, i)
  BY DEF WriteFailure, AboutFailed, AnswerHeld, Holds
<1>3. QED
  BY <1>1, <1>2, Settles

\* A handler that is to store its answer stores it.
LEMMA StoreComes ==
    ASSUME Calm, TypeOK, NoneStale, AllUp, [Next]_vars, NEW p \in Procs, NEW i \in Jobs,
           At(p, i, "store")
    PROVE  At(p, i, "store")' \/ StoreAnswer(p, i)
<1>1. ASSUME NEW j \in Jobs, SubmissionStep(j) \/ PromoteDelayed(j) \/ RecoverStalled(j)
      PROVE  wpc' = wpc
  BY <1>1, SubmissionWrites, QueueWrites DEF SubmissionFrame, QueueFrame, workerVars
<1>2. ASSUME NEW q \in Procs, NEW j \in Jobs, Fetch(q, j) \/ HandlerStep(q, j)
      PROVE  wpc'[p][i] = wpc[p][i] \/ StoreAnswer(p, i)
  <2>1. CASE q # p \/ j # i
    BY <1>2, <2>1, HandlerWrites
  <2>2. CASE q = p /\ j = i
    BY <1>2, <2>2
       DEF Fetch, HandlerStep, ReadMeta, MarkInProgress, TakeTokens, HitMinuteLimit,
           HitDayLimit, Refused, FlagTokens, Requeue, DelayJob, ReachProvider, CallProvider,
           NoApiName, ProviderReached, FinalizeMeta, ReleaseOwnSlot, LeaveBacklog, Return,
           Throw, At
  <2>3. QED
    BY <2>1, <2>2
<1>3. ASSUME NEW q \in Procs, NEW j \in Jobs, FailedEventsStep(q, j)
      PROVE  wpc' = wpc
  BY <1>3, FailedWrites DEF workerVars
<1>4. QED
  BY <1>1, <1>2, <1>3, CalmNext DEF At, workerVars

\* The provider's name for the model comes with the answer.
LEMMA NextModelKept ==
    ASSUME Calm
    PROVE  TypeOK /\ NoneStale /\ AllUp /\ AboutFailed /\ AnswerHeld /\ ModelKept
               /\ [Next]_vars => ModelKept'
<1> SUFFICES ASSUME TypeOK, NoneStale, AllUp, AboutFailed, AnswerHeld, ModelKept,
                    [Next]_vars, NEW i \in Jobs, meta'[i].model = "api"
             PROVE  result'[i] = "completed" \/ \E p \in Procs : At(p, i, "store")'
  BY DEF ModelKept
<1>1. CASE result[i] = "completed"
  BY <1>1, AnswerStays
<1>2. ASSUME NEW p \in Procs, At(p, i, "store")
      PROVE  result'[i] = "completed" \/ At(p, i, "store")'
  <2>1. StoreAnswer(p, i) => result'[i] = "completed"
    BY DEF StoreAnswer, TypeOK, StoreTypeOK
  <2>2. QED
    BY <1>2, <2>1, StoreComes
<1>3. ASSUME NEW p \in Procs, FinalizeMeta(p, i)
      PROVE  At(p, i, "store")'
  BY <1>3, GotoMoves DEF FinalizeMeta, At
<1>4. QED
  BY <1>1, <1>2, <1>3, ModelMoves DEF ModelKept

\* The metadata of a failed job is there, with its owner and the id of its model.
LEMMA FailedIsKnown ==
    ASSUME RequestWhole, ModelKept, AnswerHeld, HandlerHolds, TypeOK, NEW i \in Jobs,
           bull[i].st = "failed"
    PROVE  meta[i].owner /\ meta[i].model = "id" /\ meta[i] # EmptyMeta
<1>1. sub[i].put = "done"
  BY DEF RequestWhole, Whole, TypeOK, SubmissionTypeOK
<1>2. meta[i].owner /\ meta[i].model # "none"
  BY <1>1 DEF RequestWhole, Whole
<1>3. meta[i].model # "api"
  BY DEF ModelKept, AnswerHeld, HandlerHolds, Runs, At, Holds
<1>4. QED
  BY <1>2, <1>3 DEF TypeOK, StoreTypeOK, MetaRecord, EmptyMeta

\* So the failed handler reads it.
LEMMA NextSnapWhole ==
    ASSUME Calm
    PROVE  TypeOK /\ HandlerHolds /\ NoneStale /\ AllUp /\ AboutFailed /\ AnswerHeld
               /\ RequestWhole /\ ModelKept /\ SnapWhole /\ [Next]_vars => SnapWhole'
<1> SUFFICES ASSUME TypeOK, HandlerHolds, NoneStale, AllUp, AboutFailed, AnswerHeld,
                    RequestWhole, ModelKept, SnapWhole, [Next]_vars,
                    NEW p \in Procs, NEW i \in Jobs, hpc'[p][i] # "idle"
             PROVE  hsnap'[p][i] = [owner |-> TRUE, model |-> "id"]
  BY DEF SnapWhole
<1>1. ASSUME NEW q \in Procs, NEW j \in Jobs, FailedEventsStep(q, j)
      PROVE  hsnap'[p][i] = [owner |-> TRUE, model |-> "id"]
  <2>1. CASE q # p \/ j # i
    <3>1. hpc'[p][i] = hpc[p][i] /\ hsnap'[p][i] = hsnap[p][i]
      BY <1>1, <2>1, FailedWrites
    <3>2. QED
      BY <3>1 DEF SnapWhole
  <2>2. CASE q = p /\ j = i /\ OnFailed(q, j)
    <3>1. bull[i].st = "failed"
      BY <2>2 DEF OnFailed, AboutFailed
    <3>2. hsnap'[p][i] = [owner |-> meta[i].owner, model |-> meta[i].model]
      BY <2>2 DEF OnFailed, TypeOK, FailedEventsTypeOK
    <3>3. meta[i].owner = TRUE /\ meta[i].model = "id"
      BY <3>1, FailedIsKnown DEF TypeOK, StoreTypeOK, MetaRecord
    <3>4. QED
      BY <3>2, <3>3
  <2>3. CASE /\ q = p /\ j = i
             /\ \/ GiveTokensBack(q, j) \/ WriteFailure(q, j)
                \/ MarkFailure(q, j) \/ ReleaseFailedSlot(q, j)
    BY <2>3 DEF GiveTokensBack, WriteFailure, MarkFailure, ReleaseFailedSlot, SnapWhole
  <2>4. CASE q = p /\ j = i /\ LeaveAfterFailure(q, j)
    BY <2>4 DEF LeaveAfterFailure, TypeOK, FailedEventsTypeOK
  <2>5. QED
    BY <1>1, <2>1, <2>2, <2>3, <2>4 DEF FailedEventsStep
<1>2. CASE UNCHANGED handlerVars
  BY <1>2 DEF handlerVars, SnapWhole
<1>3. ASSUME NEW j \in Jobs, SubmissionStep(j) \/ PromoteDelayed(j) \/ RecoverStalled(j)
      PROVE  UNCHANGED handlerVars
  BY <1>3, SubmissionWrites, QueueWrites DEF SubmissionFrame, QueueFrame
<1>4. ASSUME NEW q \in Procs, NEW j \in Jobs, Fetch(q, j) \/ HandlerStep(q, j)
      PROVE  UNCHANGED handlerVars
  BY <1>4, HandlerWrites DEF WorkerFrame
<1>5. QED
  BY <1>1, <1>2, <1>3, <1>4, CalmNext

\* What handling a failed job leads to.
LEMMA FailedMoves ==
    ASSUME TypeOK, NEW p \in Procs, NEW i \in Jobs, FailedEventsStep(p, i)
    PROVE  \/ OnFailed(p, i) /\ (meta[i] # EmptyMeta => hpc'[p][i] \in {"refund", "write"})
           \/ GiveTokensBack(p, i) /\ hpc'[p][i] = "write"
           \/ WriteFailure(p, i) /\ hpc'[p][i] = "mark"
           \/ MarkFailure(p, i) /\ hpc'[p][i] = "release"
           \/ /\ ReleaseFailedSlot(p, i) /\ hpc[p][i] = "release"
              /\ hsnap[p][i].owner => i \notin slots'[UserOf[i]]
              /\ hsnap[p][i].model # "none" => hpc'[p][i] = "leave"
           \/ LeaveAfterFailure(p, i) /\ hpc[p][i] = "leave"
<1> USE DEF TypeOK, StoreTypeOK, FailedEventsTypeOK
<1>1. CASE OnFailed(p, i)
  BY <1>1 DEF OnFailed
<1>2. CASE GiveTokensBack(p, i)
  BY <1>2 DEF GiveTokensBack
<1>3. CASE WriteFailure(p, i)
  BY <1>3 DEF WriteFailure
<1>4. CASE MarkFailure(p, i)
  BY <1>4 DEF MarkFailure
<1>5. CASE ReleaseFailedSlot(p, i)
  <2>1. hpc[p][i] = "release" /\ hpc'[p][i] = AfterPipeline(p, i)
    BY <1>5 DEF ReleaseFailedSlot
  <2>2. hsnap[p][i].owner => i \notin slots'[UserOf[i]]
    BY <1>5, JobsAssumption DEF ReleaseFailedSlot, ReleaseSlot
  <2>3. QED
    BY <1>5, <2>1, <2>2 DEF AfterPipeline
<1>6. CASE LeaveAfterFailure(p, i)
  BY <1>6 DEF LeaveAfterFailure
<1>7. QED
  BY <1>1, <1>2, <1>3, <1>4, <1>5, <1>6 DEF FailedEventsStep

\* A job stays counted until somebody decrements for it.
LEMMA BacklogStays ==
    ASSUME Calm, CountFacts, AllUp, RequestWhole, ModelKept, AnswerHeld, SnapWhole,
           [Next]_vars, NEW i \in Jobs, InBacklog(i)
    PROVE  \/ InBacklog(i)' \/ UndoWaiting(i)
           \/ \E p \in Procs : LeaveBacklog(p, i) \/ LeaveAfterFailure(p, i)
<1> USE DEF CountFacts
<1> DEFINE Goal == \/ InBacklog(i)' \/ UndoWaiting(i)
                   \/ \E p \in Procs : LeaveBacklog(p, i) \/ LeaveAfterFailure(p, i)
<1>1. CASE bull[i].st = "failed"
  <2>1. bull'[i].st = "failed"
    BY <1>1, BullMoves
  <2>2. PICK p \in Procs : i \in events[p] \/ hpc[p][i] # "idle"
    BY <1>1 DEF InBacklog, Pending
  <2>3. meta[i] # EmptyMeta
    BY <1>1, FailedIsKnown
  <2>4. hpc[p][i] # "idle" => hsnap[p][i].model = "id"
    BY DEF SnapWhole
  <2>5. CASE FailedEventsStep(p, i)
    <3>1. hpc'[p][i] # "idle" \/ LeaveAfterFailure(p, i)
      <4>1. ReleaseFailedSlot(p, i) => hpc[p][i] # "idle"
        BY DEF ReleaseFailedSlot
      <4>2. QED
        BY <2>3, <2>4, <2>5, <4>1, FailedMoves
    <3>2. QED
      BY <2>1, <3>1 DEF InBacklog
  <2>6. CASE ~FailedEventsStep(p, i)
    <3>1. i \in events'[p] \/ hpc'[p][i] # "idle"
      BY <2>2, <2>6, CalmQueue DEF FailedEventsStep
    <3>2. QED
      BY <2>1, <3>1 DEF InBacklog
  <2>7. QED
    BY <2>5, <2>6
<1>2. CASE bull[i].st # "failed" /\ bull'[i].st = "failed"
  BY <1>2, CalmQueue DEF InBacklog
<1>3. CASE bull[i].st = "none"
  <2>1. sub[i].pc \in {"full", "enqueue"}
    BY <1>3 DEF InBacklog, Pending
  <2>2. CASE bull'[i].st # "none"
    <3>1. bull'[i].st = "waiting"
      BY <1>3, <2>2, CalmQueue DEF Fetch, Holds, Return
    <3>2. QED
      BY <3>1 DEF InBacklog, Pending, HasLeft, Holds
  <2>3. CASE bull'[i].st = "none"
    <3>1. SubmissionStep(i) => sub'[i].pc \in {"full", "enqueue"} \/ UndoWaiting(i)
      <4>1. sub[i].add # "done" /\ ~AddJob(i)
        <5>1. AddJob(i) => bull'[i].st # "none"
          BY DEF AddJob, Enqueued, TypeOK, QueueTypeOK, BullRecord
        <5>2. QED
          BY <1>3, <2>3, <5>1 DEF WithinBudget, AddedOnce
      <4>2. PutMeta(i) => sub'[i].pc = sub[i].pc
        BY <4>1 DEF PutMeta, Joined, TypeOK, SubmissionTypeOK
      <4>3. QED
        BY <2>1, <4>1, <4>2
           DEF SubmissionStep, StartSubmission, SkipUnloaded, AcquireCandidate,
               SkipExhausted, RefuseUser, NoModelLeft, CountWaiting, UndoEnqueue,
               AtLoaded, AtCandidate
    <3>2. ~EnqueueFails(i) /\ ~WebDies(i)
      BY DEF Calm, EnqueueFails, WebDies, Fault
    <3>3. sub'[i].pc \in {"full", "enqueue"} \/ UndoWaiting(i)
      BY <2>1, <3>1, <3>2, Writers
    <3>4. QED
      BY <2>3, <3>3 DEF InBacklog
  <2>4. QED
    BY <2>2, <2>3
<1>4. CASE Pending(i) /\ ~HasLeft(i) /\ bull'[i].st # "failed"
  <2>1. Pending(i)'
    <3>1. bull'[i].st \notin {"none", "removed", "failed"}
      BY <1>4, QueuedStays, CalmQueue DEF Pending
    <3>2. bull'[i].st # "completed"
      <4>1. SUFFICES ASSUME NEW p \in Procs, Holds(p, i), Return(p, i) PROVE FALSE
        BY <1>4, CalmQueue DEF Pending
      <4>2. QED
        BY <1>4, <4>1 DEF HasLeft, Return, At
    <3>3. bull'[i].st \in BullStates
      BY NextType DEF TypeOK, QueueTypeOK, BullRecord
    <3>4. QED
      BY <3>1, <3>2, <3>3 DEF Pending, BullStates
  <2>2. ASSUME HasLeft(i)'
        PROVE  \E p \in Procs : LeaveBacklog(p, i)
    <3>1. PICK p \in Procs : Holds(p, i)' /\ wpc'[p][i] = "return"
      BY <2>2 DEF HasLeft
    <3>2. ~Fetch(p, i)
      BY <3>1, GotoMoves DEF Fetch
    <3>3. Holds(p, i)
      BY <3>1, <3>2, Handling
    <3>4. wpc[p][i] # "return"
      BY <1>4, <3>3 DEF HasLeft
    <3>5. HandlerStep(p, i)
      <4>1. ~HandlerFault(p, i)
        BY DEF Calm, HandlerFault, RedisFails, ReplyLost, FinalizeLoses, Fault
      <4>2. QED
        BY <3>1, <3>2, <3>4, <4>1, Handling
    <3>6. LeaveBacklog(p, i) \/ DelayJob(p, i)
      <4>1. \/ LeaveBacklog(p, i) \/ DelayJob(p, i)
            \/ \E x \in {"mark", "reach", "consume", "requeue", "fatal", "flag", "delay",
                         "call", "reached", "throw", "finalize", "store", "release",
                         "leave", "idle"} :
                  Goto(p, i, x)
        BY <3>5 DEF HandlerStep, ReadMeta, MarkInProgress, TakeTokens, HitMinuteLimit,
                    HitDayLimit, Refused, FlagTokens, Requeue, ReachProvider, CallProvider,
                    NoApiName, ProviderReached, FinalizeMeta, StoreAnswer,
                    ReleaseOwnSlot, Return, Throw
      <4>2. QED
        BY <3>1, <4>1, GotoMoves
    <3>7. ~DelayJob(p, i)
      <4>1. DelayJob(p, i) => bull'[i].st = "delayed"
        BY <3>3, <3>5, HandlerMoves
      <4>2. QED
        BY <3>1, <4>1 DEF Holds
    <3>8. QED
      BY <3>6, <3>7
  <2>3. QED
    BY <2>1, <2>2 DEF InBacklog
<1>5. QED
  BY <1>1, <1>2, <1>3, <1>4 DEF InBacklog

\* queue:waiting follows the jobs it counts, up and down.
LEMMA NextBacklogExact ==
    ASSUME Calm, \A p, q \in Procs : p = q
    PROVE  CountFacts /\ AllUp /\ RequestWhole /\ ModelKept /\ AnswerHeld /\ SnapWhole
               /\ BacklogExact /\ [Next]_vars => BacklogExact'
<1> SUFFICES ASSUME CountFacts, AllUp, RequestWhole, ModelKept, AnswerHeld, SnapWhole,
                    BacklogExact, [Next]_vars, NEW m \in Models
             PROVE  waiting'[m] = Cardinality(Backlog(m)')
  BY DEF BacklogExact
<1> DEFINE B == Backlog(m)
<1>1. IsFiniteSet(B) /\ Cardinality(B) \in Nat /\ waiting[m] = Cardinality(B)
  BY BacklogFinite DEF BacklogExact
<1>2. Unhurt
  BY DEF Unhurt, Calm
<1>3. \A i \in Jobs : i \in B' => i \in B \/ (CountWaiting(i) /\ sub[i].model = m)
  BY <1>2, BacklogMembers
<1>4. B' \subseteq Jobs /\ B \subseteq Jobs
  BY DEF Backlog, OnModel
<1>5. ASSUME NEW i \in B
      PROVE  \/ i \in B' \/ UndoWaiting(i)
             \/ \E p \in Procs : LeaveBacklog(p, i) \/ LeaveAfterFailure(p, i)
  <2>1. i \in Jobs /\ sub[i].model = m /\ InBacklog(i)
    BY DEF Backlog, OnModel
  <2>2. ~AcquireCandidate(i)
    <3>1. SUFFICES ASSUME AcquireCandidate(i) PROVE FALSE
      OBVIOUS
    <3>2. sub[i].pc = "select" /\ sub[i].add = "pending"
      BY <2>1, <3>1, AcquireMoves DEF CountFacts, AddFollowsIncr
    <3>3. bull[i].st = "none"
      BY <2>1, <3>2 DEF CountFacts, WithinBudget, AddedOnce
    <3>4. QED
      BY <2>1, <3>2, <3>3 DEF InBacklog, Pending
  <2>3. sub'[i].model = sub[i].model
    BY <2>1, <2>2, SubmissionMoves, Writers DEF CountFacts
  <2>4. QED
    BY <2>1, <2>3, BacklogStays DEF Backlog, OnModel
<1>6. ASSUME NEW j \in Jobs, CountWaiting(j)
      PROVE  waiting'[m] = Cardinality(B')
  <2>1. /\ SubmissionStep(j) /\ sub[j].pc = "incr" /\ UNCHANGED <<wpc, hpc>>
        /\ waiting' = [waiting EXCEPT ![sub[j].model] = @ + 1] /\ bull' = bull
        /\ sub'[j].pc \in {"full", "enqueue"} /\ sub'[j].model = sub[j].model
        /\ \A i \in Jobs \ {j} : sub'[i] = sub[i]
    BY <1>6 DEF SubmissionStep, CountWaiting, SubmissionFrame, workerVars, handlerVars,
                CountFacts, TypeOK, SubmissionTypeOK
  <2>2. /\ \A i \in Jobs : CountWaiting(i) => i = j
        /\ \A i \in Jobs : ~UndoWaiting(i)
        /\ \A p \in Procs, i \in Jobs : ~LeaveBacklog(p, i) /\ ~LeaveAfterFailure(p, i)
    <3>1. \A i \in Jobs : CountWaiting(i) => sub[i].pc = "incr" /\ sub'[i].pc # "incr"
      BY DEF CountWaiting, CountFacts, TypeOK, SubmissionTypeOK
    <3>2. \A i \in Jobs : UndoWaiting(i) => sub[i].pc = "full" /\ sub'[i].pc # "full"
      BY DEF UndoWaiting, CountFacts, TypeOK, SubmissionTypeOK
    <3>3. \A p \in Procs, i \in Jobs :
             /\ LeaveBacklog(p, i) => wpc[p][i] = "leave" /\ wpc'[p][i] = "return"
             /\ LeaveAfterFailure(p, i) => hpc[p][i] = "leave" /\ hpc'[p][i] = "idle"
      BY GotoMoves DEF LeaveBacklog, LeaveAfterFailure, At, CountFacts, TypeOK,
                       FailedEventsTypeOK
    <3>4. QED
      BY <2>1, <3>1, <3>2, <3>3
  <2>3. \A i \in B : i \in B'
    BY <1>4, <1>5, <2>2
  <2>4. CASE sub[j].model = m
    <3>1. j \in B' /\ j \notin B
      <4>1. bull[j].st = "none"
        BY <2>1 DEF CountFacts, AddFollowsIncr, WithinBudget, AddedOnce
      <4>2. QED
        BY <2>1, <2>4, <4>1 DEF Backlog, OnModel, InBacklog, Pending
    <3>2. B' = B \cup {j}
      BY <1>3, <1>4, <2>2, <2>3, <3>1
    <3>3. waiting'[m] = waiting[m] + 1
      BY <2>1, <2>4 DEF CountFacts, TypeOK, StoreTypeOK
    <3> HIDE DEF B
    <3>4. QED
      BY <1>1, <3>1, <3>2, <3>3, FS_AddElement
  <2>5. CASE sub[j].model # m
    <3>1. B' = B
      BY <1>3, <1>4, <2>2, <2>3, <2>5
    <3>2. waiting'[m] = waiting[m]
      BY <2>1, <2>5 DEF CountFacts, TypeOK, StoreTypeOK
    <3>3. QED
      BY <1>1, <3>1, <3>2
  <2>6. QED
    BY <2>4, <2>5
<1>7. ASSUME NEW j \in Jobs,
             \/ UndoWaiting(j)
             \/ \E p \in Procs : LeaveBacklog(p, j) \/ LeaveAfterFailure(p, j)
      PROVE  waiting'[m] = Cardinality(B')
  <2>1. \A p \in Procs : LeaveAfterFailure(p, j) => hsnap[p][j].model = "id"
    BY DEF LeaveAfterFailure, SnapWhole
  <2>2. /\ InBacklog(j) /\ ~InBacklog(j)'
        /\ \/ m # sub[j].model /\ waiting'[m] = waiting[m]
           \/ /\ m = sub[j].model
              /\ waiting'[m] \in {waiting[m] - 1, DecrAndClamp(waiting[m])}
    BY <1>2, <1>7, <2>1, BacklogLeaves
  <2>3. /\ \A i \in Jobs : ~CountWaiting(i)
        /\ \A i \in Jobs \ {j} : ~UndoWaiting(i)
        /\ \A p \in Procs, i \in Jobs \ {j} :
              ~LeaveBacklog(p, i) /\ ~LeaveAfterFailure(p, i)
    <3>1. \A i \in Jobs : /\ CountWaiting(i) => sub[i].pc = "incr" /\ sub'[i].pc # "incr"
                          /\ UndoWaiting(i) => sub[i].pc = "full" /\ sub'[i].pc # "full"
      BY DEF CountWaiting, UndoWaiting, CountFacts, TypeOK, SubmissionTypeOK
    <3>2. \A p \in Procs, i \in Jobs :
             /\ LeaveBacklog(p, i) => wpc[p][i] = "leave" /\ wpc'[p][i] = "return"
             /\ LeaveAfterFailure(p, i) => hpc[p][i] = "leave" /\ hpc'[p][i] = "idle"
      BY GotoMoves DEF LeaveBacklog, LeaveAfterFailure, At, CountFacts, TypeOK,
                       FailedEventsTypeOK
    <3>3. CASE UndoWaiting(j)
      <4>1. /\ UNCHANGED <<wpc, hpc>> /\ \A i \in Jobs \ {j} : sub'[i] = sub[i]
            /\ sub[j].pc = "full"
        BY <3>3 DEF UndoWaiting, SubmissionFrame, workerVars, handlerVars, CountFacts,
                    TypeOK, SubmissionTypeOK
      <4>2. QED
        BY <3>1, <3>2, <4>1
    <3>4. ASSUME NEW p \in Procs, LeaveBacklog(p, j)
          PROVE  /\ UNCHANGED <<sub, hpc>>
                 /\ \A q \in Procs, i \in Jobs \ {j} : wpc'[q][i] = wpc[q][i]
      BY <3>4, GotoMoves DEF LeaveBacklog, WorkerFrame, handlerVars, CountFacts
    <3>5. ASSUME NEW p \in Procs, LeaveAfterFailure(p, j)
          PROVE  /\ UNCHANGED <<sub, wpc>>
                 /\ \A q \in Procs, i \in Jobs \ {j} : hpc'[q][i] = hpc[q][i]
      BY <3>5, FailedWrites DEF FailedEventsStep, workerVars, CountFacts
    <3>6. QED
      BY <1>7, <3>1, <3>2, <3>3, <3>4, <3>5
  <2>4. CASE m = sub[j].model
    <3>1. j \in B /\ j \notin B'
      BY <2>2, <2>4 DEF Backlog, OnModel
    <3>2. B' = B \ {j}
      <4>1. B' \subseteq B
        BY <1>3, <1>4, <2>3
      <4>2. \A i \in B \ {j} : i \in B'
        BY <1>4, <1>5, <2>3
      <4>3. QED
        BY <3>1, <4>1, <4>2
    <3> HIDE DEF B
    <3>3. IsFiniteSet(B') /\ Cardinality(B') = Cardinality(B) - 1
      BY <1>1, <3>1, <3>2, FS_RemoveElement
    <3>4. Cardinality(B') \in Nat
      BY <3>3, FS_CardinalityType
    <3>5. QED
      BY <1>1, <2>2, <2>4, <3>3, <3>4 DEF DecrAndClamp
  <2>5. CASE m # sub[j].model
    <3>1. B' \subseteq B
      BY <1>3, <1>4, <2>3
    <3>2. \A i \in B : i # j
      BY <2>5 DEF Backlog, OnModel
    <3>3. \A i \in B : i \in B'
      BY <1>4, <1>5, <2>3, <3>2
    <3>4. B' = B
      BY <3>1, <3>3
    <3>5. QED
      BY <1>1, <2>2, <2>5, <3>4
  <2>6. QED
    BY <2>4, <2>5
<1>8. CASE /\ \A j \in Jobs : ~CountWaiting(j) /\ ~UndoWaiting(j)
           /\ \A p \in Procs, j \in Jobs : ~LeaveBacklog(p, j) /\ ~LeaveAfterFailure(p, j)
  <2>1. B' = B
    BY <1>3, <1>4, <1>5, <1>8
  <2>2. \A j \in Jobs : ~UndoEnqueue(j) /\ ~ExpireStale(j)
    BY DEF CountFacts, AddFollowsIncr, NoneStale, CronIdle, UndoEnqueue, ExpireStale
  <2>3. waiting' = waiting
    BY <1>2, <1>8, <2>2, WaitingWriters DEF CountFacts, Unhurt
  <2>4. QED
    BY <1>1, <2>1, <2>3
<1>9. QED
  BY <1>6, <1>7, <1>8

\* The failure of a job reaches a process, whose handler releases the slot.
LEMMA NextFailedReleased ==
    ASSUME Calm
    PROVE  TypeOK /\ WithinBudget /\ HandlerHolds /\ NoneStale /\ AllUp
               /\ QueuedLeaveTraces /\ RequestWhole /\ ModelKept /\ AnswerHeld
               /\ SnapWhole /\ FailedReleased /\ [Next]_vars => FailedReleased'
<1> SUFFICES ASSUME TypeOK, WithinBudget, HandlerHolds, NoneStale, AllUp,
                    QueuedLeaveTraces, RequestWhole, ModelKept, AnswerHeld, SnapWhole,
                    FailedReleased, [Next]_vars, NEW i \in Jobs
             PROVE  /\ bull'[i].st # "removed"
                    /\ bull'[i].st = "failed" =>
                          i \notin slots'[UserOf[i]] \/ \E p \in Procs : ToRelease(p, i)'
  BY DEF FailedReleased
<1>1. bull'[i].st # "removed"
  BY CalmQueue DEF FailedReleased
<1>2. ASSUME bull'[i].st = "failed", bull[i].st # "failed"
      PROVE  \E p \in Procs : ToRelease(p, i)'
  BY <1>2, CalmQueue DEF ToRelease
<1>3. CASE bull[i].st = "failed" /\ i \notin slots[UserOf[i]]
  BY <1>1, <1>3, SlotsTaken, SlotOfNewJob, JobsAssumption
<1>4. ASSUME bull[i].st = "failed", NEW p \in Procs, ToRelease(p, i)
      PROVE  i \notin slots'[UserOf[i]] \/ ToRelease(p, i)'
  <2>1. meta[i] # EmptyMeta
    BY <1>4, FailedIsKnown
  <2>2. hpc[p][i] # "idle" => hsnap[p][i].owner
    BY DEF SnapWhole
  <2>3. CASE LeaveAfterFailure(p, i)
    <3>1. hpc[p][i] = "leave" /\ events' = events
      BY <2>3 DEF LeaveAfterFailure
    <3>2. QED
      BY <1>4, <3>1 DEF ToRelease
  <2>4. CASE FailedEventsStep(p, i) /\ ~LeaveAfterFailure(p, i)
    BY <2>1, <2>2, <2>4, FailedMoves DEF ToRelease
  <2>5. CASE ~FailedEventsStep(p, i)
    BY <1>4, <2>5, CalmQueue DEF FailedEventsStep, ToRelease
  <2>6. QED
    BY <2>3, <2>4, <2>5
<1>5. QED
  BY <1>1, <1>2, <1>3, <1>4 DEF FailedReleased

\* Initially nothing has happened.
LEMMA InitCalm ==
    Init => /\ AllUp /\ RequestWhole /\ ModelKept /\ SnapWhole
            /\ BacklogExact /\ SlotsOwned /\ FailedReleased
<1> SUFFICES ASSUME Init
             PROVE  /\ AllUp /\ RequestWhole /\ ModelKept /\ SnapWhole
                    /\ BacklogExact /\ SlotsOwned /\ FailedReleased
  OBVIOUS
<1>1. AllUp /\ ModelKept /\ SnapWhole
  BY DEF Init, WorkerInit, StoreInit, FailedEventsInit, EmptyMeta, AllUp, ModelKept, SnapWhole
<1>2. RequestWhole
  BY DEF Init, SubmissionInit, QueueInit, RequestWhole, Whole
<1>3. BacklogExact
  <2> SUFFICES ASSUME NEW m \in Models PROVE waiting[m] = Cardinality(Backlog(m))
    BY DEF BacklogExact
  <2>1. Backlog(m) = {}
    BY DEF Init, SubmissionInit, QueueInit, InBacklog, Pending, Backlog, OnModel
  <2>2. QED
    BY <2>1, FS_EmptySet DEF Init, StoreInit
<1>4. SlotsOwned /\ FailedReleased
  BY DEF Init, StoreInit, QueueInit, SlotsOwned, FailedReleased
<1>5. QED
  BY <1>1, <1>2, <1>3, <1>4

\* Nobody is left to take anything off at rest.
LEMMA RestIsEmpty ==
    TypeOK /\ RequestWhole /\ BacklogExact /\ SlotsOwned /\ FailedReleased
           /\ SettledHoldsNoSlot /\ TokensCounted => RestIsClean
<1> SUFFICES ASSUME TypeOK, RequestWhole, BacklogExact, SlotsOwned, FailedReleased,
                    SettledHoldsNoSlot, TokensCounted, Quiescent
             PROVE  /\ \A m \in Models : /\ waiting[m] = 0
                                         /\ rpd[m] = Cardinality(Outstanding(m))
                    /\ \A u \in Users : \A j \in slots[u] : sub[j].pc # "accepted"
  BY DEF RestIsClean
<1>1. ASSUME NEW m \in Models PROVE waiting[m] = 0 /\ rpd[m] = Cardinality(Outstanding(m))
  <2>1. \A j \in Jobs : ~InBacklog(j)
    BY DEF InBacklog, Quiescent, NothingRunning, Answered
  <2>2. Backlog(m) = {}
    BY <2>1 DEF Backlog, OnModel
  <2>3. QED
    BY <2>2, FS_EmptySet DEF BacklogExact, TokensCounted
<1>2. ASSUME NEW u \in Users, NEW j \in slots[u], sub[j].pc = "accepted" PROVE FALSE
  <2>1. j \in Jobs /\ UserOf[j] = u
    BY <1>2 DEF SlotsOwned, TypeOK, StoreTypeOK
  <2>2. bull[j].st \in {"completed", "failed"}
    <3>1. bull[j].st # "none" /\ bull[j].st # "removed" /\ ~Pending(j)
      BY <1>2, <2>1 DEF RequestWhole, Whole, FailedReleased, Quiescent
    <3>2. bull[j].st \in BullStates
      BY <2>1 DEF TypeOK, QueueTypeOK, BullRecord
    <3>3. QED
      BY <3>1, <3>2 DEF BullStates, Pending
  <2>3. \A p \in Procs : ~ToRelease(p, j)
    BY <2>1 DEF ToRelease, Quiescent, NothingRunning
  <2>4. QED
    BY <1>2, <2>1, <2>2, <2>3 DEF FailedReleased, SettledHoldsNoSlot
<1>3. QED
  BY <1>1, <1>2

\* When everything is over nothing is left behind, for every number of jobs, users and
\* models and every setting of the limits: queue:waiting is zero again, no accepted job
\* holds a slot, and the daily counter is what was taken and not given back.  The theorem
\* is about the normal life of the system, with its refusals, rate-limit delays, retries,
\* stalled checks and final failures, in one worker process.
THEOREM NothingIsLeft ==
    ASSUME Calm, \A p, q \in Procs : p = q
    PROVE  Spec => []RestIsClean
<1>1. \A k \in {"addFails", "webDies", "lockLost", "aging", "redis", "crash", "shutdown",
                "midnight"} : k \notin Environment
  BY DEF Calm
<1>2. Spec => [](CountFacts /\ BacklogCounted /\ LeavesSettled)
  BY <1>1, CountFactsHold DEF Unhurt
<1>3. CountFacts <=> /\ TypeOK /\ WithinBudget /\ HandlerHolds /\ NoneStale /\ AboutFailed
                     /\ AddFollowsIncr /\ EventsFirst
  BY DEF CountFacts
<1>4. TypeOK /\ WithinBudget /\ HandlerHolds /\ NoneStale /\ AnswerHeld /\ [Next]_vars
          => AnswerHeld'
  BY <1>1, NextAnswerHeld
<1>5. TypeOK /\ NoneStale /\ AllUp /\ [Next]_vars => AllUp'
  BY NextAllUp
<1>6. Spec => [](AnswerHeld /\ AllUp /\ ScannedQueued /\ QueuedLeaveTraces)
  BY <1>2, <1>3, <1>4, <1>5, InitCalm, InitDay, InitType, NextType, InitBudget, NextScanned,
     NextTraces, PTL DEF Spec
<1>7. TypeOK /\ WithinBudget /\ ScannedQueued /\ NoneStale /\ AllUp /\ AddFollowsIncr
          /\ RequestWhole /\ [Next]_vars => RequestWhole'
  BY NextRequestWhole
<1>8. TypeOK /\ NoneStale /\ AllUp /\ AboutFailed /\ AnswerHeld /\ ModelKept /\ [Next]_vars
          => ModelKept'
  BY NextModelKept
<1>9. Spec => [](RequestWhole /\ ModelKept)
  BY <1>2, <1>3, <1>6, <1>7, <1>8, InitCalm, PTL DEF Spec
<1>10. TypeOK /\ HandlerHolds /\ NoneStale /\ AllUp /\ AboutFailed /\ AnswerHeld
           /\ RequestWhole /\ ModelKept /\ SnapWhole /\ [Next]_vars => SnapWhole'
  BY NextSnapWhole
<1>11. TypeOK /\ SlotsOwned /\ [Next]_vars => SlotsOwned'
  BY NextSlotsOwned
<1>12. Spec => [](SnapWhole /\ SlotsOwned)
  BY <1>2, <1>3, <1>6, <1>9, <1>10, <1>11, InitCalm, PTL DEF Spec
<1>13. CountFacts /\ AllUp /\ RequestWhole /\ ModelKept /\ AnswerHeld /\ SnapWhole
           /\ BacklogExact /\ [Next]_vars => BacklogExact'
  BY NextBacklogExact
<1>14. Spec => []BacklogExact
  BY <1>2, <1>6, <1>9, <1>12, <1>13, InitCalm, PTL DEF Spec
<1>15. TypeOK /\ WithinBudget /\ HandlerHolds /\ NoneStale /\ AllUp /\ QueuedLeaveTraces
           /\ RequestWhole /\ ModelKept /\ AnswerHeld /\ SnapWhole /\ FailedReleased
           /\ [Next]_vars => FailedReleased'
  BY NextFailedReleased
<1>16. Spec => []FailedReleased
  BY <1>2, <1>3, <1>6, <1>9, <1>12, <1>15, InitCalm, PTL DEF Spec
<1>17. Spec => []TokensCounted
  BY <1>1, DayCounterIsExact
<1>18. Spec => []SettledHoldsNoSlot
  BY <1>1, SettledJobsHoldNoSlot
<1>19. QED
  BY <1>2, <1>3, <1>9, <1>12, <1>14, <1>16, <1>17, <1>18, RestIsEmpty, PTL
=============================================================================

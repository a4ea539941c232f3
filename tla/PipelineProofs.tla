-------------------------- MODULE PipelineProofs --------------------------
(***************************************************************************)
(* What one step of each component writes, job by job, and what follows    *)
(* for the cost of a job, calls being paid for and bounded, and for its    *)
(* slot, which is a lease: the refinement of SlotLease.                    *)
(***************************************************************************)
EXTENDS JobSystemProofs

-----------------------------------------------------------------------------
(* What one step of each component writes.                                 *)

\* A worker process comes or goes.
ProcessStep(p) ==
    Crash(p) \/ Shutdown(p) \/ Restart(p) \/ \E j \in Jobs : ListenerRejects(p, j)

\* The request of one job writes about that job only, and never results, counters of
\* models, or anything of the workers, the failed handlers and the cron.
LEMMA SubmissionWrites ==
    ASSUME TypeOK, NEW j \in Jobs, SubmissionStep(j) \/ EnqueueFails(j) \/ WebDies(j)
    PROVE  /\ SubmissionFrame
           /\ \A i \in Jobs \ {j} : /\ sub'[i] = sub[i] /\ bull'[i] = bull[i]
                                    /\ meta'[i] = meta[i]
           /\ meta'[j].tokens = meta[j].tokens /\ meta'[j].provider = meta[j].provider
           /\ bull'[j] = bull[j] \/ AddJob(j)
<1> USE DEF TypeOK, StoreTypeOK, QueueTypeOK, SubmissionTypeOK, MetaRecord
<1>1. CASE StartSubmission(j) \/ SkipUnloaded(j) \/ NoModelLeft(j)
  BY <1>1 DEF StartSubmission, SkipUnloaded, NoModelLeft
<1>2. CASE AcquireCandidate(j)
  BY <1>2 DEF AcquireCandidate
<1>3. CASE SkipExhausted(j) \/ RefuseUser(j)
  BY <1>3 DEF SkipExhausted, RefuseUser
<1>4. CASE CountWaiting(j) \/ UndoWaiting(j) \/ UndoEnqueue(j)
  BY <1>4 DEF CountWaiting, UndoWaiting, UndoEnqueue
<1>5. CASE AddJob(j)
  BY <1>5 DEF AddJob, Enqueued
<1>6. CASE PutMeta(j)
  BY <1>6 DEF PutMeta
<1>7. CASE EnqueueFails(j) \/ WebDies(j)
  BY <1>7 DEF EnqueueFails, WebDies
<1>8. QED
  BY <1>1, <1>2, <1>3, <1>4, <1>5, <1>6, <1>7 DEF SubmissionStep

\* The script that says OK gives the request its model and takes a unit of the user's
\* day, if that is limited, within the limit.
LEMMA AcquireMoves ==
    ASSUME TypeOK, NEW j \in Jobs, AcquireCandidate(j)
    PROVE  /\ sub[j].pc = "select" /\ sub'[j].pc = "incr" /\ sub'[j].add = sub[j].add
           /\ sub'[j].model \in Models /\ sub'[j].day = sub[j].day
           /\ \A u \in Users, t \in Types, d \in Days : UserDayLimit[u][t] > 0 =>
                 IF u = UserOf[j] /\ t = TypeOf[j] /\ d = sub[j].day
                 THEN /\ userRpd'[u][t][d] = userRpd[u][t][d] + 1
                      /\ userRpd'[u][t][d] <= UserDayLimit[u][t]
                 ELSE userRpd'[u][t][d] = userRpd[u][t][d]
<1>1. Candidate(j) \in Models /\ sub[j].pc = "select"
  BY JobsAssumption, ModelsAssumption
     DEF AcquireCandidate, AtLoaded, AtCandidate, Candidate, TypeOK, SubmissionTypeOK
<1>2. sub' = [sub EXCEPT ![j] = [@ EXCEPT !.pc = "incr", !.model = Candidate(j)]]
  BY DEF AcquireCandidate
<1>3. /\ sub'[j].pc = "incr" /\ sub'[j].add = sub[j].add
      /\ sub'[j].model \in Models /\ sub'[j].day = sub[j].day
  BY <1>1, <1>2 DEF TypeOK, SubmissionTypeOK
<1>4. ASSUME NEW u \in Users, NEW t \in Types, NEW d \in Days, UserDayLimit[u][t] > 0
      PROVE  IF u = UserOf[j] /\ t = TypeOf[j] /\ d = sub[j].day
             THEN /\ userRpd'[u][t][d] = userRpd[u][t][d] + 1
                  /\ userRpd'[u][t][d] <= UserDayLimit[u][t]
             ELSE userRpd'[u][t][d] = userRpd[u][t][d]
  <2> DEFINE unit == IF UserDayLimit[UserOf[j]][TypeOf[j]] > 0 THEN 1 ELSE 0
  <2>1. userRpd' = [userRpd EXCEPT ![UserOf[j]][TypeOf[j]][sub[j].day] = @ + unit]
    BY DEF AcquireCandidate
  <2>2. AcquireVerdict(j) = "ok"
    BY DEF AcquireCandidate
  <2>3. ~Exhausted(UserDayLimit[UserOf[j]][TypeOf[j]],
                   userRpd[UserOf[j]][TypeOf[j]][sub[j].day])
    BY <2>2 DEF AcquireVerdict, AcquireCode
  <2>4. UserOf[j] \in Users /\ TypeOf[j] \in Types /\ sub[j].day \in Days
    BY JobsAssumption DEF TypeOK, SubmissionTypeOK
  <2>5. userRpd[u][t][d] \in Nat /\ UserDayLimit[u][t] \in Nat
    BY LimitsAssumption DEF TypeOK, StoreTypeOK
  <2>6. CASE u = UserOf[j] /\ t = TypeOf[j] /\ d = sub[j].day
    <3>1. unit = 1
      BY <1>4, <2>6
    <3> HIDE DEF unit
    <3>2. userRpd'[u][t][d] = userRpd[u][t][d] + 1
      BY <2>1, <2>4, <2>5, <2>6, <3>1 DEF TypeOK, StoreTypeOK
    <3>3. QED
      BY <1>4, <2>3, <2>5, <2>6, <3>2 DEF Exhausted
  <2>7. CASE ~(u = UserOf[j] /\ t = TypeOf[j] /\ d = sub[j].day)
    <3> HIDE DEF unit
    <3>1. QED
      BY <2>1, <2>4, <2>7 DEF TypeOK, StoreTypeOK
  <2>8. QED
    BY <2>6, <2>7
<1>5. QED
  BY <1>1, <1>3, <1>4

\* The promises and the model of a request: queue.add is settled once, and the model is
\* the one the script took the slot for.
LEMMA SubmissionMoves ==
    ASSUME TypeOK, NEW j \in Jobs, SubmissionStep(j) \/ EnqueueFails(j) \/ WebDies(j)
    PROVE  /\ \/ sub'[j].add = sub[j].add
              \/ AddJob(j) /\ sub[j].add = "pending" /\ sub'[j].add = "done"
              \/ EnqueueFails(j) /\ sub[j].add = "pending" /\ sub'[j].add = "failed"
           /\ sub'[j].model = sub[j].model \/ AcquireCandidate(j)
           /\ sub'[j].pc \in {"idle", "select"} =>
                 /\ sub[j].pc \in {"idle", "select"}
                 /\ sub'[j].add = sub[j].add /\ sub'[j].model = sub[j].model
           /\ sub'[j].day = sub[j].day \/ sub'[j].day = day
<1> USE DEF TypeOK, SubmissionTypeOK
<1>1. CASE StartSubmission(j)
  BY <1>1 DEF StartSubmission
<1>2. CASE AcquireCandidate(j)
  BY <1>2, AcquireMoves
<1>3. CASE SkipUnloaded(j) \/ SkipExhausted(j)
  BY <1>3 DEF SkipUnloaded, SkipExhausted
<1>10. CASE RefuseUser(j) \/ NoModelLeft(j)
  BY <1>10 DEF RefuseUser, NoModelLeft
<1>4. CASE CountWaiting(j)
  BY <1>4 DEF CountWaiting
<1>5. CASE UndoWaiting(j) \/ UndoEnqueue(j) \/ WebDies(j)
  BY <1>5 DEF UndoWaiting, UndoEnqueue, WebDies
<1>6. CASE AddJob(j)
  <2>1. sub' = [sub EXCEPT ![j] = [@ EXCEPT !.add = "done", !.pc = Joined(j, sub[j].put)]]
    BY <1>6 DEF AddJob
  <2>2. /\ sub'[j].add = "done" /\ sub'[j].model = sub[j].model
        /\ sub[j].add = "pending" /\ sub'[j].day = sub[j].day
    BY <1>6, <2>1 DEF AddJob
  <2>3. sub'[j].pc = Joined(j, sub[j].put) /\ sub[j].pc \notin {"idle", "select"}
    BY <1>6, <2>1 DEF AddJob, InFlight
  <2>4. QED
    BY <1>6, <2>2, <2>3 DEF Joined
<1>7. CASE PutMeta(j)
  <2>1. sub' = [sub EXCEPT ![j] = [@ EXCEPT !.put = "done", !.pc = Joined(j, sub[j].add)]]
    BY <1>7 DEF PutMeta
  <2>2. /\ sub'[j].add = sub[j].add /\ sub'[j].model = sub[j].model
        /\ sub'[j].day = sub[j].day
    BY <2>1
  <2>3. sub'[j].pc = Joined(j, sub[j].add) /\ sub[j].pc \notin {"idle", "select"}
    BY <1>7, <2>1 DEF PutMeta, InFlight
  <2>4. QED
    BY <2>2, <2>3 DEF Joined
<1>8. CASE EnqueueFails(j)
  <2>1. CASE sub' = [sub EXCEPT ![j] = [@ EXCEPT !.put = "failed", !.pc = "undo"]]
    BY <2>1
  <2>2. CASE /\ sub[j].add = "pending"
             /\ sub' = [sub EXCEPT ![j] = [@ EXCEPT !.add = "failed", !.pc = "undo"]]
    BY <1>8, <2>2
  <2>3. QED
    BY <1>8, <2>1, <2>2 DEF EnqueueFails
<1>9. QED
  BY <1>1, <1>2, <1>3, <1>4, <1>5, <1>6, <1>7, <1>8, <1>10
     DEF SubmissionStep

\* The queue by itself changes one job and tells of its failure.
LEMMA QueueWrites ==
    ASSUME TypeOK, NEW j \in Jobs, PromoteDelayed(j) \/ RecoverStalled(j) \/ LoseLock(j)
    PROVE  QueueFrame /\ \A i \in Jobs \ {j} : bull'[i] = bull[i]
BY DEF TypeOK, QueueTypeOK, PromoteDelayed, RecoverStalled, LoseLock

\* A handler that moves on moves alone.
LEMMA GotoMoves ==
    ASSUME TypeOK, NEW p \in Procs, NEW j \in Jobs, NEW x, Goto(p, j, x)
    PROVE  /\ wpc'[p][j] = x
           /\ \A q \in Procs, i \in Jobs :
                 q # p \/ i # j => wpc'[q][i] = wpc[q][i]
BY DEF TypeOK, WorkerTypeOK, Goto

\* The handler of one job in one process writes about that job only.
LEMMA HandlerWrites ==
    ASSUME TypeOK, NEW p \in Procs, NEW j \in Jobs,
           Fetch(p, j) \/ HandlerStep(p, j) \/ HandlerFault(p, j)
    PROVE  /\ WorkerFrame
           /\ \A i \in Jobs \ {j} : /\ meta'[i] = meta[i] /\ result'[i] = result[i]
                                    /\ consumed'[i] = consumed[i] /\ calls'[i] = calls[i]
                                    /\ bull'[i] = bull[i]
           /\ \A q \in Procs, i \in Jobs :
                 q # p \/ i # j => wpc'[q][i] = wpc[q][i] /\ wskip'[q][i] = wskip[q][i]
<1> USE DEF TypeOK, StoreTypeOK, QueueTypeOK, WorkerTypeOK, HistoryTypeOK, Goto,
            storeVars, queueVars
<1>1. CASE Fetch(p, j)
  BY <1>1 DEF Fetch, Locked
<1>2. CASE HandlerFault(p, j)
  BY <1>2 DEF HandlerFault, RedisFails, ReplyLost, FinalizeLoses
<1>3. CASE \/ ReadMeta(p, j) \/ TakeTokens(p, j) \/ HitMinuteLimit(p, j)
           \/ HitDayLimit(p, j) \/ CallProvider(p, j) \/ NoApiName(p, j)
           \/ StoreAnswer(p, j) \/ ReleaseOwnSlot(p, j) \/ LeaveBacklog(p, j)
  BY <1>3 DEF ReadMeta, TakeTokens, HitMinuteLimit, HitDayLimit, Refused, CallProvider,
              NoApiName, StoreAnswer, ReleaseOwnSlot, LeaveBacklog
<1>4. CASE \/ MarkInProgress(p, j) \/ FlagTokens(p, j) \/ Requeue(p, j)
           \/ ReachProvider(p, j) \/ ProviderReached(p, j) \/ FinalizeMeta(p, j)
  BY <1>4 DEF MarkInProgress, FlagTokens, Requeue, ReachProvider, ProviderReached,
              FinalizeMeta, OnlyMeta
<1>5. CASE DelayJob(p, j) \/ Return(p, j)
  BY <1>5 DEF DelayJob, Delayed, Return, Completed
<1>6. CASE Throw(p, j)
  BY <1>6 DEF Throw, Failed
<1>7. QED
  BY <1>1, <1>2, <1>3, <1>4, <1>5, <1>6 DEF HandlerStep

\* What a handler does to its job in BullMQ: it takes a waiting job, and gives up only
\* a job whose lock it holds, charging an attempt when it threw.
LEMMA HandlerMoves ==
    ASSUME TypeOK, NEW p \in Procs, NEW j \in Jobs,
           Fetch(p, j) \/ HandlerStep(p, j) \/ HandlerFault(p, j)
    PROVE  /\ Fetch(p, j) =>
                 /\ bull[j].st = "waiting" /\ bull'[j].st = "active" /\ bull'[j].lock = p
                 /\ bull'[j].att = bull[j].att /\ bull'[j].stalls = bull[j].stalls
           /\ (DelayJob(p, j) \/ Return(p, j)) /\ Holds(p, j) =>
                 /\ bull'[j].st = (IF DelayJob(p, j) THEN "delayed" ELSE "completed")
                 /\ bull'[j].lock = NoProc
                 /\ bull'[j].att = bull[j].att /\ bull'[j].stalls = bull[j].stalls
           /\ Throw(p, j) /\ Holds(p, j) =>
                 /\ \/ bull'[j].st = "failed"
                    \/ /\ bull'[j].st = "delayed" /\ bull[j].att + 1 < Attempts
                       /\ UNCHANGED events
                 /\ bull'[j].lock = NoProc
                 /\ bull'[j].att = bull[j].att + 1 /\ bull'[j].stalls = bull[j].stalls
           /\ \/ Fetch(p, j)
              \/ DelayJob(p, j) /\ Holds(p, j)
              \/ Return(p, j) /\ Holds(p, j)
              \/ Throw(p, j) /\ Holds(p, j)
              \/ bull'[j] = bull[j]
           /\ Throw(p, j) \/ UNCHANGED events
<1> USE DEF TypeOK, QueueTypeOK, BullRecord
<1>1. Fetch(p, j) => ~DelayJob(p, j) /\ ~Return(p, j) /\ ~Throw(p, j)
  BY DEF Fetch, DelayJob, Return, Throw, At
<1>2. /\ DelayJob(p, j) => ~Return(p, j) /\ ~Throw(p, j)
      /\ Return(p, j) => ~Throw(p, j)
  BY DEF DelayJob, Return, Throw, At
<1>3. CASE Fetch(p, j)
  BY <1>1, <1>3 DEF Fetch, Locked
<1>4. CASE DelayJob(p, j)
  BY <1>1, <1>2, <1>4 DEF DelayJob, Delayed
<1>5. CASE Return(p, j)
  <2>1. ~DelayJob(p, j) /\ ~Throw(p, j) /\ ~Fetch(p, j)
    BY <1>1, <1>2, <1>5
  <2>2. QED
    BY <1>5, <2>1 DEF Return, Completed
<1>6. CASE Throw(p, j)
  <2>1. ~DelayJob(p, j) /\ ~Return(p, j) /\ ~Fetch(p, j)
    BY <1>1, <1>2, <1>6
  <2>2. CASE ~Holds(p, j)
    BY <1>6, <2>1, <2>2 DEF Throw, queueVars
  <2>3. CASE Holds(p, j)
    <3> DEFINE final == At(p, j, "fatal") \/ bull[j].att + 1 >= Attempts
    <3>1. /\ bull' = [bull EXCEPT ![j] = [@ EXCEPT
                         !.st = IF final THEN "failed" ELSE "delayed", !.lock = NoProc,
                         !.att = bull[j].att + 1]]
          /\ final \/ UNCHANGED events
      BY <1>6, <2>3 DEF Throw, Failed
    <3>2. ~final => bull[j].att + 1 < Attempts
      BY QueueAssumption
    <3> HIDE DEF final
    <3>3. /\ bull'[j].st = (IF final THEN "failed" ELSE "delayed") /\ bull'[j].lock = NoProc
          /\ bull'[j].att = bull[j].att + 1 /\ bull'[j].stalls = bull[j].stalls
      BY <3>1
    <3>4. QED
      BY <1>6, <2>1, <2>3, <3>1, <3>2, <3>3
  <2>4. QED
    BY <2>2, <2>3
<1>7. CASE HandlerFault(p, j) \/ (HandlerStep(p, j) /\ ~DelayJob(p, j) /\ ~Return(p, j)
                                   /\ ~Throw(p, j))
  <2>1. bull' = bull /\ events' = events
    BY <1>7 DEF HandlerFault, RedisFails, ReplyLost, FinalizeLoses, HandlerStep, ReadMeta,
                MarkInProgress, TakeTokens, HitMinuteLimit, HitDayLimit, Refused, FlagTokens,
                Requeue, ReachProvider, CallProvider, NoApiName, ProviderReached,
                FinalizeMeta, StoreAnswer, ReleaseOwnSlot, LeaveBacklog, OnlyMeta, queueVars
  <2>2. QED
    BY <1>3, <1>4, <1>5, <1>6, <2>1
<1>8. QED
  BY <1>3, <1>4, <1>5, <1>6, <1>7

\* What the queue does to a job by itself.
LEMMA QueueMoves ==
    ASSUME TypeOK, NEW j \in Jobs, PromoteDelayed(j) \/ RecoverStalled(j) \/ LoseLock(j)
    PROVE  /\ bull'[j].att = bull[j].att
           /\ \/ /\ PromoteDelayed(j) /\ bull[j].st = "delayed" /\ bull'[j].st = "waiting"
                 /\ bull'[j].lock = bull[j].lock /\ bull'[j].stalls = bull[j].stalls
                 /\ UNCHANGED events
              \/ /\ RecoverStalled(j) /\ Holds(NoProc, j) /\ bull'[j].lock = NoProc
                 /\ bull'[j].stalls = bull[j].stalls + 1
                 /\ \/ bull[j].stalls >= MaxStalled /\ bull'[j].st = "failed"
                    \/ /\ ~(bull[j].stalls >= MaxStalled)
                       /\ bull'[j].st = "waiting" /\ UNCHANGED events
              \/ /\ LoseLock(j) /\ bull[j].st = "active" /\ bull[j].lock # NoProc
                 /\ bull'[j].st = "active" /\ bull'[j].lock = NoProc
                 /\ bull'[j].stalls = bull[j].stalls /\ UNCHANGED events
<1> USE DEF TypeOK, QueueTypeOK, BullRecord
<1>1. CASE PromoteDelayed(j)
  BY <1>1 DEF PromoteDelayed
<1>2. CASE RecoverStalled(j)
  BY <1>2 DEF RecoverStalled, Holds
<1>3. CASE LoseLock(j)
  BY <1>3 DEF LoseLock
<1>4. QED
  BY <1>1, <1>2, <1>3

\* A failed handler writes about its job only, and to its metadata no more than the
\* status.
LEMMA FailedWrites ==
    ASSUME TypeOK, NEW p \in Procs, NEW j \in Jobs,
           FailedEventsStep(p, j) \/ FailureLoses(p, j)
    PROVE  /\ UNCHANGED <<userRpd, bull, sub, up, workerVars, cron, age, day, consumed, calls>>
           /\ \A i \in Jobs : meta'[i].tokens = meta[i].tokens /\ meta'[i].provider = meta[i].provider
           /\ \A i \in Jobs \ {j} : result'[i] = result[i] /\ refunded'[i] = refunded[i]
           /\ result'[j] = result[j] \/ (WriteFailure(p, j) /\ result'[j] = "failed")
           /\ \A q \in Procs, i \in Jobs :
                 q # p \/ i # j => hpc'[q][i] = hpc[q][i] /\ hsnap'[q][i] = hsnap[q][i]
           /\ \A q \in Procs : events'[q] \subseteq events[q]
<1> USE DEF TypeOK, StoreTypeOK, QueueTypeOK, FailedEventsTypeOK, HistoryTypeOK, MetaRecord,
            envVars
<1>1. CASE OnFailed(p, j)
  BY <1>1 DEF OnFailed, FailedEventsFrame, storeVars
<1>2. CASE GiveTokensBack(p, j)
  BY <1>2 DEF GiveTokensBack, ReturnTokens, FailedEventsFrame
<1>3. CASE WriteFailure(p, j)
  BY <1>3 DEF WriteFailure, FailedEventsFrame
<1>4. CASE MarkFailure(p, j)
  BY <1>4 DEF MarkFailure, FailedEventsFrame
<1>5. CASE ReleaseFailedSlot(p, j)
  BY <1>5 DEF ReleaseFailedSlot, FailedEventsFrame
<1>6. CASE LeaveAfterFailure(p, j)
  BY <1>6 DEF LeaveAfterFailure, FailedEventsFrame
<1>7. CASE FailureLoses(p, j)
  <2>1. /\ UNCHANGED <<storeVars, queueVars, sub, up, workerVars, hsnap, cron, age, day,
                        historyVars>>
        /\ \E pc \in {"idle", "mark", "release", "leave"} : hpc' = [hpc EXCEPT ![p][j] = pc]
    BY <1>7 DEF FailureLoses, AfterPipeline
  <2>2. QED
    BY <2>1 DEF storeVars, queueVars, historyVars
<1>8. QED
  BY <1>1, <1>2, <1>3, <1>4, <1>5, <1>6, <1>7 DEF FailedEventsStep

\* A process that goes takes its handlers, its events and its locks with it; one
\* that comes has none.
LEMMA ProcessWrites ==
    ASSUME TypeOK, NEW p \in Procs, ProcessStep(p)
    PROVE  /\ UNCHANGED <<meta, result, slots, userRpd, rpm, rpd, sub, cron, age, day,
                          historyVars>>
           /\ waiting' = waiting \/ "redis" \in Environment
           /\ \A q \in Procs \ {p} : /\ wpc'[q] = wpc[q] /\ wskip'[q] = wskip[q]
                                     /\ hpc'[q] = hpc[q] /\ hsnap'[q] = hsnap[q]
                                     /\ events'[q] = events[q] /\ up'[q] = up[q]
           /\ \/ UNCHANGED <<bull, events, workerVars, handlerVars>>
              \/ /\ events'[p] = {}
                 /\ \A i \in Jobs : /\ wpc'[p][i] = "idle" /\ ~wskip'[p][i]
                                     /\ hpc'[p][i] = "idle"
           /\ \A i \in Jobs :
                 /\ bull'[i].st = bull[i].st /\ bull'[i].att = bull[i].att
                 /\ bull'[i].stalls = bull[i].stalls
                 /\ \/ bull'[i].lock = bull[i].lock
                    \/ bull[i].lock = p /\ bull'[i].lock = NoProc
<1> USE DEF TypeOK, QueueTypeOK, BullRecord, WorkerTypeOK, FailedEventsTypeOK
<1>1. CASE Restart(p)
  BY <1>1 DEF Restart, storeVars, queueVars, workerVars, handlerVars, envVars
<1>2. CASE Gone(p) /\ (waiting' = waiting \/ "redis" \in Environment)
  BY <1>2 DEF Gone
<1>3. QED
  BY <1>1, <1>2 DEF ProcessStep, Crash, Shutdown, ListenerRejects, Fault

\* The cron removes jobs, writes that they expired, and gives back what they held.
LEMMA CronWrites ==
    ASSUME TypeOK, ExpiryStep \/ CronDies \/ \E u \in Users : CleanupSlots(u)
    PROVE  /\ CronFrame /\ UNCHANGED events
           /\ \A i \in Jobs :
                 /\ meta'[i].tokens = meta[i].tokens
                 /\ meta'[i].provider = meta[i].provider
                 /\ meta'[i].owner = meta[i].owner /\ meta'[i].model = meta[i].model
                 /\ result'[i] = result[i] \/ (ExpireStale(i) /\ result'[i] = "expired")
                 /\ \/ bull'[i] = bull[i]
                    \/ /\ RemoveStale(i) /\ Removable(i) /\ cron.job = i
                       /\ bull'[i].st = "removed" /\ bull'[i].att = bull[i].att
                       /\ bull'[i].stalls = bull[i].stalls /\ bull'[i].lock = NoProc
                 /\ refunded'[i] = refunded[i] \/ RefundStale(i)
<1> USE DEF TypeOK, StoreTypeOK, QueueTypeOK, HistoryTypeOK, MetaRecord, queueVars
<1> DEFINE Goal ==
       /\ CronFrame /\ UNCHANGED events
       /\ \A i \in Jobs :
             /\ meta'[i].tokens = meta[i].tokens
             /\ meta'[i].provider = meta[i].provider
             /\ meta'[i].owner = meta[i].owner /\ meta'[i].model = meta[i].model
             /\ result'[i] = result[i] \/ (ExpireStale(i) /\ result'[i] = "expired")
             /\ \/ bull'[i] = bull[i]
                \/ /\ RemoveStale(i) /\ Removable(i) /\ cron.job = i
                   /\ bull'[i].st = "removed" /\ bull'[i].att = bull[i].att
                   /\ bull'[i].stalls = bull[i].stalls /\ bull'[i].lock = NoProc
             /\ refunded'[i] = refunded[i] \/ RefundStale(i)
<1>1. CASE \/ BeginExpiry \/ EndExpiry \/ CronDies \/ (\E t \in Types : ScanQueue(t))
           \/ (\E j \in Jobs : ReadStale(j)) \/ \E u \in Users : CleanupSlots(u)
  BY <1>1 DEF BeginExpiry, EndExpiry, CronDies, ScanQueue, ReadStale, CleanupSlots,
              storeVars
<1>2. ASSUME NEW j \in Jobs, RemoveStale(j) PROVE Goal
  <2>1. /\ UNCHANGED <<storeVars, events, refunded>> /\ CronFrame /\ cron.job = j
        /\ \/ bull' = bull
           \/ Removable(j) /\ bull' = [bull EXCEPT ![j].st = "removed"]
    BY <1>2 DEF RemoveStale, Removed
  <2>2. CASE bull' = bull
    BY <2>1, <2>2 DEF storeVars
  <2>3. CASE Removable(j) /\ bull' = [bull EXCEPT ![j].st = "removed"]
    <3>1. /\ bull'[j].st = "removed" /\ bull'[j].att = bull[j].att
          /\ bull'[j].stalls = bull[j].stalls /\ bull'[j].lock = NoProc
      BY <2>3 DEF Removable, BullRecord
    <3>2. \A i \in Jobs \ {j} : bull'[i] = bull[i]
      BY <2>3
    <3>3. QED
      BY <1>2, <2>1, <2>3, <3>1, <3>2 DEF storeVars
  <2>4. QED
    BY <2>1, <2>2, <2>3
<1>3. ASSUME NEW j \in Jobs, RefundStale(j) PROVE Goal
  BY <1>3 DEF RefundStale, ReturnTokens
<1>4. ASSUME NEW j \in Jobs, ExpireStale(j) PROVE Goal
  <2>1. /\ result' = [result EXCEPT ![j] = "expired"]
        /\ meta' = [meta EXCEPT ![j].status = "failed"]
        /\ CronFrame /\ UNCHANGED <<queueVars, refunded>>
    BY <1>4 DEF ExpireStale
  <2>2. QED
    BY <1>4, <2>1
<1>5. QED
  BY <1>1, <1>2, <1>3, <1>4 DEF ExpiryStep

\* Time changes ages, the day and the counters of the models.
LEMMA TimeWrites ==
    ASSUME Midnight \/ (\E j \in Jobs : Age(j)) \/ \E m \in Models : MinuteElapses(m)
    PROVE  /\ UNCHANGED <<meta, result, slots, userRpd, waiting, queueVars, sub, up,
                          workerVars, handlerVars, cron, faults, historyVars>>
BY DEF Midnight, Age, MinuteElapses, EnvFrame, envVars, storeVars

\* Who writes what several components read.
LEMMA Writers ==
    ASSUME TypeOK, [Next]_vars
    PROVE  /\ \/ sub' = sub
              \/ \E j \in Jobs : /\ SubmissionStep(j) \/ EnqueueFails(j) \/ WebDies(j)
                                 /\ \A i \in Jobs \ {j} : sub'[i] = sub[i]
           /\ cron' = cron \/ ExpiryStep \/ CronDies
           /\ day' = day \/ "midnight" \in Environment
           /\ age' = age \/ "aging" \in Environment
           /\ \/ userRpd' = userRpd
              \/ \E j \in Jobs : AcquireCandidate(j) \/ ExpireStale(j)
<1> USE DEF storeVars, envVars
<1>1. ASSUME NEW j \in Jobs,
             SubmissionStep(j) \/ EnqueueFails(j) \/ WebDies(j)
      PROVE  /\ UNCHANGED <<cron, day, age>> /\ \A i \in Jobs \ {j} : sub'[i] = sub[i]
             /\ UNCHANGED userRpd \/ AcquireCandidate(j)
  <2>1. UNCHANGED userRpd \/ AcquireCandidate(j)
    BY <1>1 DEF SubmissionStep, StartSubmission, SkipUnloaded, SkipExhausted, RefuseUser,
                NoModelLeft, CountWaiting, UndoWaiting, AddJob, PutMeta, UndoEnqueue,
                EnqueueFails, WebDies
  <2>2. QED
    BY <1>1, <2>1, SubmissionWrites DEF SubmissionFrame
<1>2. ASSUME NEW j \in Jobs, PromoteDelayed(j) \/ RecoverStalled(j) \/ LoseLock(j)
      PROVE  UNCHANGED <<sub, cron, day, age, userRpd>>
  BY <1>2, QueueWrites DEF QueueFrame
<1>3. ASSUME NEW p \in Procs, NEW j \in Jobs,
             Fetch(p, j) \/ HandlerStep(p, j) \/ HandlerFault(p, j)
      PROVE  UNCHANGED <<sub, cron, day, age, userRpd>>
  BY <1>3, HandlerWrites DEF WorkerFrame
<1>4. ASSUME NEW p \in Procs, NEW j \in Jobs,
             FailedEventsStep(p, j) \/ FailureLoses(p, j)
      PROVE  UNCHANGED <<sub, cron, day, age, userRpd>>
  BY <1>4, FailedWrites
<1>5. ASSUME NEW p \in Procs, ProcessStep(p)
      PROVE  UNCHANGED <<sub, cron, day, age, userRpd>>
  BY <1>5, ProcessWrites
<1>6. CASE ExpiryStep \/ CronDies \/ \E u \in Users : CleanupSlots(u)
  <2>1. UNCHANGED <<sub, day, age>>
    BY <1>6, CronWrites DEF CronFrame
  <2>2. (\E u \in Users : CleanupSlots(u)) => UNCHANGED <<cron, userRpd>>
    BY DEF CleanupSlots
  <2>3. UNCHANGED userRpd \/ \E j \in Jobs : ExpireStale(j)
    BY <1>6, <2>2 DEF ExpiryStep, CronDies, BeginExpiry, EndExpiry, ScanQueue, ReadStale,
                      RemoveStale, RefundStale
  <2>4. QED
    BY <1>6, <2>1, <2>2, <2>3
<1>7. CASE Midnight \/ (\E j \in Jobs : Age(j)) \/ \E m \in Models : MinuteElapses(m)
  <2>1. UNCHANGED <<sub, cron, userRpd>>
    BY <1>7, TimeWrites
  <2>2. (day' = day \/ "midnight" \in Environment) /\ (age' = age \/ "aging" \in Environment)
    BY <1>7 DEF Midnight, Age, MinuteElapses
  <2>3. QED
    BY <2>1, <2>2
<1>8. CASE Rest \/ UNCHANGED vars
  BY <1>8 DEF Rest, vars
<1>9. QED
  BY <1>1, <1>2, <1>3, <1>4, <1>5, <1>6, <1>7, <1>8 DEF Next, ProcessStep

\* Who settles a job.
LEMMA Settles ==
    ASSUME TypeOK, [Next]_vars, NEW i \in Jobs
    PROVE  \/ result'[i] = result[i]
           \/ result'[i] = "completed" /\ \E p \in Procs : StoreAnswer(p, i)
           \/ result'[i] = "failed" /\ \E p \in Procs : WriteFailure(p, i)
           \/ result'[i] = "expired" /\ ExpireStale(i)
<1> USE DEF storeVars
<1>1. ASSUME NEW p \in Procs, NEW j \in Jobs,
             Fetch(p, j) \/ HandlerStep(p, j) \/ HandlerFault(p, j)
      PROVE  \/ result'[i] = result[i]
             \/ result'[i] = "completed" /\ StoreAnswer(p, i)
  <2>1. CASE StoreAnswer(p, j)
    BY <2>1 DEF StoreAnswer, TypeOK, StoreTypeOK
  <2>2. CASE ~StoreAnswer(p, j)
    BY <1>1, <2>2
       DEF Fetch, HandlerFault, RedisFails, ReplyLost, FinalizeLoses, HandlerStep, ReadMeta,
           MarkInProgress, TakeTokens, HitMinuteLimit, HitDayLimit, Refused, FlagTokens,
           Requeue, DelayJob, ReachProvider, CallProvider, NoApiName, ProviderReached,
           FinalizeMeta, ReleaseOwnSlot, LeaveBacklog, Return, Throw, OnlyMeta
  <2>3. QED
    BY <2>1, <2>2
<1>2. CASE \E j \in Jobs : \/ SubmissionStep(j) \/ EnqueueFails(j) \/ WebDies(j)
                           \/ PromoteDelayed(j) \/ RecoverStalled(j) \/ LoseLock(j)
  BY <1>2, SubmissionWrites, QueueWrites DEF SubmissionFrame, QueueFrame
<1>3. CASE \E p \in Procs, j \in Jobs : FailedEventsStep(p, j) \/ FailureLoses(p, j)
  BY <1>3, FailedWrites
<1>4. CASE \E p \in Procs : ProcessStep(p)
  BY <1>4, ProcessWrites
<1>5. CASE ExpiryStep \/ CronDies \/ \E u \in Users : CleanupSlots(u)
  BY <1>5, CronWrites
<1>6. CASE Midnight \/ (\E j \in Jobs : Age(j)) \/ \E m \in Models : MinuteElapses(m)
  BY <1>6, TimeWrites
<1>7. CASE Rest \/ UNCHANGED vars
  BY <1>7 DEF Rest, vars
<1>8. QED
  BY <1>1, <1>2, <1>3, <1>4, <1>5, <1>6, <1>7 DEF Next, ProcessStep

-----------------------------------------------------------------------------
(* Calls are paid for.                                                     *)

\* The awaits of a handler that come after the job's tokens were taken, in this run
\* or in an earlier one.
PaidPcs == {"flag", "reach", "call", "reached", "finalize", "store", "release", "leave"}

\* A job whose tokens were never taken shows no trace of having them: no flag in its
\* metadata, no handler past consumeExecutionLimits, no call and no answer.
Unpaid(j) ==
    /\ ~meta[j].tokens /\ calls[j] = 0 /\ result[j] # "completed"
    /\ \A p \in Procs : ~wskip[p][j] /\ wpc[p][j] \notin PaidPcs
NothingUnpaid == \A j \in Jobs : consumed[j] = 0 => Unpaid(j)

\* The handler takes the tokens before it does anything that needs them.
LEMMA WorkerPays ==
    ASSUME TypeOK, NothingUnpaid, NEW p \in Procs, NEW j \in Jobs,
           Fetch(p, j) \/ HandlerStep(p, j) \/ HandlerFault(p, j)
    PROVE  NothingUnpaid'
<1> USE DEF TypeOK, StoreTypeOK, WorkerTypeOK, HistoryTypeOK, MetaRecord
<1>1. \A i \in Jobs \ {j} : consumed'[i] = 0 => Unpaid(i)'
  BY HandlerWrites DEF NothingUnpaid, Unpaid
<1>2. \A q \in Procs \ {p} : wpc'[q][j] = wpc[q][j] /\ wskip'[q][j] = wskip[q][j]
  BY HandlerWrites
<1>3. SUFFICES ASSUME consumed'[j] = 0
               PROVE  /\ ~meta'[j].tokens /\ calls'[j] = 0 /\ result'[j] # "completed"
                      /\ ~wskip'[p][j] /\ wpc'[p][j] \notin PaidPcs
  <2>1. consumed'[j] = 0 => consumed[j] = 0
    <3>1. CASE TakeTokens(p, j)
      BY <3>1 DEF TakeTokens
    <3>2. CASE ~TakeTokens(p, j)
      BY <3>2 DEF Fetch, HandlerFault, RedisFails, ReplyLost, FinalizeLoses, HandlerStep,
                  ReadMeta, MarkInProgress, HitMinuteLimit, HitDayLimit, Refused, FlagTokens,
                  Requeue, DelayJob, ReachProvider, CallProvider, NoApiName,
                  ProviderReached, FinalizeMeta, StoreAnswer, ReleaseOwnSlot, LeaveBacklog,
                  Return, Throw, OnlyMeta
    <3>3. QED
      BY <3>1, <3>2
  <2>2. consumed'[j] = 0 => \A q \in Procs \ {p} : ~wskip'[q][j] /\ wpc'[q][j] \notin PaidPcs
    BY <1>2, <2>1 DEF NothingUnpaid, Unpaid
  <2>3. QED
    BY <1>1, <2>2 DEF NothingUnpaid, Unpaid
<1> USE DEF Goto
<1>4. CASE TakeTokens(p, j)
  BY <1>3, <1>4 DEF TakeTokens
<1>5. SUFFICES ASSUME consumed'[j] = consumed[j], Unpaid(j)
               PROVE  /\ ~meta'[j].tokens /\ calls'[j] = 0 /\ result'[j] # "completed"
                      /\ ~wskip'[p][j] /\ wpc'[p][j] \notin PaidPcs
  <2>1. CASE ~TakeTokens(p, j)
    <3>1. consumed' = consumed
      BY <2>1 DEF Fetch, HandlerFault, RedisFails, ReplyLost, FinalizeLoses, HandlerStep,
                  ReadMeta, MarkInProgress, HitMinuteLimit, HitDayLimit, Refused, FlagTokens,
                  Requeue, DelayJob, ReachProvider, CallProvider, NoApiName,
                  ProviderReached, FinalizeMeta, StoreAnswer, ReleaseOwnSlot, LeaveBacklog,
                  Return, Throw, OnlyMeta
    <3>2. Unpaid(j)
      BY <1>3, <3>1 DEF NothingUnpaid
    <3>3. QED
      BY <1>5, <3>1, <3>2
  <2>2. QED
    BY <1>4, <2>1
<1>6. wpc[p][j] \notin PaidPcs /\ ~wskip[p][j]
  BY <1>5 DEF Unpaid
<1> USE <1>5, <1>6 DEF Unpaid, PaidPcs, storeVars
<1>7. CASE Fetch(p, j) \/ RedisFails(p, j)
  <2>1. CASE Fetch(p, j)
    BY <2>1 DEF Fetch
  <2>2. CASE RedisFails(p, j)
    BY <2>2 DEF RedisFails
  <2>3. QED
    BY <1>7, <2>1, <2>2
<1>8. CASE ReadMeta(p, j) \/ MarkInProgress(p, j) \/ Requeue(p, j)
  <2>1. CASE ReadMeta(p, j)
    BY <2>1 DEF ReadMeta
  <2>2. CASE MarkInProgress(p, j)
    BY <2>2 DEF MarkInProgress, OnlyMeta
  <2>3. CASE Requeue(p, j)
    BY <2>3 DEF Requeue, OnlyMeta
  <2>4. QED
    BY <1>8, <2>1, <2>2, <2>3
<1>9. CASE \/ HitMinuteLimit(p, j) \/ HitDayLimit(p, j) \/ DelayJob(p, j) \/ Return(p, j)
           \/ Throw(p, j)
  BY <1>9 DEF HitMinuteLimit, HitDayLimit, Refused, DelayJob, Return, Throw
<1>10. ASSUME \/ FlagTokens(p, j) \/ ReachProvider(p, j) \/ CallProvider(p, j)
              \/ NoApiName(p, j) \/ ProviderReached(p, j) \/ FinalizeMeta(p, j)
              \/ StoreAnswer(p, j) \/ ReleaseOwnSlot(p, j) \/ LeaveBacklog(p, j)
              \/ ReplyLost(p, j) \/ FinalizeLoses(p, j)
       PROVE  FALSE
  BY <1>10 DEF FlagTokens, ReachProvider, CallProvider, NoApiName, ProviderReached,
               FinalizeMeta, StoreAnswer, ReleaseOwnSlot, LeaveBacklog, ReplyLost,
               FinalizeLoses, At
<1>11. QED
  BY <1>4, <1>7, <1>8, <1>9, <1>10 DEF HandlerStep, HandlerFault

\* Nobody else takes, flags or uses a job's tokens.
LEMMA NextPays == TypeOK /\ NothingUnpaid /\ [Next]_vars => NothingUnpaid'
<1> SUFFICES ASSUME TypeOK, NothingUnpaid, [Next]_vars PROVE NothingUnpaid'
  OBVIOUS
<1> USE DEF NothingUnpaid, Unpaid, TypeOK, HistoryTypeOK, workerVars, historyVars,
            storeVars, handlerVars, queueVars
<1>1. ASSUME NEW j \in Jobs,
             SubmissionStep(j) \/ EnqueueFails(j) \/ WebDies(j)
      PROVE  NothingUnpaid'
  BY <1>1, SubmissionWrites DEF SubmissionFrame
<1>2. ASSUME NEW j \in Jobs, PromoteDelayed(j) \/ RecoverStalled(j) \/ LoseLock(j)
      PROVE  NothingUnpaid'
  BY <1>2, QueueWrites DEF QueueFrame
<1>3. ASSUME NEW p \in Procs, NEW j \in Jobs,
             Fetch(p, j) \/ HandlerStep(p, j) \/ HandlerFault(p, j)
      PROVE  NothingUnpaid'
  BY <1>3, WorkerPays
<1>4. ASSUME NEW p \in Procs, NEW j \in Jobs,
             FailedEventsStep(p, j) \/ FailureLoses(p, j)
      PROVE  NothingUnpaid'
  BY <1>4, FailedWrites
<1>5. ASSUME NEW p \in Procs, ProcessStep(p)
      PROVE  NothingUnpaid'
  <2>1. UNCHANGED <<meta, result, historyVars>>
    BY <1>5, ProcessWrites
  <2>2. ASSUME NEW q \in Procs, NEW j \in Jobs
        PROVE  \/ wpc'[q][j] = wpc[q][j] /\ wskip'[q][j] = wskip[q][j]
               \/ wpc'[q][j] = "idle" /\ ~wskip'[q][j]
    BY <1>5, ProcessWrites
  <2>3. QED
    BY <2>1, <2>2 DEF PaidPcs
<1>6. CASE ExpiryStep \/ CronDies \/ \E u \in Users : CleanupSlots(u)
  BY <1>6, CronWrites DEF CronFrame
<1>7. CASE Midnight \/ (\E j \in Jobs : Age(j)) \/ \E m \in Models : MinuteElapses(m)
  BY <1>7, TimeWrites
<1>8. CASE Rest \/ UNCHANGED vars
  BY <1>8 DEF Rest, vars
<1>9. QED
  BY <1>1, <1>2, <1>3, <1>4, <1>5, <1>6, <1>7, <1>8 DEF Next, ProcessStep

\* No provider call is made for a job whose model tokens were never taken, whatever
\* crashes, retries, stalls and double handlers happen: every way to executeModel goes
\* through consumeExecutionLimits, or through a flag that an earlier run wrote after it.
THEOREM CallsPaid == Spec => []CallsArePaidFor
<1>1. Init => NothingUnpaid
  BY DEF Init, StoreInit, HistoryInit, WorkerInit, EmptyMeta, NothingUnpaid, Unpaid, PaidPcs
<1>2. TypeOK /\ NothingUnpaid => CallsArePaidFor
  BY DEF NothingUnpaid, Unpaid, CallsArePaidFor, TypeOK, HistoryTypeOK
<1>3. QED
  BY <1>1, <1>2, InitType, NextType, NextPays, PTL DEF Spec

-----------------------------------------------------------------------------
(* Calls are bounded.                                                      *)

\* The awaits of a handler that may still come to executeModel.
CallablePcs == {"read", "mark", "consume", "flag", "requeue", "delay", "reach", "call"}

\* The handlers of a job that may still call, and what the job has cost and may cost
\* by them.
Callers(j) == {p \in Procs : wpc[p][j] \in CallablePcs}
Cost(j) == calls[j] + Cardinality(Callers(j))

\* BullMQ charges every handler: with an attempt when it throws, with a stall when its
\* lock is lost.  Before a job has a handler its cost is what was charged; the handler
\* that runs is one more.
Budget(j) ==
    /\ bull[j].st \in {"none", "waiting", "delayed"} =>
          Cost(j) <= bull[j].att + bull[j].stalls
    /\ bull[j].st = "active" => Cost(j) <= bull[j].att + bull[j].stalls + 1
    /\ bull[j].st \in {"none", "waiting", "delayed", "active"} =>
          bull[j].att < Attempts /\ bull[j].stalls <= MaxStalled
    /\ Cost(j) <= Attempts + MaxStalled

\* A job is in its queue from the moment queue.add succeeds.
AddedOnce(j) == (bull[j].st = "none") <=> (sub[j].add # "done")

\* The expiry cron has found its jobs in the queues.
ScannedQueued == \A j \in cron.todo \cup {cron.job} : j # NoJob => bull[j].st # "none"

WithinBudget == \A j \in Jobs : Budget(j) /\ AddedOnce(j)

\* The cost of a job is a natural number.
LEMMA CostType ==
    ASSUME TypeOK, NEW j \in Jobs
    PROVE  IsFiniteSet(Callers(j)) /\ Cardinality(Callers(j)) \in Nat /\ Cost(j) \in Nat
<1>1. IsFiniteSet(Callers(j))
  BY FS_Subset, QueueAssumption DEF Callers
<1>2. QED
  BY <1>1, FS_CardinalityType DEF Cost, TypeOK, HistoryTypeOK

\* And it stays one.
LEMMA CostTypeNext ==
    ASSUME TypeOK', NEW j \in Jobs
    PROVE  Cost(j)' \in Nat
<1>1. IsFiniteSet(Callers(j)')
  BY FS_Subset, QueueAssumption DEF Callers
<1>2. QED
  BY <1>1, FS_CardinalityType DEF Cost, TypeOK, HistoryTypeOK

\* A job costs no more after a step in which it is not called and gets no handler.
LEMMA CostKept ==
    ASSUME TypeOK, TypeOK', NEW j \in Jobs, calls'[j] = calls[j],
           \A q \in Procs : wpc'[q][j] \in CallablePcs => wpc[q][j] \in CallablePcs
    PROVE  Cost(j)' <= Cost(j)
<1>1. Callers(j)' \subseteq Callers(j)
  BY DEF Callers
<1>2. IsFiniteSet(Callers(j)) /\ Cardinality(Callers(j)) \in Nat
  BY CostType
<1>3. Cardinality(Callers(j)') <= Cardinality(Callers(j)) /\ Cardinality(Callers(j)') \in Nat
  BY <1>1, <1>2, FS_Subset, FS_CardinalityType
<1>4. Cardinality(Callers(j))' = Cardinality(Callers(j)')
  OBVIOUS
<1>5. QED
  BY <1>2, <1>3, <1>4 DEF Cost, TypeOK, HistoryTypeOK

\* A handler that starts adds one to the cost of its job.
LEMMA CostStarts ==
    ASSUME TypeOK, TypeOK', NEW p \in Procs, NEW j \in Jobs, calls'[j] = calls[j],
           wpc[p][j] = "idle", wpc'[p][j] = "read",
           \A q \in Procs \ {p} : wpc'[q][j] = wpc[q][j]
    PROVE  Cost(j)' = Cost(j) + 1
<1>1. Callers(j)' = Callers(j) \cup {p} /\ p \notin Callers(j)
  BY DEF Callers, CallablePcs
<1>2. IsFiniteSet(Callers(j)) /\ Cardinality(Callers(j)) \in Nat
  BY CostType
<1>3. Cardinality(Callers(j) \cup {p}) = Cardinality(Callers(j)) + 1
  BY <1>1, <1>2, FS_AddElement
<1>4. QED
  BY <1>1, <1>2, <1>3 DEF Cost, TypeOK, HistoryTypeOK

\* A handler that gets past its call takes one off, and the call is one.
LEMMA CostSpent ==
    ASSUME TypeOK, TypeOK', NEW p \in Procs, NEW j \in Jobs,
           wpc[p][j] \in CallablePcs, wpc'[p][j] \notin CallablePcs,
           \A q \in Procs \ {p} : wpc'[q][j] = wpc[q][j]
    PROVE  /\ calls'[j] = calls[j] => Cost(j)' = Cost(j) - 1
           /\ calls'[j] = calls[j] + 1 => Cost(j)' = Cost(j)
<1>1. Callers(j)' = Callers(j) \ {p} /\ p \in Callers(j)
  BY DEF Callers
<1>2. IsFiniteSet(Callers(j)) /\ Cardinality(Callers(j)) \in Nat
  BY CostType
<1>3. Cardinality(Callers(j) \ {p}) = Cardinality(Callers(j)) - 1
  BY <1>1, <1>2, FS_RemoveElement
<1>4. QED
  BY <1>1, <1>2, <1>3 DEF Cost, TypeOK, HistoryTypeOK

\* The budget stands as long as the job costs no more and BullMQ keeps its record.
LEMMA BudgetKept ==
    ASSUME TypeOK, TypeOK', NEW j \in Jobs, Budget(j), Cost(j)' <= Cost(j),
           bull'[j].att = bull[j].att, bull'[j].stalls = bull[j].stalls,
           \/ bull'[j].st = bull[j].st
           \/ bull'[j].st = "waiting" /\ bull[j].st \in {"none", "delayed"}
           \/ bull'[j].st \in {"completed", "removed"}
    PROVE  Budget(j)'
<1>1. Cost(j) \in Nat /\ Cost(j)' \in Nat
  BY CostType, CostTypeNext
<1>2. bull[j].att \in Nat /\ bull[j].stalls \in Nat
  BY DEF TypeOK, QueueTypeOK, BullRecord
<1>3. QED
  BY <1>1, <1>2, QueueAssumption DEF Budget

\* A job that was queued is never unknown to BullMQ again.
LEMMA QueuedStays ==
    ASSUME TypeOK, [Next]_vars, NEW i \in Jobs, bull[i].st # "none"
    PROVE  bull'[i].st # "none"
<1> USE DEF TypeOK, QueueTypeOK, BullRecord
<1>1. ASSUME NEW j \in Jobs,
             SubmissionStep(j) \/ EnqueueFails(j) \/ WebDies(j)
      PROVE  bull'[i].st # "none"
  <2>1. AddJob(j) => bull'[j].st # "none"
    BY DEF AddJob, Enqueued
  <2>2. QED
    BY <1>1, <2>1, SubmissionWrites
<1>2. ASSUME NEW j \in Jobs, PromoteDelayed(j) \/ RecoverStalled(j) \/ LoseLock(j)
      PROVE  bull'[i].st # "none"
  BY <1>2, QueueWrites, QueueMoves
<1>3. ASSUME NEW p \in Procs, NEW j \in Jobs,
             Fetch(p, j) \/ HandlerStep(p, j) \/ HandlerFault(p, j)
      PROVE  bull'[i].st # "none"
  BY <1>3, HandlerWrites, HandlerMoves
<1>4. ASSUME NEW p \in Procs, NEW j \in Jobs,
             FailedEventsStep(p, j) \/ FailureLoses(p, j)
      PROVE  bull'[i].st # "none"
  BY <1>4, FailedWrites
<1>5. ASSUME NEW p \in Procs, ProcessStep(p)
      PROVE  bull'[i].st # "none"
  BY <1>5, ProcessWrites
<1>6. CASE ExpiryStep \/ CronDies \/ \E u \in Users : CleanupSlots(u)
  BY <1>6, CronWrites
<1>7. CASE Midnight \/ (\E j \in Jobs : Age(j)) \/ \E m \in Models : MinuteElapses(m)
  BY <1>7, TimeWrites DEF queueVars
<1>8. CASE Rest \/ UNCHANGED vars
  BY <1>8 DEF Rest, vars, queueVars
<1>9. QED
  BY <1>1, <1>2, <1>3, <1>4, <1>5, <1>6, <1>7, <1>8 DEF Next, ProcessStep

\* A job gets into its queue by queue.add alone.
LEMMA QueuedByAdd ==
    ASSUME TypeOK, ScannedQueued, [Next]_vars, NEW i \in Jobs,
           bull[i].st = "none", bull'[i].st # "none"
    PROVE  AddJob(i)
<1>1. ASSUME NEW j \in Jobs, SubmissionStep(j) \/ EnqueueFails(j) \/ WebDies(j)
      PROVE  AddJob(i)
  BY <1>1, SubmissionWrites
<1>2. ASSUME NEW j \in Jobs, PromoteDelayed(j) \/ RecoverStalled(j) \/ LoseLock(j)
      PROVE  FALSE
  BY <1>2, QueueWrites, QueueMoves DEF Holds
<1>3. ASSUME NEW p \in Procs, NEW j \in Jobs,
             Fetch(p, j) \/ HandlerStep(p, j) \/ HandlerFault(p, j)
      PROVE  FALSE
  BY <1>3, HandlerWrites, HandlerMoves DEF Holds
<1>4. ASSUME NEW p \in Procs, NEW j \in Jobs,
             FailedEventsStep(p, j) \/ FailureLoses(p, j)
      PROVE  FALSE
  BY <1>4, FailedWrites
<1>5. ASSUME NEW p \in Procs, ProcessStep(p)
      PROVE  FALSE
  BY <1>5, ProcessWrites
<1>6. CASE ExpiryStep \/ CronDies \/ \E u \in Users : CleanupSlots(u)
  BY <1>6, CronWrites, JobsAssumption DEF ScannedQueued
<1>7. CASE Midnight \/ (\E j \in Jobs : Age(j)) \/ \E m \in Models : MinuteElapses(m)
  BY <1>7, TimeWrites DEF queueVars
<1>8. CASE Rest \/ UNCHANGED vars
  BY <1>8 DEF Rest, vars, queueVars
<1>9. QED
  BY <1>1, <1>2, <1>3, <1>4, <1>5, <1>6, <1>7, <1>8 DEF Next, ProcessStep

\* The cron takes the jobs it works on from the queues.
LEMMA NextScanned == TypeOK /\ ScannedQueued /\ [Next]_vars => ScannedQueued'
<1> SUFFICES ASSUME TypeOK, ScannedQueued, [Next]_vars PROVE ScannedQueued'
  OBVIOUS
<1> SUFFICES ASSUME NEW j \in cron'.todo \cup {cron'.job}, j # NoJob
             PROVE  bull[j].st # "none" /\ j \in Jobs
  BY QueuedStays DEF ScannedQueued
<1> USE DEF ScannedQueued, TypeOK, CronTypeOK
<1>1. CASE cron' = cron
  BY <1>1
<1>2. CASE ExpiryStep
  <2>1. CASE BeginExpiry \/ EndExpiry
    <3>1. cron' = CronIdle \/ cron' = [CronIdle EXCEPT !.pc = "scan", !.left = Types]
      BY <2>1 DEF BeginExpiry, EndExpiry
    <3>2. cron'.todo = {} /\ cron'.job = NoJob
      <4>1. CronIdle.todo = {} /\ CronIdle.job = NoJob
            /\ DOMAIN CronIdle = {"pc", "left", "todo", "job", "due"}
        BY DEF CronIdle
      <4>2. CASE cron' = CronIdle
        BY <4>1, <4>2
      <4>3. CASE cron' = [CronIdle EXCEPT !.pc = "scan", !.left = Types]
        BY <4>1, <4>3
      <4>4. QED
        BY <3>1, <4>2, <4>3
    <3>3. QED
      BY <3>2
  <2>2. ASSUME NEW t \in Types, ScanQueue(t) PROVE bull[j].st # "none" /\ j \in Jobs
    <3>1. /\ cron'.todo = {i \in Jobs : TypeOf[i] = t /\ Stale(i)} /\ cron'.job = cron.job
      BY <2>2 DEF ScanQueue
    <3>2. CASE j \in cron'.todo
      BY <3>1, <3>2 DEF Stale
    <3>3. CASE j = cron.job
      BY <3>3
    <3>4. QED
      BY <3>1, <3>2, <3>3
  <2>3. ASSUME NEW i \in Jobs, ReadStale(i) PROVE bull[j].st # "none" /\ j \in Jobs
    <3>1. cron'.todo = cron.todo \ {i} /\ cron'.job = i /\ i \in cron.todo
      BY <2>3 DEF ReadStale
    <3>2. QED
      BY <3>1
  <2>4. ASSUME NEW i \in Jobs, RemoveStale(i) \/ RefundStale(i) \/ ExpireStale(i)
        PROVE  bull[j].st # "none" /\ j \in Jobs
    <3>1. CASE RemoveStale(i)
      BY <3>1 DEF RemoveStale, CronIdle
    <3>2. CASE RefundStale(i)
      BY <3>2 DEF RefundStale
    <3>3. CASE ExpireStale(i)
      BY <3>3 DEF ExpireStale
    <3>4. QED
      BY <2>4, <3>1, <3>2, <3>3
  <2>5. QED
    BY <1>2, <2>1, <2>2, <2>3, <2>4 DEF ExpiryStep
<1>3. CASE CronDies
  BY <1>3 DEF CronDies, CronIdle
<1>4. CASE \E u \in Users : CleanupSlots(u)
  BY <1>1, <1>4 DEF CleanupSlots
<1>5. CASE \E i \in Jobs : SubmissionStep(i) \/ EnqueueFails(i) \/ WebDies(i)
  BY <1>1, <1>5, SubmissionWrites DEF SubmissionFrame
<1>6. CASE \E i \in Jobs : PromoteDelayed(i) \/ RecoverStalled(i) \/ LoseLock(i)
  BY <1>1, <1>6, QueueWrites DEF QueueFrame
<1>7. CASE \E p \in Procs, i \in Jobs : Fetch(p, i) \/ HandlerStep(p, i) \/ HandlerFault(p, i)
  BY <1>1, <1>7, HandlerWrites DEF WorkerFrame
<1>8. CASE \E p \in Procs, i \in Jobs : FailedEventsStep(p, i) \/ FailureLoses(p, i)
  BY <1>1, <1>8, FailedWrites
<1>9. CASE \E p \in Procs : ProcessStep(p)
  BY <1>1, <1>9, ProcessWrites
<1>10. CASE Midnight \/ (\E i \in Jobs : Age(i)) \/ \E m \in Models : MinuteElapses(m)
  BY <1>1, <1>10, TimeWrites
<1>11. CASE Rest \/ UNCHANGED vars
  BY <1>1, <1>11 DEF Rest, vars
<1>12. QED
  BY <1>2, <1>3, <1>4, <1>5, <1>6, <1>7, <1>8, <1>9, <1>10, <1>11 DEF Next, ProcessStep

\* A submission queues its job once and costs nothing.
LEMMA SubmissionBudget ==
    ASSUME TypeOK, TypeOK', WithinBudget, NEW j \in Jobs,
           SubmissionStep(j) \/ EnqueueFails(j) \/ WebDies(j)
    PROVE  WithinBudget'
<1>1. UNCHANGED <<workerVars, historyVars>>
  BY SubmissionWrites DEF SubmissionFrame
<1>2. \A i \in Jobs : Cost(i)' <= Cost(i)
  BY <1>1, CostKept DEF workerVars, historyVars
<1>3. \A i \in Jobs \ {j} : Budget(i)' /\ AddedOnce(i)'
  BY <1>2, SubmissionWrites, BudgetKept DEF WithinBudget, AddedOnce
<1>4. CASE AddJob(j)
  <2>1. /\ sub[j].add # "done" /\ sub'[j].add = "done"
        /\ bull'[j] = [bull[j] EXCEPT !.st = "waiting"]
    BY <1>4 DEF AddJob, Enqueued, TypeOK, QueueTypeOK, SubmissionTypeOK
  <2>2. bull[j].st = "none" /\ Budget(j)
    BY <2>1 DEF WithinBudget, AddedOnce
  <2>3. /\ bull'[j].st = "waiting" /\ bull'[j].att = bull[j].att
        /\ bull'[j].stalls = bull[j].stalls
    BY <2>1 DEF TypeOK, QueueTypeOK, BullRecord
  <2>4. Budget(j)' /\ AddedOnce(j)'
    BY <1>2, <2>1, <2>2, <2>3, BudgetKept DEF AddedOnce
  <2>5. QED
    BY <1>3, <2>4 DEF WithinBudget
<1>5. CASE ~AddJob(j)
  <2>1. bull'[j] = bull[j]
    BY <1>5, SubmissionWrites
  <2>2. (sub'[j].add = "done") <=> (sub[j].add = "done")
    BY <1>5, SubmissionMoves
  <2>3. Budget(j)' /\ AddedOnce(j)'
    BY <1>2, <2>1, <2>2, BudgetKept DEF WithinBudget, AddedOnce
  <2>4. QED
    BY <1>3, <2>3 DEF WithinBudget
<1>6. QED
  BY <1>4, <1>5

\* The queue charges a stall for every lock it finds lost.
LEMMA QueueBudget ==
    ASSUME TypeOK, TypeOK', WithinBudget, NEW j \in Jobs,
           PromoteDelayed(j) \/ RecoverStalled(j) \/ LoseLock(j)
    PROVE  WithinBudget'
<1>1. UNCHANGED <<sub, workerVars, historyVars>>
  BY QueueWrites DEF QueueFrame
<1>2. \A i \in Jobs : Cost(i)' <= Cost(i)
  BY <1>1, CostKept DEF workerVars, historyVars
<1>3. \A i \in Jobs \ {j} : Budget(i)' /\ AddedOnce(i)'
  BY <1>1, <1>2, QueueWrites, BudgetKept DEF WithinBudget, AddedOnce
<1>4. Budget(j) /\ AddedOnce(j) /\ bull[j] \in BullRecord
  BY DEF WithinBudget, TypeOK, QueueTypeOK
<1>5. SUFFICES Budget(j)' /\ AddedOnce(j)'
  BY <1>3 DEF WithinBudget
<1>6. CASE PromoteDelayed(j)
  <2>1. bull[j].st = "delayed" /\ bull'[j] = [bull[j] EXCEPT !.st = "waiting"]
    BY <1>6 DEF PromoteDelayed, TypeOK, QueueTypeOK
  <2>2. QED
    BY <1>1, <1>2, <1>4, <2>1, BudgetKept DEF AddedOnce, BullRecord
<1>7. CASE LoseLock(j)
  <2>1. bull'[j] = [bull[j] EXCEPT !.lock = NoProc]
    BY <1>7 DEF LoseLock, TypeOK, QueueTypeOK
  <2>2. QED
    BY <1>1, <1>2, <1>4, <2>1, BudgetKept DEF AddedOnce, BullRecord
<1>8. CASE RecoverStalled(j)
  <2>1. /\ bull[j].st = "active" /\ bull'[j].att = bull[j].att
        /\ bull'[j].stalls = bull[j].stalls + 1
        /\ bull'[j].st = IF bull[j].stalls >= MaxStalled THEN "failed" ELSE "waiting"
    BY <1>8 DEF RecoverStalled, Holds, TypeOK, QueueTypeOK, BullRecord
  <2>2. Cost(j) \in Nat /\ Cost(j)' \in Nat /\ Cost(j)' <= Cost(j)
    BY <1>2, CostType, CostTypeNext
  <2>3. Budget(j)'
    BY <1>4, <2>1, <2>2, QueueAssumption DEF Budget, BullRecord
  <2>4. QED
    BY <1>1, <1>4, <2>1, <2>3 DEF AddedOnce
<1>9. QED
  BY <1>6, <1>7, <1>8

\* A handler starts when its job waits, and what it may cost from then on is charged
\* when it leaves the job to another one.
LEMMA WorkerBudget ==
    ASSUME TypeOK, TypeOK', WithinBudget, NEW p \in Procs, NEW j \in Jobs,
           Fetch(p, j) \/ HandlerStep(p, j) \/ HandlerFault(p, j)
    PROVE  WithinBudget'
<1>1. /\ UNCHANGED sub
      /\ \A i \in Jobs \ {j} : calls'[i] = calls[i] /\ bull'[i] = bull[i]
      /\ \A q \in Procs, i \in Jobs : q # p \/ i # j => wpc'[q][i] = wpc[q][i]
  BY HandlerWrites DEF WorkerFrame
<1>2. \A i \in Jobs \ {j} : Cost(i)' <= Cost(i)
  BY <1>1, CostKept
<1>3. \A i \in Jobs \ {j} : Budget(i)' /\ AddedOnce(i)'
  BY <1>1, <1>2, BudgetKept DEF WithinBudget, AddedOnce
<1>4. Budget(j) /\ AddedOnce(j) /\ bull[j] \in BullRecord /\ Cost(j) \in Nat /\ Cost(j)' \in Nat
  BY CostType, CostTypeNext DEF WithinBudget, TypeOK, QueueTypeOK
<1>5. SUFFICES Budget(j)' /\ AddedOnce(j)'
  BY <1>3 DEF WithinBudget
<1>6. ASSUME Cost(j)' <= Cost(j), bull'[j] = bull[j]
      PROVE  Budget(j)' /\ AddedOnce(j)'
  BY <1>1, <1>4, <1>6, BudgetKept DEF AddedOnce
<1>7. CASE Fetch(p, j)
  <2>1. /\ wpc[p][j] = "idle" /\ wpc'[p][j] = "read" /\ calls'[j] = calls[j]
        /\ bull[j].st = "waiting" /\ bull'[j].st = "active"
        /\ bull'[j].att = bull[j].att /\ bull'[j].stalls = bull[j].stalls
    BY <1>7, GotoMoves DEF Fetch, Locked, At, TypeOK, QueueTypeOK, BullRecord
  <2>2. Cost(j)' = Cost(j) + 1
    BY <1>1, <2>1, CostStarts
  <2>3. Budget(j)'
    BY <1>4, <2>1, <2>2, QueueAssumption DEF Budget, BullRecord
  <2>4. QED
    BY <1>1, <1>4, <2>1, <2>3 DEF AddedOnce
<1>8. CASE CallProvider(p, j)
  <2>1. /\ wpc[p][j] = "call" /\ wpc'[p][j] \in {"reached", "throw", "fatal"}
        /\ calls'[j] = calls[j] + 1 /\ bull' = bull
    BY <1>8, GotoMoves DEF CallProvider, At, queueVars, TypeOK, HistoryTypeOK
  <2>2. Cost(j)' = Cost(j)
    BY <1>1, <2>1, CostSpent DEF CallablePcs
  <2>3. QED
    BY <1>4, <1>6, <2>1, <2>2
<1>9. CASE DelayJob(p, j)
  <2>1. calls' = calls /\ wpc[p][j] = "delay" /\ wpc'[p][j] \in {"return", "throw"}
    BY <1>9, GotoMoves DEF DelayJob, At
  <2>2. Cost(j)' = Cost(j) - 1
    BY <1>1, <2>1, CostSpent DEF CallablePcs
  <2>3. CASE Holds(p, j)
    <3>1. bull[j].st = "active" /\ bull'[j] = [bull[j] EXCEPT !.st = "delayed", !.lock = NoProc]
      BY <1>9, <2>3 DEF DelayJob, Delayed, Holds, TypeOK, QueueTypeOK
    <3>2. Budget(j)'
      BY <1>4, <2>2, <3>1, QueueAssumption DEF Budget, BullRecord
    <3>3. QED
      BY <1>1, <1>4, <3>1, <3>2 DEF AddedOnce, BullRecord
  <2>4. CASE ~Holds(p, j)
    BY <1>4, <1>6, <1>9, <2>2, <2>4 DEF DelayJob
  <2>5. QED
    BY <2>3, <2>4
<1>10. CASE Return(p, j) \/ Throw(p, j)
  <2>1. calls' = calls /\ wpc[p][j] \notin CallablePcs /\ wpc'[p][j] = "idle"
    BY <1>10, GotoMoves DEF Return, Throw, At, CallablePcs
  <2>2. Cost(j)' <= Cost(j)
    BY <1>1, <2>1, CostKept DEF CallablePcs
  <2>3. CASE ~Holds(p, j)
    BY <1>6, <1>10, <2>2, <2>3 DEF Return, Throw, queueVars
  <2>4. CASE Return(p, j) /\ Holds(p, j)
    <3>1. bull[j].st = "active" /\ bull'[j] = [bull[j] EXCEPT !.st = "completed", !.lock = NoProc]
      BY <2>4 DEF Return, Completed, Holds, TypeOK, QueueTypeOK
    <3>2. QED
      BY <1>1, <1>4, <2>2, <3>1, BudgetKept DEF AddedOnce, BullRecord
  <2>5. CASE Throw(p, j) /\ Holds(p, j)
    <3>1. /\ bull[j].st = "active" /\ bull'[j].stalls = bull[j].stalls
          /\ bull'[j].att = bull[j].att + 1
          /\ \/ bull'[j].st = "failed"
             \/ bull'[j].st = "delayed" /\ ~(bull[j].att + 1 >= Attempts)
      <4>1. bull[j].st = "active" /\ bull[j].att \in Nat
        BY <1>4, <2>5 DEF Holds, BullRecord
      <4>2. QED
        BY <2>5, <4>1, HandlerMoves, QueueAssumption
    <3>2. Budget(j)'
      BY <1>4, <2>2, <3>1, QueueAssumption DEF Budget, BullRecord
    <3>3. QED
      BY <1>1, <1>4, <3>1, <3>2 DEF AddedOnce
  <2>6. QED
    BY <1>10, <2>3, <2>4, <2>5
<1>11. CASE HandlerFault(p, j) \/ (HandlerStep(p, j) /\ ~CallProvider(p, j)
                                    /\ ~DelayJob(p, j) /\ ~Return(p, j) /\ ~Throw(p, j))
  <2>1. calls' = calls /\ bull' = bull
    BY <1>11 DEF HandlerFault, RedisFails, ReplyLost, FinalizeLoses, HandlerStep, ReadMeta,
                 MarkInProgress, TakeTokens, HitMinuteLimit, HitDayLimit, Refused,
                 FlagTokens, Requeue, ReachProvider, NoApiName, ProviderReached,
                 FinalizeMeta, StoreAnswer, ReleaseOwnSlot, LeaveBacklog, OnlyMeta, queueVars
  <2>2. wpc'[p][j] \in CallablePcs => wpc[p][j] \in CallablePcs
    BY <1>11, GotoMoves
       DEF HandlerFault, RedisFails, ReplyLost, FinalizeLoses, HandlerStep, ReadMeta,
           MarkInProgress, TakeTokens, HitMinuteLimit, HitDayLimit, Refused, FlagTokens,
           Requeue, ReachProvider, NoApiName, ProviderReached, FinalizeMeta, StoreAnswer,
           ReleaseOwnSlot, LeaveBacklog, At, CallablePcs
  <2>3. QED
    BY <1>1, <1>6, <2>1, <2>2, CostKept
<1>12. QED
  BY <1>7, <1>8, <1>9, <1>10, <1>11

\* No other step calls for a job or starts a handler.
LEMMA NextBudget ==
    TypeOK /\ TypeOK' /\ WithinBudget /\ ScannedQueued /\ [Next]_vars => WithinBudget'
<1> SUFFICES ASSUME TypeOK, TypeOK', WithinBudget, ScannedQueued, [Next]_vars
             PROVE  WithinBudget'
  OBVIOUS
<1> USE DEF workerVars, historyVars, queueVars
<1>1. ASSUME NEW j \in Jobs,
             SubmissionStep(j) \/ EnqueueFails(j) \/ WebDies(j)
      PROVE  WithinBudget'
  BY <1>1, SubmissionBudget
<1>2. ASSUME NEW j \in Jobs, PromoteDelayed(j) \/ RecoverStalled(j) \/ LoseLock(j)
      PROVE  WithinBudget'
  BY <1>2, QueueBudget
<1>3. ASSUME NEW p \in Procs, NEW j \in Jobs,
             Fetch(p, j) \/ HandlerStep(p, j) \/ HandlerFault(p, j)
      PROVE  WithinBudget'
  BY <1>3, WorkerBudget
<1>4. ASSUME \A j \in Jobs : /\ calls'[j] = calls[j] /\ sub'[j] = sub[j]
                             /\ bull'[j].att = bull[j].att
                             /\ bull'[j].stalls = bull[j].stalls
                             /\ \/ bull'[j].st = bull[j].st
                                \/ bull'[j].st = "removed" /\ bull[j].st # "none",
             \A q \in Procs, j \in Jobs : wpc'[q][j] = wpc[q][j] \/ wpc'[q][j] = "idle"
      PROVE  WithinBudget'
  <2>1. \A j \in Jobs : Cost(j)' <= Cost(j)
    BY <1>4, CostKept DEF CallablePcs
  <2>2. \A j \in Jobs : Budget(j)'
    BY <1>4, <2>1, BudgetKept DEF WithinBudget
  <2>3. QED
    BY <1>4, <2>2 DEF WithinBudget, AddedOnce
<1>5. ASSUME NEW p \in Procs, NEW j \in Jobs,
             FailedEventsStep(p, j) \/ FailureLoses(p, j)
      PROVE  WithinBudget'
  BY <1>4, <1>5, FailedWrites
<1>6. ASSUME NEW p \in Procs, ProcessStep(p)
      PROVE  WithinBudget'
  <2>1. ASSUME NEW q \in Procs, NEW j \in Jobs
        PROVE  wpc'[q][j] = wpc[q][j] \/ wpc'[q][j] = "idle"
    BY <1>6, ProcessWrites
  <2>2. QED
    BY <1>4, <1>6, <2>1, ProcessWrites
<1>7. CASE ExpiryStep \/ CronDies \/ \E u \in Users : CleanupSlots(u)
  <2>1. ASSUME NEW j \in Jobs, cron.job = j PROVE bull[j].st # "none"
    BY <2>1, JobsAssumption DEF ScannedQueued
  <2>2. QED
    BY <1>4, <1>7, <2>1, CronWrites DEF CronFrame, TypeOK, QueueTypeOK, BullRecord
<1>8. CASE Midnight \/ (\E j \in Jobs : Age(j)) \/ \E m \in Models : MinuteElapses(m)
  BY <1>4, <1>8, TimeWrites
<1>9. CASE Rest \/ UNCHANGED vars
  BY <1>4, <1>9 DEF Rest, vars
<1>10. QED
  BY <1>1, <1>2, <1>3, <1>5, <1>6, <1>7, <1>8, <1>9 DEF Next, ProcessStep

\* Nothing is charged and nothing costs initially.
LEMMA InitBudget == Init => WithinBudget /\ ScannedQueued
<1> SUFFICES ASSUME Init PROVE WithinBudget /\ ScannedQueued
  OBVIOUS
<1>1. ScannedQueued
  BY DEF Init, CronInit, CronIdle, ScannedQueued
<1>2. ASSUME NEW j \in Jobs PROVE Budget(j) /\ AddedOnce(j)
  <2>1. Callers(j) = {}
    BY DEF Init, WorkerInit, Callers, CallablePcs
  <2>2. Cost(j) = 0
    BY <2>1, FS_EmptySet DEF Init, HistoryInit, Cost
  <2>3. QED
    BY <2>2, QueueAssumption DEF Init, QueueInit, SubmissionInit, Budget, AddedOnce
<1>3. QED
  BY <1>1, <1>2 DEF WithinBudget

\* A job reaches the provider at most Attempts + MaxStalled times, whatever crashes,
\* lost locks, retries, rate-limit delays and double handlers happen: every handler
\* that can call is either charged as an attempt, charged as a stall, or the one that
\* runs, and BullMQ hands out no job that has used up either.
THEOREM CallsAreBounded == Spec => []CallsBounded
<1>1. Init => WithinBudget /\ ScannedQueued
  BY InitBudget
<1>2. TypeOK /\ WithinBudget => CallsBounded
  <2> SUFFICES ASSUME TypeOK, WithinBudget, NEW j \in Jobs
               PROVE  calls[j] <= Attempts + MaxStalled
    BY DEF CallsBounded
  <2>1. Cost(j) <= Attempts + MaxStalled /\ Cardinality(Callers(j)) \in Nat
    BY CostType DEF WithinBudget, Budget
  <2>2. QED
    BY <2>1, QueueAssumption DEF Cost, TypeOK, HistoryTypeOK
<1>3. QED
  BY <1>1, <1>2, InitType, NextType, NextScanned, NextBudget, PTL DEF Spec

-----------------------------------------------------------------------------
(* A settled job holds no slot.                                            *)

\* A job BullMQ does not know yet has left no trace anywhere.
NoTrace(j) ==
    /\ result[j] = "none"
    /\ \A p \in Procs : wpc[p][j] = "idle" /\ hpc[p][j] = "idle" /\ j \notin events[p]

\* The request queues its job only after it has got its slot.
SlotFirst(j) == sub[j].pc \in {"idle", "select"} => sub[j].add = "pending"

QueuedLeaveTraces ==
    \A j \in Jobs : (bull[j].st = "none" => NoTrace(j)) /\ SlotFirst(j)

\* Workers and failed handlers run for queued jobs, and the cron expires queued jobs.
LEMMA NextTraces ==
    TypeOK /\ QueuedLeaveTraces /\ ScannedQueued /\ [Next]_vars => QueuedLeaveTraces'
<1> SUFFICES ASSUME TypeOK, QueuedLeaveTraces, ScannedQueued, [Next]_vars,
                    NEW i \in Jobs
             PROVE  (bull'[i].st = "none" => NoTrace(i)') /\ SlotFirst(i)'
  BY DEF QueuedLeaveTraces
<1>1. bull'[i].st = "none" => bull[i].st = "none" /\ NoTrace(i)
  BY QueuedStays DEF QueuedLeaveTraces
<1>2. SlotFirst(i)
  BY DEF QueuedLeaveTraces
<1> USE DEF workerVars, handlerVars, queueVars, storeVars
<1>3. ASSUME NEW j \in Jobs,
             SubmissionStep(j) \/ EnqueueFails(j) \/ WebDies(j)
      PROVE  (bull'[i].st = "none" => NoTrace(i)') /\ SlotFirst(i)'
  <2>1. NoTrace(i) => NoTrace(i)'
    BY <1>3, SubmissionWrites DEF SubmissionFrame, NoTrace
  <2>2. SlotFirst(i)'
    BY <1>2, <1>3, SubmissionWrites, SubmissionMoves DEF SlotFirst
  <2>3. QED
    BY <1>1, <2>1, <2>2
<1>4. ASSUME NEW j \in Jobs, PromoteDelayed(j) \/ RecoverStalled(j) \/ LoseLock(j)
      PROVE  (bull'[i].st = "none" => NoTrace(i)') /\ SlotFirst(i)'
  <2>1. QueueFrame /\ bull[j].st # "none"
    BY <1>4, QueueWrites, QueueMoves DEF Holds
  <2>2. i # j => \A p \in Procs : i \in events'[p] => i \in events[p]
    BY <1>4 DEF PromoteDelayed, RecoverStalled, LoseLock, PublishFailed, TypeOK, QueueTypeOK
  <2>3. QED
    BY <1>1, <1>2, <2>1, <2>2 DEF QueueFrame, NoTrace, SlotFirst
<1>5. ASSUME NEW p \in Procs, NEW j \in Jobs,
             Fetch(p, j) \/ HandlerStep(p, j) \/ HandlerFault(p, j)
      PROVE  (bull'[i].st = "none" => NoTrace(i)') /\ SlotFirst(i)'
  <2>1. wpc[p][j] # "idle" \/ bull[j].st # "none"
    BY <1>5 DEF Fetch, HandlerFault, RedisFails, RedisPcs, ReplyLost, FinalizeLoses,
                HandlerStep, ReadMeta, MarkInProgress, TakeTokens, HitMinuteLimit,
                HitDayLimit, Refused, FlagTokens, Requeue, DelayJob, ReachProvider,
                CallProvider, NoApiName, ProviderReached, FinalizeMeta, StoreAnswer,
                ReleaseOwnSlot, LeaveBacklog, Return, Throw, At
  <2>2. i # j => \A q \in Procs : i \in events'[q] => i \in events[q]
    <3>1. CASE Throw(p, j)
      BY <3>1 DEF Throw, Failed, PublishFailed, queueVars, TypeOK, QueueTypeOK
    <3>2. CASE ~Throw(p, j)
      BY <1>5, <3>2, HandlerMoves
    <3>3. QED
      BY <3>1, <3>2
  <2>3. QED
    BY <1>1, <1>2, <1>5, <2>1, <2>2, HandlerWrites DEF WorkerFrame, NoTrace, SlotFirst
<1>6. ASSUME NEW p \in Procs, NEW j \in Jobs,
             FailedEventsStep(p, j) \/ FailureLoses(p, j)
      PROVE  (bull'[i].st = "none" => NoTrace(i)') /\ SlotFirst(i)'
  <2>1. hpc[p][j] # "idle" \/ j \in events[p]
    BY <1>6 DEF FailedEventsStep, OnFailed, GiveTokensBack, WriteFailure, MarkFailure,
                ReleaseFailedSlot, LeaveAfterFailure, FailureLoses
  <2>2. QED
    BY <1>1, <1>2, <1>6, <2>1, FailedWrites DEF NoTrace, SlotFirst
<1>7. ASSUME NEW p \in Procs, ProcessStep(p)
      PROVE  (bull'[i].st = "none" => NoTrace(i)') /\ SlotFirst(i)'
  <2>1. ASSUME NEW q \in Procs
        PROVE  /\ wpc'[q][i] = wpc[q][i] \/ wpc'[q][i] = "idle"
               /\ hpc'[q][i] = hpc[q][i] \/ hpc'[q][i] = "idle"
               /\ i \in events'[q] => i \in events[q]
    BY <1>7, ProcessWrites
  <2>2. UNCHANGED <<result, sub>>
    BY <1>7, ProcessWrites
  <2>3. QED
    BY <1>1, <1>2, <2>1, <2>2 DEF NoTrace, SlotFirst
<1>8. CASE ExpiryStep \/ CronDies \/ \E u \in Users : CleanupSlots(u)
  <2>1. ExpireStale(i) => bull[i].st # "none"
    BY JobsAssumption DEF ExpireStale, ScannedQueued
  <2>2. QED
    BY <1>1, <1>2, <1>8, <2>1, CronWrites DEF CronFrame, NoTrace, SlotFirst
<1>9. CASE Midnight \/ (\E j \in Jobs : Age(j)) \/ \E m \in Models : MinuteElapses(m)
  BY <1>1, <1>2, <1>9, TimeWrites DEF NoTrace, SlotFirst
<1>10. CASE Rest \/ UNCHANGED vars
  BY <1>1, <1>2, <1>10 DEF Rest, vars, NoTrace, SlotFirst
<1>11. QED
  BY <1>3, <1>4, <1>5, <1>6, <1>7, <1>8, <1>9, <1>10 DEF Next, ProcessStep

\* A slot is taken by combinedCheckAndAcquire.lua alone.
LEMMA SlotsTaken ==
    ASSUME TypeOK, [Next]_vars, NEW i \in Jobs, NEW u \in Users, i \in slots'[u]
    PROVE  i \in slots[u] \/ (u = UserOf[i] /\ AcquireCandidate(i))
<1> USE JobsAssumption DEF TypeOK, StoreTypeOK
<1>1. ASSUME NEW v \in Users,
             slots' = [slots EXCEPT ![v] = Unexpired(v)] \/ slots' = slots
      PROVE  i \in slots[u]
  <2>1. CASE slots' = [slots EXCEPT ![v] = Unexpired(v)]
    <3>1. slots'[u] = IF u = v THEN Unexpired(v) ELSE slots[u]
      BY <2>1
    <3>2. QED
      BY <3>1 DEF Unexpired
  <2>2. QED
    BY <1>1, <2>1
<1>2. ASSUME NEW j \in Jobs, ReleaseSlot(j) \/ slots' = slots
      PROVE  i \in slots[u]
  <2>1. CASE ReleaseSlot(j)
    <3>1. slots'[u] = IF u = UserOf[j] THEN slots[u] \ {j} ELSE slots[u]
      BY <2>1 DEF ReleaseSlot
    <3>2. QED
      BY <3>1
  <2>2. QED
    BY <1>2, <2>1
<1>3. ASSUME NEW j \in Jobs,
             SubmissionStep(j) \/ EnqueueFails(j) \/ WebDies(j)
      PROVE  i \in slots[u] \/ (u = UserOf[i] /\ AcquireCandidate(i))
  <2>1. CASE AcquireCandidate(j)
    <3>1. \E S \in {{}, {j}} : slots' = [slots EXCEPT ![UserOf[j]] = Unexpired(UserOf[j]) \cup S]
      BY <2>1 DEF AcquireCandidate
    <3>2. QED
      BY <2>1, <3>1 DEF Unexpired
  <2>2. CASE ~AcquireCandidate(j)
    BY <1>1, <1>3, <2>2
       DEF SubmissionStep, StartSubmission, SkipUnloaded, SkipExhausted, RefuseUser,
           DropExpiredSlots, NoModelLeft, CountWaiting, UndoWaiting, AddJob, PutMeta,
           UndoEnqueue, EnqueueFails, WebDies
  <2>3. QED
    BY <2>1, <2>2
<1>4. ASSUME NEW j \in Jobs, PromoteDelayed(j) \/ RecoverStalled(j) \/ LoseLock(j)
      PROVE  i \in slots[u]
  BY <1>4, QueueWrites DEF QueueFrame, storeVars
<1>5. ASSUME NEW p \in Procs, NEW j \in Jobs,
             Fetch(p, j) \/ HandlerStep(p, j) \/ HandlerFault(p, j)
      PROVE  i \in slots[u]
  BY <1>2, <1>5
     DEF Fetch, HandlerFault, RedisFails, ReplyLost, FinalizeLoses, HandlerStep, ReadMeta,
         MarkInProgress, TakeTokens, HitMinuteLimit, HitDayLimit, Refused, FlagTokens,
         Requeue, DelayJob, ReachProvider, CallProvider, NoApiName, ProviderReached,
         FinalizeMeta, StoreAnswer, ReleaseOwnSlot, LeaveBacklog, Return, Throw, OnlyMeta,
         storeVars
<1>6. ASSUME NEW p \in Procs, NEW j \in Jobs,
             FailedEventsStep(p, j) \/ FailureLoses(p, j)
      PROVE  i \in slots[u]
  BY <1>2, <1>6
     DEF FailedEventsStep, OnFailed, GiveTokensBack, WriteFailure, MarkFailure,
         ReleaseFailedSlot, LeaveAfterFailure, FailureLoses, storeVars
<1>7. ASSUME NEW p \in Procs, ProcessStep(p)
      PROVE  i \in slots[u]
  BY <1>7, ProcessWrites
<1>8. CASE ExpiryStep \/ CronDies
  BY <1>2, <1>8
     DEF ExpiryStep, CronDies, BeginExpiry, EndExpiry, ScanQueue, ReadStale, RemoveStale,
         RefundStale, ExpireStale, storeVars
<1>9. CASE \E v \in Users : CleanupSlots(v)
  BY <1>1, <1>9 DEF CleanupSlots
<1>10. CASE Midnight \/ (\E j \in Jobs : Age(j)) \/ \E m \in Models : MinuteElapses(m)
  BY <1>10, TimeWrites
<1>11. CASE Rest \/ UNCHANGED vars
  BY <1>11 DEF Rest, vars, storeVars
<1>12. QED
  BY <1>3, <1>4, <1>5, <1>6, <1>7, <1>8, <1>9, <1>10, <1>11 DEF Next, ProcessStep

\* A handler that has come past the ZREM of its pipeline, and still holds its job when
\* it returns, has given the slot back.
PastRelease(j) ==
    \E p \in Procs : At(p, j, "leave") \/ (At(p, j, "return") /\ Holds(p, j))

ReleasedAtLast ==
    \A j \in Jobs : bull[j].st = "completed" \/ PastRelease(j) => j \notin slots[UserOf[j]]

\* A request that gets its slot gets it for a job that no handler has seen.
LEMMA SlotOfNewJob ==
    ASSUME TypeOK, WithinBudget, QueuedLeaveTraces, NEW j \in Jobs, AcquireCandidate(j)
    PROVE  bull[j].st = "none" /\ ~PastRelease(j)
BY DEF AcquireCandidate, AtLoaded, AtCandidate, QueuedLeaveTraces, SlotFirst, WithinBudget,
       AddedOnce, NoTrace, PastRelease, At

\* The handler of a job gets past the ZREM by running it, and completes the job after.
LEMMA HandlerReleases ==
    ASSUME TypeOK, "redis" \notin Environment, ReleasedAtLast, NEW p \in Procs, NEW j \in Jobs,
           Fetch(p, j) \/ HandlerStep(p, j) \/ HandlerFault(p, j),
           bull'[j].st = "completed" \/ PastRelease(j)'
    PROVE  bull[j].st = "completed" \/ PastRelease(j) \/ ReleaseOwnSlot(p, j)
<1> SUFFICES ASSUME ~PastRelease(j), bull[j].st # "completed", ~ReleaseOwnSlot(p, j)
             PROVE  FALSE
  OBVIOUS
<1>1. ~HandlerFault(p, j)
  BY DEF HandlerFault, RedisFails, ReplyLost, FinalizeLoses, Fault
<1>2. \A q \in Procs \ {p} : wpc'[q][j] = wpc[q][j]
  BY HandlerWrites
<1>3. CASE Fetch(p, j)
  <2>1. wpc'[p][j] = "read" /\ bull'[j].st = "active" /\ bull'[j].lock = p
    BY <1>3, GotoMoves, HandlerMoves DEF Fetch
  <2>2. QED
    BY <1>2, <2>1 DEF PastRelease, At, Holds
<1>4. CASE Return(p, j)
  <2>1. ~Holds(p, j) /\ bull' = bull /\ wpc'[p][j] = "idle"
    BY <1>4, GotoMoves DEF Return, PastRelease, At
  <2>2. QED
    BY <1>2, <2>1 DEF PastRelease, At, Holds
<1>5. CASE DelayJob(p, j)
  <2>1. CASE Holds(p, j)
    <3>1. bull'[j].st = "delayed"
      BY <1>5, <2>1, HandlerMoves
    <3>2. wpc'[p][j] = "return"
      BY <1>5, <2>1, GotoMoves DEF DelayJob
    <3>3. QED
      BY <1>2, <3>1, <3>2 DEF PastRelease, At, Holds
  <2>2. CASE ~Holds(p, j)
    <3>1. bull' = bull /\ wpc'[p][j] = "throw"
      BY <1>5, <2>2, GotoMoves DEF DelayJob
    <3>2. QED
      BY <1>2, <3>1 DEF PastRelease, At, Holds
  <2>3. QED
    BY <2>1, <2>2
<1>6. CASE Throw(p, j)
  <2>1. wpc'[p][j] = "idle"
    BY <1>6, GotoMoves DEF Throw
  <2>2. bull'[j] = bull[j] \/ bull'[j].st \in {"failed", "delayed"}
    <3>1. CASE Holds(p, j)
      BY <1>6, <3>1, HandlerMoves
    <3>2. CASE ~Holds(p, j)
      BY <1>6, <3>2 DEF Throw, queueVars
    <3>3. QED
      BY <3>1, <3>2
  <2>3. QED
    BY <1>2, <2>1, <2>2 DEF PastRelease, At, Holds
<1>7. CASE LeaveBacklog(p, j)
  BY <1>7 DEF LeaveBacklog, PastRelease
<1>8. CASE \/ ReadMeta(p, j) \/ MarkInProgress(p, j) \/ TakeTokens(p, j)
           \/ HitMinuteLimit(p, j) \/ HitDayLimit(p, j) \/ FlagTokens(p, j)
           \/ Requeue(p, j) \/ ReachProvider(p, j) \/ CallProvider(p, j)
           \/ NoApiName(p, j) \/ ProviderReached(p, j) \/ FinalizeMeta(p, j)
           \/ StoreAnswer(p, j)
  <2>1. PICK pc \in WorkerPcs \ {"leave", "return"} : Goto(p, j, pc)
    BY <1>8 DEF ReadMeta, MarkInProgress, TakeTokens, HitMinuteLimit, HitDayLimit, Refused,
                FlagTokens, Requeue, ReachProvider, CallProvider, NoApiName,
                ProviderReached, FinalizeMeta, StoreAnswer, WorkerPcs
  <2>2. bull' = bull
    BY <1>8 DEF ReadMeta, MarkInProgress, TakeTokens, HitMinuteLimit, HitDayLimit, Refused,
                FlagTokens, Requeue, ReachProvider, CallProvider, NoApiName,
                ProviderReached, FinalizeMeta, StoreAnswer, OnlyMeta, queueVars
  <2>3. wpc'[p][j] \notin {"leave", "return"}
    BY <2>1, GotoMoves
  <2>4. QED
    BY <1>2, <2>2, <2>3 DEF PastRelease, At, Holds
<1>9. QED
  BY <1>1, <1>3, <1>4, <1>5, <1>6, <1>7, <1>8 DEF HandlerStep

\* A slot that was given back is not taken again, and a job is completed by a handler
\* that has given it back.
LEMMA NextReleased ==
    ASSUME "redis" \notin Environment
    PROVE  TypeOK /\ WithinBudget /\ QueuedLeaveTraces /\ ReleasedAtLast /\ [Next]_vars
               => ReleasedAtLast'
<1> SUFFICES ASSUME TypeOK, WithinBudget, QueuedLeaveTraces, ReleasedAtLast, [Next]_vars,
                    NEW i \in Jobs, bull'[i].st = "completed" \/ PastRelease(i)'
             PROVE  i \notin slots'[UserOf[i]]
  BY DEF ReleasedAtLast
<1>1. ASSUME bull[i].st = "completed" \/ PastRelease(i)
      PROVE  i \notin slots'[UserOf[i]]
  BY <1>1, SlotsTaken, SlotOfNewJob, JobsAssumption DEF ReleasedAtLast
<1>2. ASSUME \A p \in Procs : wpc'[p][i] = wpc[p][i] \/ wpc'[p][i] = "idle",
             \/ bull'[i].st = bull[i].st
             \/ bull'[i].st \notin {"active", "completed"},
             bull'[i].lock = bull[i].lock \/ bull'[i].lock = NoProc
      PROVE  bull[i].st = "completed" \/ PastRelease(i)
  BY <1>2, QueueAssumption DEF PastRelease, At, Holds
<1> USE DEF workerVars, queueVars
<1>3. ASSUME NEW j \in Jobs,
             SubmissionStep(j) \/ EnqueueFails(j) \/ WebDies(j)
      PROVE  bull[i].st = "completed" \/ PastRelease(i)
  <2>1. UNCHANGED wpc /\ (bull'[i] = bull[i] \/ (i = j /\ AddJob(j)))
    BY <1>3, SubmissionWrites DEF SubmissionFrame
  <2>2. AddJob(j) => bull'[j].st = "waiting" /\ bull'[j].lock = bull[j].lock
    BY DEF AddJob, Enqueued, TypeOK, QueueTypeOK, BullRecord
  <2>3. QED
    BY <1>2, <2>1, <2>2
<1>4. ASSUME NEW j \in Jobs, PromoteDelayed(j) \/ RecoverStalled(j) \/ LoseLock(j)
      PROVE  bull[i].st = "completed" \/ PastRelease(i)
  <2>1. UNCHANGED wpc /\ (i # j => bull'[i] = bull[i])
    BY <1>4, QueueWrites DEF QueueFrame
  <2>2. /\ bull'[j].st \notin {"active", "completed"} \/ bull'[j].st = bull[j].st
        /\ bull'[j].lock \in {bull[j].lock, NoProc}
    BY <1>4, QueueMoves
  <2>3. QED
    BY <1>2, <2>1, <2>2
<1>5. ASSUME NEW p \in Procs, NEW j \in Jobs,
             Fetch(p, j) \/ HandlerStep(p, j) \/ HandlerFault(p, j)
      PROVE  i \notin slots'[UserOf[i]]
  <2>1. CASE i # j
    <3>1. bull'[i] = bull[i] /\ \A q \in Procs : wpc'[q][i] = wpc[q][i]
      BY <1>5, <2>1, HandlerWrites
    <3>2. QED
      BY <1>1, <1>2, <3>1
  <2>2. CASE i = j /\ ReleaseOwnSlot(p, j)
    BY <2>2, JobsAssumption DEF ReleaseOwnSlot, ReleaseSlot, TypeOK, StoreTypeOK
  <2>3. CASE i = j /\ ~ReleaseOwnSlot(p, j)
    BY <1>1, <1>5, <2>3, HandlerReleases
  <2>4. QED
    BY <2>1, <2>2, <2>3
<1>6. ASSUME NEW p \in Procs, NEW j \in Jobs,
             FailedEventsStep(p, j) \/ FailureLoses(p, j)
      PROVE  bull[i].st = "completed" \/ PastRelease(i)
  BY <1>2, <1>6, FailedWrites
<1>7. ASSUME NEW p \in Procs, ProcessStep(p)
      PROVE  bull[i].st = "completed" \/ PastRelease(i)
  <2>1. \A q \in Procs : wpc'[q][i] = wpc[q][i] \/ wpc'[q][i] = "idle"
    BY <1>7, ProcessWrites
  <2>2. bull'[i].st = bull[i].st /\ bull'[i].lock \in {bull[i].lock, NoProc}
    BY <1>7, ProcessWrites
  <2>3. QED
    BY <1>2, <2>1, <2>2
<1>8. CASE ExpiryStep \/ CronDies \/ \E u \in Users : CleanupSlots(u)
  <2>1. UNCHANGED wpc
    BY <1>8, CronWrites DEF CronFrame
  <2>2. bull'[i] = bull[i] \/ (bull'[i].st = "removed" /\ bull'[i].lock = NoProc)
    BY <1>8, CronWrites
  <2>3. bull[i].st = "completed" \/ PastRelease(i)
    BY <1>2, <2>1, <2>2
  <2>4. QED
    BY <1>1, <2>3
<1>9. CASE Midnight \/ (\E j \in Jobs : Age(j)) \/ \E m \in Models : MinuteElapses(m)
  BY <1>1, <1>2, <1>9, TimeWrites
<1>10. CASE Rest \/ UNCHANGED vars
  BY <1>1, <1>2, <1>10 DEF Rest, vars
<1>11. QED
  BY <1>1, <1>3, <1>4, <1>5, <1>6, <1>7, <1>8, <1>9, <1>10 DEF Next, ProcessStep

\* A job that BullMQ has completed holds no slot, in any interleaving of its handlers,
\* retries, crashes, stalls and cron runs: the handler whose return completes it has
\* been past the ZREM of finalizeSuccess, and no request can take a slot for a job that
\* was queued before.  A ZREM that fails would leave the slot, so no Redis command fails.
THEOREM SettledJobsHoldNoSlot ==
    ASSUME "redis" \notin Environment
    PROVE  Spec => []SettledHoldsNoSlot
<1>1. Init => QueuedLeaveTraces /\ ReleasedAtLast
  BY DEF Init, StoreInit, QueueInit, SubmissionInit, WorkerInit, FailedEventsInit,
         QueuedLeaveTraces, NoTrace, SlotFirst, ReleasedAtLast, PastRelease, At
<1>2. ReleasedAtLast => SettledHoldsNoSlot
  BY DEF ReleasedAtLast, SettledHoldsNoSlot
<1>3. Init => WithinBudget /\ ScannedQueued
  BY InitBudget
<1>4. QED
  BY <1>1, <1>2, <1>3, InitType, NextType, NextScanned, NextBudget, NextTraces,
     NextReleased, PTL DEF Spec

-----------------------------------------------------------------------------
(* The slots are leases of a semaphore.                                    *)

\* A request has a model from the moment it has its slot and its unit of quota, and a
\* queued job has one.
ModelWithUnit ==
    \A j \in Jobs :
        /\ sub[j].pc \in {"idle", "select"} => sub[j].model = NoModel
        /\ sub[j].pc \in {"incr", "full", "enqueue", "undo", "error"} => sub[j].model # NoModel
        /\ bull[j].st # "none" => sub[j].model # NoModel

\* A request that has its model has been through the script, and only such a request
\* queues its job.
LEMMA NextModelWithUnit ==
    TypeOK /\ ScannedQueued /\ ModelWithUnit /\ [Next]_vars => ModelWithUnit'
<1> SUFFICES ASSUME TypeOK, ScannedQueued, ModelWithUnit, [Next]_vars, NEW j \in Jobs
             PROVE  /\ sub'[j].pc \in {"idle", "select"} => sub'[j].model = NoModel
                    /\ sub'[j].pc \in {"incr", "full", "enqueue", "undo", "error"} =>
                          sub'[j].model # NoModel
                    /\ bull'[j].st # "none" => sub'[j].model # NoModel
  BY DEF ModelWithUnit
<1>1. /\ sub[j].pc \in {"idle", "select"} => sub[j].model = NoModel
      /\ sub[j].pc \in {"incr", "full", "enqueue", "undo", "error"} => sub[j].model # NoModel
      /\ bull[j].st # "none" => sub[j].model # NoModel
  BY DEF ModelWithUnit
<1>2. sub'[j].pc \in {"idle", "select"} => sub'[j].model = NoModel
  <2>1. CASE sub' = sub
    BY <1>1, <2>1
  <2>2. ASSUME NEW i \in Jobs, SubmissionStep(i) \/ EnqueueFails(i) \/ WebDies(i),
               \A k \in Jobs \ {i} : sub'[k] = sub[k]
        PROVE  sub'[j].pc \in {"idle", "select"} => sub'[j].model = NoModel
    BY <1>1, <2>2, SubmissionMoves
  <2>3. QED
    BY <2>1, <2>2, Writers
<1>3. sub[j].model # NoModel => sub'[j].model # NoModel
  <2>1. ASSUME NEW i \in Jobs, SubmissionStep(i) \/ EnqueueFails(i) \/ WebDies(i),
               \A k \in Jobs \ {i} : sub'[k] = sub[k]
        PROVE  sub[j].model # NoModel => sub'[j].model # NoModel
    BY <2>1, SubmissionMoves, AcquireMoves, ModelsAssumption
  <2>2. QED
    BY <2>1, Writers
<1>4. bull[j].st = "none" /\ bull'[j].st # "none" => sub[j].model # NoModel
  BY <1>1, QueuedByAdd DEF AddJob, InFlight
<1>5. sub'[j].pc \in {"incr", "full", "enqueue", "undo", "error"} => sub'[j].model # NoModel
  <2> DEFINE Chosen == {"incr", "full", "enqueue", "undo", "error"}
  <2>1. ASSUME SubmissionStep(j) \/ EnqueueFails(j) \/ WebDies(j), sub'[j].pc \in Chosen,
               ~AcquireCandidate(j)
        PROVE  sub[j].pc \in Chosen
    <3> USE <2>1 DEF TypeOK, SubmissionTypeOK
    <3>1. CASE CountWaiting(j) \/ UndoWaiting(j)
      BY <3>1 DEF CountWaiting, UndoWaiting
    <3>2. CASE AddJob(j)
      BY <3>2 DEF AddJob, InFlight
    <3>3. CASE PutMeta(j)
      BY <3>3 DEF PutMeta, InFlight
    <3>4. CASE UndoEnqueue(j)
      BY <3>4 DEF UndoEnqueue
    <3>5. CASE EnqueueFails(j) \/ WebDies(j)
      BY <3>5 DEF EnqueueFails, WebDies, InFlight
    <3>6. CASE StartSubmission(j) \/ NoModelLeft(j) \/ RefuseUser(j)
      <4>1. CASE StartSubmission(j)
        BY <4>1 DEF StartSubmission
      <4>2. CASE NoModelLeft(j)
        BY <4>2 DEF NoModelLeft
      <4>3. CASE RefuseUser(j)
        BY <4>3 DEF RefuseUser
      <4>4. QED
        BY <3>6, <4>1, <4>2, <4>3
    <3>7. CASE SkipUnloaded(j) \/ SkipExhausted(j)
      BY <3>7 DEF SkipUnloaded, SkipExhausted, AtLoaded, AtCandidate
    <3>8. QED
      BY <3>1, <3>2, <3>3, <3>4, <3>5, <3>6, <3>7 DEF SubmissionStep
  <2>2. ASSUME NEW i \in Jobs, SubmissionStep(i) \/ EnqueueFails(i) \/ WebDies(i),
               \A k \in Jobs \ {i} : sub'[k] = sub[k]
        PROVE  sub'[j].pc \in Chosen => sub'[j].model # NoModel
    BY <1>1, <1>3, <2>1, <2>2, AcquireMoves, ModelsAssumption
  <2>3. QED
    BY <1>1, <2>2, Writers
<1>6. QED
  BY <1>1, <1>2, <1>3, <1>4, <1>5

\* A slot is taken under the user who submits.
SlotsOwned == \A u \in Users : \A j \in slots[u] : UserOf[j] = u

LEMMA NextSlotsOwned == TypeOK /\ SlotsOwned /\ [Next]_vars => SlotsOwned'
<1> SUFFICES ASSUME TypeOK, SlotsOwned, [Next]_vars, NEW u \in Users, NEW j \in slots'[u]
             PROVE  UserOf[j] = u
  BY DEF SlotsOwned
<1>1. j \in Jobs
  BY NextType DEF TypeOK, StoreTypeOK
<1>2. j \in slots[u] \/ u = UserOf[j]
  BY <1>1, SlotsTaken
<1>3. QED
  BY <1>2 DEF SlotsOwned

\* Counting is the same for both specifications.
LEMMA LeaseCounts ==
    ASSUME NEW S
    PROVE  Lease!Cardinality(S) = Cardinality(S)
BY Zenon DEF Lease!Cardinality, Cardinality

\* A step that settles nothing and takes at most expired slots away is no step of the
\* semaphore.
LEMMA NoLease ==
    ASSUME TypeOK, UNCHANGED <<result, age>>,
           \A j \in Jobs : sub'[j].model = sub[j].model,
           \/ UNCHANGED slots
           \/ \E u \in Users : slots' = [slots EXCEPT ![u] = Unexpired(u)]
    PROVE  UNCHANGED Lease!vars
<1>1. \A u \in Users : Unexpired(u)' = Unexpired(u)
  BY DEF TypeOK, StoreTypeOK, Unexpired
<1>2. QED
  BY <1>1 DEF Lease!vars

\* The script that says OK is the semaphore letting a job through.
LEMMA AcquireTakes ==
    ASSUME TypeOK, ModelWithUnit, NEW j \in Jobs, AcquireCandidate(j)
    PROVE  Lease!Take(j)
<1> DEFINE u == UserOf[j]
           slot == IF ConcurrencyLimit[u] > 0 THEN {j} ELSE {}
           lease == IF ConcurrencyLimit[u] > 0 THEN {j} \ {i \in Jobs : age[i] = 2}
                                               ELSE {}
<1>1. u \in Users
  BY JobsAssumption
<1>2. sub[j].model = NoModel /\ sub'[j].model # NoModel
      /\ \A i \in Jobs \ {j} : sub'[i] = sub[i]
  BY AcquireMoves, ModelsAssumption
     DEF ModelWithUnit, AcquireCandidate, TypeOK, SubmissionTypeOK
<1>3. {i \in Jobs : sub'[i].model # NoModel} = {i \in Jobs : sub[i].model # NoModel} \cup {j}
  BY <1>2
<1>4. UNCHANGED <<age, result>>
  BY DEF AcquireCandidate, SubmissionFrame
<1>5. \A v \in Users : slots'[v] = IF v = u THEN Unexpired(u) \cup slot ELSE slots[v]
  BY <1>1 DEF TypeOK, StoreTypeOK, AcquireCandidate
<1>6. Unexpired(u)' = Unexpired(u) \cup lease
  <2>1. age[j] \in {0, 1, 2}
    BY DEF TypeOK, EnvTypeOK, Ages
  <2>2. \A i \in slot : age[i] < 2 <=> i \in lease
    BY <2>1
  <2>3. lease \subseteq slot
    OBVIOUS
  <2>4. QED
    BY <1>1, <1>4, <1>5, <2>2, <2>3 DEF Unexpired
<1>7. \A v \in Users \ {u} : Unexpired(v)' = Unexpired(v)
  BY <1>4, <1>5 DEF Unexpired
<1>8. ConcurrencyLimit[u] > 0 => Cardinality(Unexpired(u)) < ConcurrencyLimit[u]
  <2>1. AcquireVerdict(j) = "ok"
    BY DEF AcquireCandidate
  <2>2. Cardinality(Unexpired(u)) \in Nat /\ ConcurrencyLimit[u] \in Nat
    BY <1>1, UnexpiredFinite, FS_CardinalityType, LimitsAssumption
  <2>3. QED
    BY <2>1, <2>2 DEF AcquireVerdict, AcquireCode
<1>9. [v \in Users |-> Unexpired(v)'] =
         [[v \in Users |-> Unexpired(v)] EXCEPT ![u] = @ \cup lease]
  <2> HIDE DEF lease, u
  <2>1. QED
    BY <1>1, <1>6, <1>7
<1>10. QED
  BY <1>1, <1>2, <1>3, <1>4, <1>8, <1>9, LeaseCounts DEF Lease!Take

\* ZREM is the semaphore getting a lease back.
LEMMA ReleaseGivesBack ==
    ASSUME TypeOK, NEW j \in Jobs, ReleaseSlot(j), UNCHANGED age
    PROVE  Lease!GiveBack(j)
<1>1. UserOf[j] \in Users
  BY JobsAssumption
<1>2. Unexpired(UserOf[j])' = Unexpired(UserOf[j]) \ {j}
  BY <1>1 DEF ReleaseSlot, Unexpired, TypeOK, StoreTypeOK
<1>3. \A v \in Users \ {UserOf[j]} : Unexpired(v)' = Unexpired(v)
  BY <1>1 DEF ReleaseSlot, Unexpired, TypeOK, StoreTypeOK
<1>4. QED
  BY <1>1, <1>2, <1>3 DEF Lease!GiveBack

\* A step that settles a job gives its lease back or leaves it for later.
LEMMA SettlingSettles ==
    ASSUME TypeOK, NEW j \in Jobs, sub[j].model # NoModel,
           NEW o \in {"completed", "failed", "expired"},
           result' = [result EXCEPT ![j] = o],
           ReleaseSlot(j) \/ UNCHANGED slots,
           UNCHANGED <<sub, age>>
    PROVE  Lease!Settle(j, o)
<1>1. CASE ReleaseSlot(j)
  BY <1>1, ReleaseGivesBack DEF Lease!Settle
<1>2. CASE UNCHANGED slots
  <2>1. \A v \in Users : Unexpired(v)' = Unexpired(v)
    BY <1>2 DEF Unexpired
  <2>2. QED
    BY <1>2, <2>1 DEF Lease!Settle
<1>3. QED
  BY <1>1, <1>2

\* The ZREM of a pipeline that has settled its job.
LEMMA SettledReturns ==
    ASSUME TypeOK, NEW j \in Jobs, result[j] # "none", ReleaseSlot(j),
           UNCHANGED <<result, sub, age>>
    PROVE  Lease!Return(j)
BY ReleaseGivesBack DEF Lease!Return

\* Every step of the pipeline is a step of the semaphore or none.
LEMMA NextLease ==
    TypeOK /\ ScannedQueued /\ QueuedLeaveTraces /\ ModelWithUnit /\ SlotsOwned
        /\ ResultFirst /\ [Next]_vars => [Lease!Next]_(Lease!vars)
<1> SUFFICES ASSUME TypeOK, ScannedQueued, QueuedLeaveTraces, ModelWithUnit,
                    SlotsOwned, ResultFirst, [Next]_vars
             PROVE  Lease!Next \/ UNCHANGED Lease!vars
  OBVIOUS
<1>1. \A j \in Jobs : bull[j].st # "none" => sub[j].model # NoModel
  BY DEF ModelWithUnit
<1> USE DEF storeVars
<1>2. ASSUME NEW j \in Jobs, SubmissionStep(j) \/ EnqueueFails(j) \/ WebDies(j)
      PROVE  Lease!Next \/ UNCHANGED Lease!vars
  <2>1. CASE AcquireCandidate(j)
    BY <2>1, AcquireTakes DEF Lease!Next
  <2>2. CASE ~AcquireCandidate(j)
    <3>1. /\ UNCHANGED <<result, age>>
          /\ \A i \in Jobs : sub'[i].model = sub[i].model
      BY <1>2, <2>2, SubmissionWrites, SubmissionMoves DEF SubmissionFrame
    <3>2. UNCHANGED slots \/ \E u \in Users : slots' = [slots EXCEPT ![u] = Unexpired(u)]
      BY <1>2, <2>2, JobsAssumption
         DEF SubmissionStep, StartSubmission, SkipUnloaded, SkipExhausted, RefuseUser,
             DropExpiredSlots, NoModelLeft, CountWaiting, UndoWaiting, AddJob, PutMeta,
             UndoEnqueue, EnqueueFails, WebDies
    <3>3. QED
      BY <3>1, <3>2, NoLease
  <2>3. QED
    BY <2>1, <2>2
<1>3. ASSUME NEW j \in Jobs, PromoteDelayed(j) \/ RecoverStalled(j) \/ LoseLock(j)
      PROVE  UNCHANGED Lease!vars
  BY <1>3, QueueWrites, NoLease DEF QueueFrame
<1>4. ASSUME NEW p \in Procs, NEW j \in Jobs,
             Fetch(p, j) \/ HandlerStep(p, j) \/ HandlerFault(p, j)
      PROVE  Lease!Next \/ UNCHANGED Lease!vars
  <2>1. UNCHANGED <<sub, age>>
    BY <1>4, HandlerWrites DEF WorkerFrame
  <2>2. CASE StoreAnswer(p, j)
    <3>1. sub[j].model # NoModel
      BY <1>1, <2>2 DEF StoreAnswer, At, QueuedLeaveTraces, NoTrace
    <3>2. Lease!Settle(j, "completed")
      BY <2>1, <2>2, <3>1, SettlingSettles DEF StoreAnswer
    <3>3. QED
      BY <3>2 DEF Lease!Next, Lease!Outcomes
  <2>3. CASE ReleaseOwnSlot(p, j)
    <3>1. result[j] # "none" /\ ReleaseSlot(j) /\ UNCHANGED result
      BY <2>3 DEF ReleaseOwnSlot, ResultFirst
    <3>2. QED
      BY <2>1, <3>1, SettledReturns DEF Lease!Next
  <2>4. CASE ~StoreAnswer(p, j) /\ ~ReleaseOwnSlot(p, j)
    <3>1. UNCHANGED <<slots, result>>
      BY <1>4, <2>4
         DEF Fetch, HandlerFault, RedisFails, ReplyLost, FinalizeLoses, HandlerStep,
             ReadMeta, MarkInProgress, TakeTokens, HitMinuteLimit, HitDayLimit, Refused,
             FlagTokens, Requeue, DelayJob, ReachProvider, CallProvider, NoApiName,
             ProviderReached, FinalizeMeta, LeaveBacklog, Return, Throw, OnlyMeta
    <3>2. QED
      BY <2>1, <3>1, NoLease
  <2>5. QED
    BY <2>2, <2>3, <2>4
<1>5. ASSUME NEW p \in Procs, NEW j \in Jobs,
             FailedEventsStep(p, j) \/ FailureLoses(p, j)
      PROVE  Lease!Next \/ UNCHANGED Lease!vars
  <2>1. UNCHANGED <<sub, age>>
    BY <1>5, FailedWrites 
  <2>2. CASE WriteFailure(p, j)
    <3>1. sub[j].model # NoModel
      BY <1>1, <2>2 DEF WriteFailure, QueuedLeaveTraces, NoTrace
    <3>2. Lease!Settle(j, "failed")
      BY <2>1, <2>2, <3>1, SettlingSettles DEF WriteFailure
    <3>3. QED
      BY <3>2 DEF Lease!Next, Lease!Outcomes
  <2>3. CASE ReleaseFailedSlot(p, j)
    <3>1. result[j] # "none" /\ UNCHANGED result /\ (ReleaseSlot(j) \/ UNCHANGED slots)
      BY <2>3 DEF ReleaseFailedSlot, ResultFirst
    <3>2. QED
      BY <2>1, <3>1, SettledReturns, NoLease DEF Lease!Next
  <2>4. CASE ~WriteFailure(p, j) /\ ~ReleaseFailedSlot(p, j)
    <3>1. UNCHANGED <<slots, result>>
      BY <1>5, <2>4 DEF FailedEventsStep, OnFailed, GiveTokensBack, MarkFailure,
                        LeaveAfterFailure, FailureLoses
    <3>2. QED
      BY <2>1, <3>1, NoLease
  <2>5. QED
    BY <2>2, <2>3, <2>4
<1>6. ASSUME NEW p \in Procs, ProcessStep(p)
      PROVE  UNCHANGED Lease!vars
  BY <1>6, ProcessWrites, NoLease DEF envVars
<1>7. CASE ExpiryStep \/ CronDies
  <2>1. UNCHANGED <<sub, age>>
    BY <1>7, CronWrites DEF CronFrame
  <2>2. ASSUME NEW j \in Jobs, ExpireStale(j) PROVE Lease!Next
    <3>1. sub[j].model # NoModel
      BY <1>1, <2>2, JobsAssumption DEF ExpireStale, ScannedQueued
    <3>2. Lease!Settle(j, "expired")
      BY <2>1, <2>2, <3>1, SettlingSettles DEF ExpireStale
    <3>3. QED
      BY <3>2 DEF Lease!Next, Lease!Outcomes
  <2>3. CASE ~\E j \in Jobs : ExpireStale(j)
    <3>1. UNCHANGED <<slots, result>>
      BY <1>7, <2>3
         DEF ExpiryStep, CronDies, BeginExpiry, EndExpiry, ScanQueue, ReadStale,
             RemoveStale, RefundStale
    <3>2. QED
      BY <2>1, <3>1, NoLease
  <2>4. QED
    BY <2>2, <2>3
<1>8. CASE \E u \in Users : CleanupSlots(u)
  <2>1. UNCHANGED <<sub, age, result>>
    BY <1>8 DEF CleanupSlots, CronFrame
  <2>2. QED
    BY <1>8, <2>1, NoLease DEF CleanupSlots
<1>9. ASSUME NEW j \in Jobs, Age(j)
      PROVE  Lease!Next \/ UNCHANGED Lease!vars
  <2>1. UNCHANGED <<slots, sub, result>> /\ age[j] < 2 /\ age' = [age EXCEPT ![j] = @ + 1]
    BY <1>9 DEF Age, EnvFrame
  <2>2. /\ age[j] \in {0, 1} /\ age'[j] = age[j] + 1
        /\ \A i \in Jobs \ {j} : age'[i] = age[i]
    BY <2>1 DEF TypeOK, EnvTypeOK, Ages
  <2>3. CASE age[j] = 0
    <3>1. {i \in Jobs : age'[i] = 2} = {i \in Jobs : age[i] = 2}
      BY <2>2, <2>3
    <3>2. \A u \in Users : Unexpired(u)' = Unexpired(u)
      BY <2>1, <2>2, <2>3 DEF Unexpired, TypeOK, StoreTypeOK
    <3>3. QED
      BY <2>1, <3>1, <3>2 DEF Lease!vars
  <2>4. CASE age[j] = 1
    <3>1. {i \in Jobs : age'[i] = 2} = {i \in Jobs : age[i] = 2} \cup {j}
      BY <2>2, <2>4
    <3>2. UserOf[j] \in Users
      BY JobsAssumption
    <3>3. \A u \in Users : slots[u] \subseteq Jobs
      BY DEF TypeOK, StoreTypeOK
    <3>4. \A u \in Users : Unexpired(u)' = Unexpired(u) \ {j}
      BY <2>1, <2>2, <2>4, <3>3 DEF Unexpired
    <3>5. Lease!Lapse(j)
      <4>1. \A u \in Users \ {UserOf[j]} : j \notin Unexpired(u)
        BY DEF SlotsOwned, Unexpired
      <4>2. \A u \in Users : Unexpired(u)' = IF u = UserOf[j] THEN Unexpired(u) \ {j}
                                                            ELSE Unexpired(u)
        BY <3>4, <4>1
      <4>3. Lease!GiveBack(j)
        BY <3>2, <4>2 DEF Lease!GiveBack
      <4>4. QED
        BY <2>1, <3>1, <4>3 DEF Lease!Lapse
    <3>6. QED
      BY <3>5 DEF Lease!Next
  <2>5. QED
    BY <2>2, <2>3, <2>4
<1>10. CASE Midnight \/ \E m \in Models : MinuteElapses(m)
  <2>1. UNCHANGED <<slots, sub, result, age>>
    BY <1>10 DEF Midnight, MinuteElapses, envVars
  <2>2. QED
    BY <2>1, NoLease
<1>11. CASE Rest \/ UNCHANGED vars
  <2>1. UNCHANGED <<slots, sub, result, age>>
    BY <1>11 DEF Rest, vars, envVars
  <2>2. QED
    BY <2>1, NoLease
<1>12. QED
  BY <1>2, <1>3, <1>4, <1>5, <1>6, <1>7, <1>8, <1>9, <1>10, <1>11 DEF Next, ProcessStep

\* The job pipeline implements the lease semaphore, for every number of users, jobs and
\* worker processes and every fault of the environment but failing Redis commands: a slot
\* is taken below max_concurrency and once, and given back when the job has its outcome,
\* with it or by a later command, or by its TTL, in no other way.
THEOREM SlotsAreLeases ==
    ASSUME "redis" \notin Environment
    PROVE  Spec => ImplementsSlotLease
<1>1. Init => Lease!Init /\ QueuedLeaveTraces /\ ModelWithUnit /\ SlotsOwned
  <2> SUFFICES ASSUME Init PROVE Lease!Init /\ QueuedLeaveTraces /\ ModelWithUnit /\ SlotsOwned
    OBVIOUS
  <2> USE DEF Init, StoreInit, QueueInit, SubmissionInit, EnvInit
  <2>1. Lease!Init
    BY DEF Lease!Init, Unexpired
  <2>2. QueuedLeaveTraces
    BY DEF WorkerInit, FailedEventsInit, QueuedLeaveTraces, NoTrace, SlotFirst
  <2>3. ModelWithUnit
    BY DEF ModelWithUnit
  <2>4. SlotsOwned
    BY DEF SlotsOwned
  <2>5. QED
    BY <2>1, <2>2, <2>3, <2>4
<1>2. Init => WithinBudget /\ ScannedQueued
  BY InitBudget
<1>3. Spec => [][Lease!Next]_(Lease!vars)
  BY <1>1, <1>2, InitType, NextType, InitResultFirst, NextResultFirst, NextScanned,
     NextBudget, NextTraces, NextModelWithUnit, NextSlotsOwned, NextLease, PTL DEF Spec
<1>4. QED
  BY <1>1, <1>3, PTL DEF Spec, ImplementsSlotLease, Lease!Spec
=============================================================================

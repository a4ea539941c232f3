-------------------------- MODULE JobSystemProofs -------------------------
(***************************************************************************)
(* Theorems about JobSystem for every value of its constants: its type     *)
(* invariant, and that a user's live jobs stay within max_concurrency.     *)
(***************************************************************************)
EXTENDS JobSystem, FiniteSetTheorems, TLAPS

-----------------------------------------------------------------------------
(* What single updates of the shared state return.                         *)

\* INCR, DECR and decrAndClampToZero keep the backlog counters integers, whatever
\* the model.
LEMMA WaitingType ==
    ASSUME NEW w \in [Models -> Int], NEW m
    PROVE  /\ [w EXCEPT ![m] = @ + 1] \in [Models -> Int]
           /\ [w EXCEPT ![m] = @ - 1] \in [Models -> Int]
           /\ [w EXCEPT ![m] = DecrAndClamp(@)] \in [Models -> Int]
<1>1. ASSUME NEW v, m \in Models => v \in Int
      PROVE  [w EXCEPT ![m] = v] \in [Models -> Int]
  BY <1>1
<1>2. m \in Models => w[m] + 1 \in Int /\ w[m] - 1 \in Int /\ DecrAndClamp(w[m]) \in Int
  BY DEF DecrAndClamp
<1>3. QED BY <1>1, <1>2

\* Taking a token and giving one back keep the model counters natural numbers.
LEMMA CounterType ==
    ASSUME NEW c \in [Models -> Nat], NEW m
    PROVE  /\ [c EXCEPT ![m] = @ + 1] \in [Models -> Nat]
           /\ [c EXCEPT ![m] = DecrAndClamp(@)] \in [Models -> Nat]
<1>1. ASSUME NEW v, m \in Models => v \in Nat
      PROVE  [c EXCEPT ![m] = v] \in [Models -> Nat]
  BY <1>1
<1>2. m \in Models => c[m] + 1 \in Nat /\ DecrAndClamp(c[m]) \in Nat
  BY DEF DecrAndClamp
<1>3. QED BY <1>1, <1>2

\* ZREM leaves a set of jobs to every user.
LEMMA ReleaseType ==
    ASSUME StoreTypeOK, NEW j \in Jobs, ReleaseSlot(j)
    PROVE  slots' \in [Users -> SUBSET Jobs]
BY JobsAssumption DEF StoreTypeOK, ReleaseSlot

\* Publishing a failed event leaves a set of jobs to every process.
LEMMA EventsType ==
    ASSUME QueueTypeOK, NEW j \in Jobs, PublishFailed(j)
    PROVE  events' \in [Procs -> SUBSET Jobs]
BY DEF QueueTypeOK, PublishFailed

\* The record updates of BullQueue stay in BullRecord: a job changes state and
\* hands.
LEMMA BullUpdate ==
    ASSUME NEW b \in [Jobs -> BullRecord], NEW j \in Jobs, NEW s \in BullStates,
           NEW l \in Procs \cup {NoProc}
    PROVE  [b EXCEPT ![j] = [@ EXCEPT !.st = s, !.lock = l]] \in [Jobs -> BullRecord]
BY DEF BullRecord

\* The same with an attempt charged.
LEMMA BullAttempt ==
    ASSUME NEW b \in [Jobs -> BullRecord], NEW j \in Jobs, NEW s \in BullStates,
           NEW l \in Procs \cup {NoProc}, NEW n \in Nat
    PROVE  [b EXCEPT ![j] = [@ EXCEPT !.st = s, !.lock = l, !.att = n]]
              \in [Jobs -> BullRecord]
BY DEF BullRecord

\* The same with a stall charged.
LEMMA BullStall ==
    ASSUME NEW b \in [Jobs -> BullRecord], NEW j \in Jobs, NEW s \in BullStates,
           NEW n \in Nat
    PROVE  [b EXCEPT ![j] = [@ EXCEPT !.st = s, !.stalls = n]] \in [Jobs -> BullRecord]
BY DEF BullRecord

-----------------------------------------------------------------------------
(* Type correctness, component by component.                              *)

\* A part of the state that a step leaves alone stays well typed.
LEMMA Kept ==
    ASSUME TypeOK
    PROVE  /\ UNCHANGED storeVars => StoreTypeOK'
           /\ UNCHANGED queueVars => QueueTypeOK'
           /\ UNCHANGED sub => SubmissionTypeOK'
           /\ UNCHANGED <<up, workerVars>> => WorkerTypeOK'
           /\ UNCHANGED handlerVars => FailedEventsTypeOK'
           /\ UNCHANGED cron => CronTypeOK'
           /\ UNCHANGED envVars => EnvTypeOK'
           /\ UNCHANGED historyVars => HistoryTypeOK'
<1>1. UNCHANGED storeVars => StoreTypeOK'
  BY DEF TypeOK, StoreTypeOK, storeVars
<1>2. UNCHANGED queueVars => QueueTypeOK'
  BY DEF TypeOK, QueueTypeOK, queueVars
<1>3. UNCHANGED sub => SubmissionTypeOK'
  BY DEF TypeOK, SubmissionTypeOK
<1>4. UNCHANGED <<up, workerVars>> => WorkerTypeOK'
  BY DEF TypeOK, WorkerTypeOK, workerVars
<1>5. UNCHANGED handlerVars => FailedEventsTypeOK'
  BY DEF TypeOK, FailedEventsTypeOK, handlerVars
<1>6. UNCHANGED cron => CronTypeOK'
  BY DEF TypeOK, CronTypeOK
<1>7. UNCHANGED envVars => EnvTypeOK'
  BY DEF TypeOK, EnvTypeOK, envVars
<1>8. UNCHANGED historyVars => HistoryTypeOK'
  BY DEF TypeOK, HistoryTypeOK, historyVars
<1>9. QED
  BY <1>1, <1>2, <1>3, <1>4, <1>5, <1>6, <1>7, <1>8

\* Every step of a submission keeps the types.
LEMMA SubmissionType ==
    ASSUME TypeOK, NEW j \in Jobs,
           \/ StartSubmission(j)
           \/ SkipUnloaded(j)
           \/ AcquireCandidate(j)
           \/ SkipExhausted(j)
           \/ RefuseUser(j)
           \/ NoModelLeft(j)
           \/ CountWaiting(j)
           \/ UndoWaiting(j)
           \/ AddJob(j)
           \/ PutMeta(j)
           \/ EnqueueFails(j)
           \/ UndoEnqueue(j)
           \/ WebDies(j)
    PROVE  TypeOK'
<1>1. CASE StartSubmission(j)
  <2>1. /\ StoreTypeOK' /\ QueueTypeOK' /\ WorkerTypeOK' /\ FailedEventsTypeOK'
        /\ CronTypeOK' /\ EnvTypeOK' /\ HistoryTypeOK'
    BY <1>1, Kept DEF StartSubmission, SubmissionFrame, storeVars, queueVars,
       workerVars, handlerVars, envVars, historyVars
  <2>2. SubmissionTypeOK'
    BY <1>1 DEF TypeOK, SubmissionTypeOK, StartSubmission, EnvTypeOK, SubmissionPcs
  <2>3. QED
    BY <2>1, <2>2 DEF TypeOK
<1>2. CASE SkipUnloaded(j)
  <2>1. /\ StoreTypeOK' /\ QueueTypeOK' /\ WorkerTypeOK' /\ FailedEventsTypeOK'
        /\ CronTypeOK' /\ EnvTypeOK' /\ HistoryTypeOK'
    BY <1>2, Kept DEF SkipUnloaded, SubmissionFrame, storeVars, queueVars,
       workerVars, handlerVars, envVars, historyVars
  <2>2. SubmissionTypeOK'
    BY <1>2 DEF TypeOK, SubmissionTypeOK, SkipUnloaded, SubmissionPcs
  <2>3. QED
    BY <2>1, <2>2 DEF TypeOK
<1>3. CASE AcquireCandidate(j)
  <2>1. /\ QueueTypeOK' /\ WorkerTypeOK' /\ FailedEventsTypeOK' /\ CronTypeOK'
        /\ EnvTypeOK' /\ HistoryTypeOK'
    BY <1>3, Kept DEF AcquireCandidate, SubmissionFrame, queueVars, workerVars,
       handlerVars, envVars, historyVars
  <2>2. StoreTypeOK'
    <3> DEFINE u == UserOf[j]
               t == TypeOf[j]
               d == sub[j].day
               unit == IF UserDayLimit[u][t] > 0 THEN 1 ELSE 0
    <3>1. slots' \in [Users -> SUBSET Jobs]
      BY <1>3, JobsAssumption DEF TypeOK, StoreTypeOK, AcquireCandidate, Unexpired
    <3>2. userRpd' \in [Users -> [Types -> [Days -> Nat]]]
      <4>1. u \in Users /\ t \in Types /\ d \in Days /\ unit \in Nat
        BY JobsAssumption DEF TypeOK, SubmissionTypeOK
      <4>2. userRpd \in [Users -> [Types -> [Days -> Nat]]]
        BY DEF TypeOK, StoreTypeOK
      <4>3. userRpd' = [userRpd EXCEPT ![u][t][d] = @ + unit]
        BY <1>3 DEF AcquireCandidate
      <4>4. QED
        BY <4>1, <4>2, <4>3
    <3>3. QED
      BY <1>3, <3>1, <3>2 DEF TypeOK, StoreTypeOK, AcquireCandidate, SubmissionFrame
  <2>3. SubmissionTypeOK'
    <3>1. Candidate(j) \in Models
      BY <1>3, JobsAssumption, ModelsAssumption
         DEF TypeOK, SubmissionTypeOK, AcquireCandidate, AtLoaded, AtCandidate, Candidate
    <3>2. QED
      BY <1>3, <3>1 DEF TypeOK, SubmissionTypeOK, SubmissionPcs, AcquireCandidate
  <2>4. QED
    BY <2>1, <2>2, <2>3 DEF TypeOK
<1>4. CASE SkipExhausted(j)
  <2>1. /\ QueueTypeOK' /\ WorkerTypeOK' /\ FailedEventsTypeOK' /\ CronTypeOK'
        /\ EnvTypeOK' /\ HistoryTypeOK'
    BY <1>4, Kept DEF SkipExhausted, SubmissionFrame, queueVars, workerVars,
       handlerVars, envVars, historyVars
  <2>2. StoreTypeOK'
    BY <1>4, JobsAssumption DEF TypeOK, StoreTypeOK, SkipExhausted,
       DropExpiredSlots, Unexpired, SubmissionFrame
  <2>3. SubmissionTypeOK'
    BY <1>4 DEF TypeOK, SubmissionTypeOK, SkipExhausted, SubmissionPcs
  <2>4. QED
    BY <2>1, <2>2, <2>3 DEF TypeOK
<1>5. CASE RefuseUser(j)
  <2>1. /\ QueueTypeOK' /\ WorkerTypeOK' /\ FailedEventsTypeOK' /\ CronTypeOK'
        /\ EnvTypeOK' /\ HistoryTypeOK'
    BY <1>5, Kept DEF RefuseUser, SubmissionFrame, queueVars, workerVars,
       handlerVars, envVars, historyVars
  <2>2. StoreTypeOK'
    BY <1>5, JobsAssumption DEF TypeOK, StoreTypeOK, RefuseUser, DropExpiredSlots,
       Unexpired, SubmissionFrame
  <2>3. SubmissionTypeOK'
    BY <1>5 DEF TypeOK, SubmissionTypeOK, RefuseUser, SubmissionPcs
  <2>4. QED
    BY <2>1, <2>2, <2>3 DEF TypeOK
<1>6. CASE NoModelLeft(j)
  <2>1. /\ StoreTypeOK' /\ QueueTypeOK' /\ WorkerTypeOK' /\ FailedEventsTypeOK'
        /\ CronTypeOK' /\ EnvTypeOK' /\ HistoryTypeOK'
    BY <1>6, Kept DEF NoModelLeft, SubmissionFrame, storeVars, queueVars,
       workerVars, handlerVars, envVars, historyVars
  <2>2. SubmissionTypeOK'
    BY <1>6 DEF TypeOK, SubmissionTypeOK, NoModelLeft, SubmissionPcs
  <2>3. QED
    BY <2>1, <2>2 DEF TypeOK
<1>7. CASE CountWaiting(j)
  <2>1. /\ QueueTypeOK' /\ WorkerTypeOK' /\ FailedEventsTypeOK' /\ CronTypeOK'
        /\ EnvTypeOK' /\ HistoryTypeOK'
    BY <1>7, Kept DEF CountWaiting, SubmissionFrame, queueVars, workerVars,
       handlerVars, envVars, historyVars
  <2>2. StoreTypeOK'
    <3>1. waiting' \in [Models -> Int]
      BY <1>7, WaitingType DEF TypeOK, StoreTypeOK, CountWaiting
    <3>2. QED
      BY <1>7, <3>1 DEF TypeOK, StoreTypeOK, CountWaiting, SubmissionFrame
  <2>3. SubmissionTypeOK'
    BY <1>7 DEF TypeOK, SubmissionTypeOK, CountWaiting, SubmissionPcs
  <2>4. QED
    BY <2>1, <2>2, <2>3 DEF TypeOK
<1>8. CASE UndoWaiting(j)
  <2>1. /\ QueueTypeOK' /\ WorkerTypeOK' /\ FailedEventsTypeOK' /\ CronTypeOK'
        /\ EnvTypeOK' /\ HistoryTypeOK'
    BY <1>8, Kept DEF UndoWaiting, SubmissionFrame, queueVars, workerVars,
       handlerVars, envVars, historyVars
  <2>2. StoreTypeOK'
    <3>1. waiting' \in [Models -> Int]
      BY <1>8, WaitingType DEF TypeOK, StoreTypeOK, UndoWaiting
    <3>2. QED
      BY <1>8, <3>1 DEF TypeOK, StoreTypeOK, UndoWaiting, SubmissionFrame
  <2>3. SubmissionTypeOK'
    BY <1>8 DEF TypeOK, SubmissionTypeOK, UndoWaiting, SubmissionPcs
  <2>4. QED
    BY <2>1, <2>2, <2>3 DEF TypeOK
<1>9. CASE AddJob(j)
  <2>1. /\ StoreTypeOK' /\ WorkerTypeOK' /\ FailedEventsTypeOK' /\ CronTypeOK'
        /\ EnvTypeOK' /\ HistoryTypeOK'
    BY <1>9, Kept DEF AddJob, SubmissionFrame, storeVars, workerVars, handlerVars,
       envVars, historyVars
  <2>2. QueueTypeOK'
    BY <1>9 DEF TypeOK, QueueTypeOK, AddJob, Enqueued, BullRecord, BullStates,
       SubmissionFrame
  <2>3. SubmissionTypeOK'
    <3>1. Joined(j, sub[j].put) \in SubmissionPcs
      BY DEF TypeOK, SubmissionTypeOK, Joined, SubmissionPcs
    <3>2. QED
      BY <1>9, <3>1 DEF TypeOK, SubmissionTypeOK, AddJob
  <2>4. QED
    BY <2>1, <2>2, <2>3 DEF TypeOK
<1>10. CASE PutMeta(j)
  <2>1. /\ QueueTypeOK' /\ WorkerTypeOK' /\ FailedEventsTypeOK' /\ CronTypeOK'
        /\ EnvTypeOK' /\ HistoryTypeOK'
    BY <1>10, Kept DEF PutMeta, SubmissionFrame, queueVars, workerVars, handlerVars,
       envVars, historyVars
  <2>2. StoreTypeOK'
    BY <1>10 DEF TypeOK, StoreTypeOK, PutMeta, MetaRecord, SubmissionFrame
  <2>3. SubmissionTypeOK'
    <3>1. Joined(j, sub[j].add) \in SubmissionPcs
      BY DEF TypeOK, SubmissionTypeOK, Joined, SubmissionPcs
    <3>2. QED
      BY <1>10, <3>1 DEF TypeOK, SubmissionTypeOK, PutMeta
  <2>4. QED
    BY <2>1, <2>2, <2>3 DEF TypeOK
<1>11. CASE EnqueueFails(j)
  <2>1. /\ StoreTypeOK' /\ QueueTypeOK' /\ WorkerTypeOK' /\ FailedEventsTypeOK'
        /\ CronTypeOK' /\ HistoryTypeOK'
    BY <1>11, Kept DEF EnqueueFails, SubmissionFrame, storeVars, queueVars,
       workerVars, handlerVars, historyVars
  <2>2. SubmissionTypeOK'
    <3>1. CASE sub' = [sub EXCEPT ![j] = [@ EXCEPT !.add = "failed", !.pc = "undo"]]
      BY <3>1 DEF TypeOK, SubmissionTypeOK, SubmissionPcs
    <3>2. CASE sub' = [sub EXCEPT ![j] = [@ EXCEPT !.put = "failed", !.pc = "undo"]]
      BY <3>2 DEF TypeOK, SubmissionTypeOK, SubmissionPcs
    <3>3. QED
      BY <1>11, <3>1, <3>2 DEF EnqueueFails
  <2>3. EnvTypeOK'
    BY <1>11 DEF TypeOK, EnvTypeOK, EnqueueFails, Fault, SubmissionFrame
  <2>4. QED
    BY <2>1, <2>2, <2>3 DEF TypeOK
<1>12. CASE UndoEnqueue(j)
  <2>1. /\ QueueTypeOK' /\ WorkerTypeOK' /\ FailedEventsTypeOK' /\ CronTypeOK'
        /\ EnvTypeOK' /\ HistoryTypeOK'
    BY <1>12, Kept DEF UndoEnqueue, SubmissionFrame, queueVars, workerVars,
       handlerVars, envVars, historyVars
  <2>2. StoreTypeOK'
    <3>1. waiting' \in [Models -> Int]
      BY <1>12, WaitingType DEF TypeOK, StoreTypeOK, UndoEnqueue
    <3>2. QED
      BY <1>12, <3>1 DEF TypeOK, StoreTypeOK, UndoEnqueue, SubmissionFrame
  <2>3. SubmissionTypeOK'
    BY <1>12 DEF TypeOK, SubmissionTypeOK, UndoEnqueue, SubmissionPcs
  <2>4. QED
    BY <2>1, <2>2, <2>3 DEF TypeOK
<1>13. CASE WebDies(j)
  <2>1. /\ StoreTypeOK' /\ QueueTypeOK' /\ WorkerTypeOK' /\ FailedEventsTypeOK'
        /\ CronTypeOK' /\ HistoryTypeOK'
    BY <1>13, Kept DEF WebDies, SubmissionFrame, storeVars, queueVars, workerVars,
       handlerVars, historyVars
  <2>2. SubmissionTypeOK'
    BY <1>13 DEF TypeOK, SubmissionTypeOK, WebDies, SubmissionPcs
  <2>3. EnvTypeOK'
    BY <1>13 DEF TypeOK, EnvTypeOK, WebDies, Fault, SubmissionFrame
  <2>4. QED
    BY <2>1, <2>2, <2>3 DEF TypeOK
<1>14. QED
  BY <1>1, <1>2, <1>3, <1>4, <1>5, <1>6, <1>7, <1>8, <1>9, <1>10, <1>11, <1>12,
     <1>13

\* Every step the queue takes on its own keeps the types.
LEMMA QueueType ==
    ASSUME TypeOK, NEW j \in Jobs,
           \/ PromoteDelayed(j)
           \/ RecoverStalled(j)
           \/ LoseLock(j)
    PROVE  TypeOK'
<1>1. CASE PromoteDelayed(j)
  <2>1. /\ StoreTypeOK' /\ SubmissionTypeOK' /\ WorkerTypeOK' /\ FailedEventsTypeOK'
        /\ CronTypeOK' /\ EnvTypeOK' /\ HistoryTypeOK'
    BY <1>1, Kept DEF PromoteDelayed, QueueFrame, storeVars, workerVars,
       handlerVars, envVars, historyVars
  <2>2. QueueTypeOK'
    BY <1>1 DEF TypeOK, QueueTypeOK, PromoteDelayed, BullRecord, BullStates
  <2>3. QED
    BY <2>1, <2>2 DEF TypeOK
<1>2. CASE RecoverStalled(j)
  <2>1. /\ StoreTypeOK' /\ SubmissionTypeOK' /\ WorkerTypeOK' /\ FailedEventsTypeOK'
        /\ CronTypeOK' /\ EnvTypeOK' /\ HistoryTypeOK'
    BY <1>2, Kept DEF RecoverStalled, QueueFrame, storeVars, workerVars,
       handlerVars, envVars, historyVars
  <2>2. QueueTypeOK'
    <3> DEFINE next == IF bull[j].stalls >= MaxStalled THEN "failed" ELSE "waiting"
    <3>1. events' \in [Procs -> SUBSET Jobs]
      BY <1>2, EventsType DEF TypeOK, QueueTypeOK, RecoverStalled
    <3>2. bull' \in [Jobs -> BullRecord]
      <4>1. bull \in [Jobs -> BullRecord] /\ bull[j].stalls + 1 \in Nat
        BY DEF TypeOK, QueueTypeOK, BullRecord
      <4>2. next \in BullStates
        BY DEF BullStates
      <4>3. bull' = [bull EXCEPT ![j] = [@ EXCEPT !.st = next,
                                                  !.stalls = bull[j].stalls + 1]]
        BY <1>2 DEF RecoverStalled
      <4> HIDE DEF next
      <4>4. QED
        BY <4>1, <4>2, <4>3, BullStall
    <3>3. QED
      BY <3>1, <3>2 DEF QueueTypeOK
  <2>3. QED
    BY <2>1, <2>2 DEF TypeOK
<1>3. CASE LoseLock(j)
  <2>1. /\ StoreTypeOK' /\ SubmissionTypeOK' /\ WorkerTypeOK' /\ FailedEventsTypeOK'
        /\ CronTypeOK' /\ HistoryTypeOK'
    BY <1>3, Kept DEF LoseLock, QueueFrame, storeVars, workerVars, handlerVars,
       historyVars
  <2>2. QueueTypeOK'
    BY <1>3 DEF TypeOK, QueueTypeOK, LoseLock, BullRecord, BullStates
  <2>3. EnvTypeOK'
    BY <1>3 DEF TypeOK, EnvTypeOK, LoseLock, Fault, QueueFrame
  <2>4. QED
    BY <2>1, <2>2, <2>3 DEF TypeOK
<1>4. QED
  BY <1>1, <1>2, <1>3

\* Every step of a job handler keeps the types.
LEMMA WorkerType ==
    ASSUME TypeOK, NEW p \in Procs, NEW j \in Jobs,
           \/ Fetch(p, j)
           \/ ReadMeta(p, j)
           \/ MarkInProgress(p, j)
           \/ HitMinuteLimit(p, j)
           \/ HitDayLimit(p, j)
           \/ TakeTokens(p, j)
           \/ FlagTokens(p, j)
           \/ Requeue(p, j)
           \/ DelayJob(p, j)
           \/ ReachProvider(p, j)
           \/ CallProvider(p, j)
           \/ NoApiName(p, j)
           \/ ProviderReached(p, j)
           \/ FinalizeMeta(p, j)
           \/ StoreAnswer(p, j)
           \/ ReleaseOwnSlot(p, j)
           \/ LeaveBacklog(p, j)
           \/ Return(p, j)
           \/ Throw(p, j)
           \/ RedisFails(p, j)
           \/ ReplyLost(p, j)
           \/ FinalizeLoses(p, j)
    PROVE  TypeOK'
<1>1. CASE Fetch(p, j)
  <2>1. /\ StoreTypeOK' /\ SubmissionTypeOK' /\ FailedEventsTypeOK' /\ CronTypeOK'
        /\ EnvTypeOK' /\ HistoryTypeOK'
    BY <1>1, Kept DEF Fetch, WorkerFrame, storeVars, handlerVars, envVars,
       historyVars
  <2>2. QueueTypeOK'
    BY <1>1 DEF TypeOK, QueueTypeOK, Fetch, Locked, BullRecord, BullStates
  <2>3. WorkerTypeOK'
    BY <1>1 DEF TypeOK, WorkerTypeOK, Fetch, WorkerPcs, Goto, WorkerFrame
  <2>4. QED
    BY <2>1, <2>2, <2>3 DEF TypeOK
<1>2. CASE ReadMeta(p, j)
  <2>1. /\ StoreTypeOK' /\ QueueTypeOK' /\ SubmissionTypeOK' /\ FailedEventsTypeOK'
        /\ CronTypeOK' /\ EnvTypeOK' /\ HistoryTypeOK'
    BY <1>2, Kept DEF ReadMeta, WorkerFrame, storeVars, queueVars, handlerVars,
       envVars, historyVars
  <2>2. WorkerTypeOK'
    BY <1>2 DEF TypeOK, WorkerTypeOK, ReadMeta, WorkerPcs, Goto, WorkerFrame,
       StoreTypeOK, MetaRecord
  <2>3. QED
    BY <2>1, <2>2 DEF TypeOK
<1>3. CASE MarkInProgress(p, j)
  <2>1. /\ QueueTypeOK' /\ SubmissionTypeOK' /\ FailedEventsTypeOK' /\ CronTypeOK'
        /\ EnvTypeOK' /\ HistoryTypeOK'
    BY <1>3, Kept DEF MarkInProgress, WorkerFrame, OnlyMeta, queueVars, handlerVars,
       envVars, historyVars
  <2>2. StoreTypeOK'
    BY <1>3 DEF TypeOK, StoreTypeOK, MarkInProgress, MetaRecord, OnlyMeta,
       WorkerFrame
  <2>3. WorkerTypeOK'
    BY <1>3 DEF TypeOK, WorkerTypeOK, MarkInProgress, WorkerPcs, Goto, WorkerFrame
  <2>4. QED
    BY <2>1, <2>2, <2>3 DEF TypeOK
<1>4. CASE HitMinuteLimit(p, j)
  <2>1. /\ StoreTypeOK' /\ QueueTypeOK' /\ SubmissionTypeOK' /\ FailedEventsTypeOK'
        /\ CronTypeOK' /\ EnvTypeOK' /\ HistoryTypeOK'
    BY <1>4, Kept DEF HitMinuteLimit, WorkerFrame, Refused, storeVars, queueVars,
       handlerVars, envVars, historyVars
  <2>2. WorkerTypeOK'
    BY <1>4 DEF TypeOK, WorkerTypeOK, HitMinuteLimit, Refused, WorkerPcs, Goto,
       WorkerFrame
  <2>3. QED
    BY <2>1, <2>2 DEF TypeOK
<1>5. CASE HitDayLimit(p, j)
  <2>1. /\ StoreTypeOK' /\ QueueTypeOK' /\ SubmissionTypeOK' /\ FailedEventsTypeOK'
        /\ CronTypeOK' /\ EnvTypeOK' /\ HistoryTypeOK'
    BY <1>5, Kept DEF HitDayLimit, WorkerFrame, Refused, storeVars, queueVars,
       handlerVars, envVars, historyVars
  <2>2. WorkerTypeOK'
    BY <1>5 DEF TypeOK, WorkerTypeOK, HitDayLimit, Refused, WorkerPcs, Goto,
       WorkerFrame
  <2>3. QED
    BY <2>1, <2>2 DEF TypeOK
<1>6. CASE TakeTokens(p, j)
  <2>1. /\ QueueTypeOK' /\ SubmissionTypeOK' /\ FailedEventsTypeOK' /\ CronTypeOK'
        /\ EnvTypeOK'
    BY <1>6, Kept DEF TakeTokens, WorkerFrame, queueVars, handlerVars, envVars
  <2>2. StoreTypeOK'
    BY <1>6, CounterType DEF TypeOK, StoreTypeOK, TakeTokens, WorkerFrame
  <2>3. WorkerTypeOK'
    BY <1>6 DEF TypeOK, WorkerTypeOK, TakeTokens, WorkerPcs, Goto, WorkerFrame
  <2>4. HistoryTypeOK'
    BY <1>6 DEF TypeOK, HistoryTypeOK, TakeTokens, WorkerFrame
  <2>5. QED
    BY <2>1, <2>2, <2>3, <2>4 DEF TypeOK
<1>7. CASE FlagTokens(p, j)
  <2>1. /\ QueueTypeOK' /\ SubmissionTypeOK' /\ FailedEventsTypeOK' /\ CronTypeOK'
        /\ EnvTypeOK' /\ HistoryTypeOK'
    BY <1>7, Kept DEF FlagTokens, WorkerFrame, OnlyMeta, queueVars, handlerVars,
       envVars, historyVars
  <2>2. StoreTypeOK'
    BY <1>7 DEF TypeOK, StoreTypeOK, FlagTokens, MetaRecord, OnlyMeta, WorkerFrame
  <2>3. WorkerTypeOK'
    BY <1>7 DEF TypeOK, WorkerTypeOK, FlagTokens, WorkerPcs, Goto, WorkerFrame
  <2>4. QED
    BY <2>1, <2>2, <2>3 DEF TypeOK
<1>8. CASE Requeue(p, j)
  <2>1. /\ QueueTypeOK' /\ SubmissionTypeOK' /\ FailedEventsTypeOK' /\ CronTypeOK'
        /\ EnvTypeOK' /\ HistoryTypeOK'
    BY <1>8, Kept DEF Requeue, WorkerFrame, OnlyMeta, queueVars, handlerVars,
       envVars, historyVars
  <2>2. StoreTypeOK'
    BY <1>8 DEF TypeOK, StoreTypeOK, Requeue, MetaRecord, OnlyMeta, WorkerFrame
  <2>3. WorkerTypeOK'
    BY <1>8 DEF TypeOK, WorkerTypeOK, Requeue, WorkerPcs, Goto, WorkerFrame
  <2>4. QED
    BY <2>1, <2>2, <2>3 DEF TypeOK
<1>9. CASE DelayJob(p, j)
  <2>1. /\ StoreTypeOK' /\ SubmissionTypeOK' /\ FailedEventsTypeOK' /\ CronTypeOK'
        /\ EnvTypeOK' /\ HistoryTypeOK'
    BY <1>9, Kept DEF DelayJob, WorkerFrame, storeVars, handlerVars, envVars,
       historyVars
  <2>2. QueueTypeOK'
    <3>1. CASE Holds(p, j)
      <4>1. bull' = [bull EXCEPT ![j] = [@ EXCEPT !.st = "delayed", !.lock = NoProc]]
        BY <1>9, <3>1 DEF DelayJob, Delayed
      <4>2. bull' \in [Jobs -> BullRecord]
        BY <4>1, BullUpdate DEF TypeOK, QueueTypeOK, BullStates
      <4>3. QED
        BY <1>9, <4>2 DEF TypeOK, QueueTypeOK, DelayJob
    <3>2. CASE ~Holds(p, j)
      BY <1>9, <3>2 DEF TypeOK, QueueTypeOK, DelayJob
    <3>3. QED
      BY <3>1, <3>2
  <2>3. WorkerTypeOK'
    <3>1. PICK pc \in WorkerPcs : Goto(p, j, pc)
      BY <1>9 DEF DelayJob, WorkerPcs
    <3>2. QED
      BY <1>9, <3>1 DEF TypeOK, WorkerTypeOK, DelayJob, Goto, WorkerFrame
  <2>4. QED
    BY <2>1, <2>2, <2>3 DEF TypeOK
<1>10. CASE ReachProvider(p, j)
  <2>1. /\ QueueTypeOK' /\ SubmissionTypeOK' /\ FailedEventsTypeOK' /\ CronTypeOK'
        /\ EnvTypeOK' /\ HistoryTypeOK'
    BY <1>10, Kept DEF ReachProvider, WorkerFrame, OnlyMeta, queueVars, handlerVars,
       envVars, historyVars
  <2>2. StoreTypeOK'
    BY <1>10 DEF TypeOK, StoreTypeOK, ReachProvider, MetaRecord, OnlyMeta,
       WorkerFrame
  <2>3. WorkerTypeOK'
    BY <1>10 DEF TypeOK, WorkerTypeOK, ReachProvider, WorkerPcs, Goto, WorkerFrame
  <2>4. QED
    BY <2>1, <2>2, <2>3 DEF TypeOK
<1>11. CASE CallProvider(p, j)
  <2>1. /\ StoreTypeOK' /\ QueueTypeOK' /\ SubmissionTypeOK' /\ FailedEventsTypeOK'
        /\ CronTypeOK' /\ EnvTypeOK'
    BY <1>11, Kept DEF CallProvider, WorkerFrame, storeVars, queueVars, handlerVars,
       envVars
  <2>2. WorkerTypeOK'
    BY <1>11 DEF TypeOK, WorkerTypeOK, CallProvider, WorkerPcs, Goto, WorkerFrame
  <2>3. HistoryTypeOK'
    BY <1>11 DEF TypeOK, HistoryTypeOK, CallProvider, WorkerFrame
  <2>4. QED
    BY <2>1, <2>2, <2>3 DEF TypeOK
<1>12. CASE NoApiName(p, j)
  <2>1. /\ StoreTypeOK' /\ QueueTypeOK' /\ SubmissionTypeOK' /\ FailedEventsTypeOK'
        /\ CronTypeOK' /\ EnvTypeOK' /\ HistoryTypeOK'
    BY <1>12, Kept DEF NoApiName, WorkerFrame, storeVars, queueVars, handlerVars,
       envVars, historyVars
  <2>2. WorkerTypeOK'
    BY <1>12 DEF TypeOK, WorkerTypeOK, NoApiName, WorkerPcs, Goto, WorkerFrame
  <2>3. QED
    BY <2>1, <2>2 DEF TypeOK
<1>13. CASE ProviderReached(p, j)
  <2>1. /\ QueueTypeOK' /\ SubmissionTypeOK' /\ FailedEventsTypeOK' /\ CronTypeOK'
        /\ EnvTypeOK'
    BY <1>13, Kept DEF ProviderReached, WorkerFrame, OnlyMeta, queueVars,
       handlerVars, envVars
  <2>2. StoreTypeOK'
    BY <1>13 DEF TypeOK, StoreTypeOK, ProviderReached, MetaRecord, OnlyMeta,
       WorkerFrame
  <2>3. WorkerTypeOK'
    BY <1>13 DEF TypeOK, WorkerTypeOK, ProviderReached, WorkerPcs, Goto, WorkerFrame
  <2>4. HistoryTypeOK'
    BY <1>13 DEF TypeOK, HistoryTypeOK, ProviderReached, OnlyMeta, WorkerFrame
  <2>5. QED
    BY <2>1, <2>2, <2>3, <2>4 DEF TypeOK
<1>14. CASE FinalizeMeta(p, j)
  <2>1. /\ QueueTypeOK' /\ SubmissionTypeOK' /\ FailedEventsTypeOK' /\ CronTypeOK'
        /\ EnvTypeOK' /\ HistoryTypeOK'
    BY <1>14, Kept DEF FinalizeMeta, WorkerFrame, OnlyMeta, queueVars, handlerVars,
       envVars, historyVars
  <2>2. StoreTypeOK'
    <3>1. UsedModel(j) \in {"id", "api"}
      BY DEF UsedModel
    <3>2. meta' = [meta EXCEPT ![j] = [@ EXCEPT !.model = UsedModel(j),
                                                !.status = "completed"]]
      BY <1>14 DEF FinalizeMeta
    <3>3. meta' \in [Jobs -> MetaRecord]
      BY <3>1, <3>2 DEF TypeOK, StoreTypeOK, MetaRecord
    <3>4. QED
      BY <1>14, <3>3 DEF TypeOK, StoreTypeOK, FinalizeMeta, OnlyMeta, WorkerFrame
  <2>3. WorkerTypeOK'
    BY <1>14 DEF TypeOK, WorkerTypeOK, FinalizeMeta, WorkerPcs, Goto, WorkerFrame
  <2>4. QED
    BY <2>1, <2>2, <2>3 DEF TypeOK
<1>20. CASE StoreAnswer(p, j)
  <2>1. /\ QueueTypeOK' /\ SubmissionTypeOK' /\ FailedEventsTypeOK' /\ CronTypeOK'
        /\ EnvTypeOK' /\ HistoryTypeOK'
    BY <1>20, Kept DEF StoreAnswer, WorkerFrame, queueVars, handlerVars, envVars,
       historyVars
  <2>2. StoreTypeOK'
    BY <1>20 DEF TypeOK, StoreTypeOK, StoreAnswer, WorkerFrame
  <2>3. WorkerTypeOK'
    BY <1>20 DEF TypeOK, WorkerTypeOK, StoreAnswer, WorkerPcs, Goto, WorkerFrame
  <2>4. QED
    BY <2>1, <2>2, <2>3 DEF TypeOK
<1>21. CASE ReleaseOwnSlot(p, j)
  <2>1. /\ QueueTypeOK' /\ SubmissionTypeOK' /\ FailedEventsTypeOK' /\ CronTypeOK'
        /\ EnvTypeOK' /\ HistoryTypeOK'
    BY <1>21, Kept DEF ReleaseOwnSlot, WorkerFrame, queueVars, handlerVars, envVars,
       historyVars
  <2>2. StoreTypeOK'
    <3>1. slots' \in [Users -> SUBSET Jobs]
      BY <1>21, ReleaseType DEF TypeOK, ReleaseOwnSlot
    <3>2. QED
      BY <1>21, <3>1 DEF TypeOK, StoreTypeOK, ReleaseOwnSlot, WorkerFrame
  <2>3. WorkerTypeOK'
    BY <1>21 DEF TypeOK, WorkerTypeOK, ReleaseOwnSlot, WorkerPcs, Goto, WorkerFrame
  <2>4. QED
    BY <2>1, <2>2, <2>3 DEF TypeOK
<1>15. CASE LeaveBacklog(p, j)
  <2>1. /\ QueueTypeOK' /\ SubmissionTypeOK' /\ FailedEventsTypeOK' /\ CronTypeOK'
        /\ EnvTypeOK' /\ HistoryTypeOK'
    BY <1>15, Kept DEF LeaveBacklog, WorkerFrame, queueVars, handlerVars, envVars,
       historyVars
  <2>2. StoreTypeOK'
    BY <1>15, WaitingType DEF TypeOK, StoreTypeOK, LeaveBacklog, LeaveWaiting,
       WorkerFrame
  <2>3. WorkerTypeOK'
    BY <1>15 DEF TypeOK, WorkerTypeOK, LeaveBacklog, WorkerPcs, Goto, WorkerFrame
  <2>4. QED
    BY <2>1, <2>2, <2>3 DEF TypeOK
<1>16. CASE Return(p, j)
  <2>1. /\ StoreTypeOK' /\ SubmissionTypeOK' /\ FailedEventsTypeOK' /\ CronTypeOK'
        /\ EnvTypeOK' /\ HistoryTypeOK'
    BY <1>16, Kept DEF Return, WorkerFrame, storeVars, handlerVars, envVars,
       historyVars
  <2>2. QueueTypeOK'
    <3>1. CASE Holds(p, j)
      <4>1. bull' = [bull EXCEPT ![j] = [@ EXCEPT !.st = "completed", !.lock = NoProc]]
        BY <1>16, <3>1 DEF Return, Completed
      <4>2. bull' \in [Jobs -> BullRecord]
        BY <4>1, BullUpdate DEF TypeOK, QueueTypeOK, BullStates
      <4>3. QED
        BY <1>16, <4>2 DEF TypeOK, QueueTypeOK, Return
    <3>2. CASE ~Holds(p, j)
      BY <1>16, <3>2 DEF TypeOK, QueueTypeOK, Return
    <3>3. QED
      BY <3>1, <3>2
  <2>3. WorkerTypeOK'
    BY <1>16 DEF TypeOK, WorkerTypeOK, Return, WorkerPcs, Goto, WorkerFrame
  <2>4. QED
    BY <2>1, <2>2, <2>3 DEF TypeOK
<1>17. CASE Throw(p, j)
  <2>1. /\ StoreTypeOK' /\ SubmissionTypeOK' /\ FailedEventsTypeOK' /\ CronTypeOK'
        /\ EnvTypeOK' /\ HistoryTypeOK'
    BY <1>17, Kept DEF Throw, WorkerFrame, storeVars, handlerVars, envVars,
       historyVars
  <2>2. QueueTypeOK'
    <3>1. CASE Holds(p, j)
      <4> DEFINE next == IF At(p, j, "fatal") \/ bull[j].att + 1 >= Attempts
                         THEN "failed" ELSE "delayed"
      <4>1. Failed(j, At(p, j, "fatal"))
        BY <1>17, <3>1 DEF Throw
      <4>2. events' \in [Procs -> SUBSET Jobs]
        BY <4>1, EventsType DEF TypeOK, QueueTypeOK, Failed
      <4>3. bull \in [Jobs -> BullRecord] /\ bull[j].att + 1 \in Nat
        BY DEF TypeOK, QueueTypeOK, BullRecord
      <4>4. next \in BullStates
        BY DEF BullStates
      <4>5. bull' = [bull EXCEPT ![j] = [@ EXCEPT !.st = next, !.lock = NoProc,
                                                  !.att = bull[j].att + 1]]
        BY <4>1 DEF Failed
      <4> HIDE DEF next
      <4>6. bull' \in [Jobs -> BullRecord]
        BY <4>3, <4>4, <4>5, BullAttempt
      <4>7. QED
        BY <4>2, <4>6 DEF QueueTypeOK
    <3>2. CASE ~Holds(p, j)
      BY <1>17, <3>2 DEF TypeOK, QueueTypeOK, Throw, queueVars
    <3>3. QED
      BY <3>1, <3>2
  <2>3. WorkerTypeOK'
    BY <1>17 DEF TypeOK, WorkerTypeOK, Throw, WorkerPcs, Goto, WorkerFrame
  <2>4. QED
    BY <2>1, <2>2, <2>3 DEF TypeOK
<1>18. CASE RedisFails(p, j)
  <2>1. /\ StoreTypeOK' /\ QueueTypeOK' /\ SubmissionTypeOK' /\ FailedEventsTypeOK'
        /\ CronTypeOK' /\ HistoryTypeOK'
    BY <1>18, Kept DEF RedisFails, WorkerFrame, storeVars, queueVars, handlerVars,
       historyVars
  <2>2. WorkerTypeOK'
    BY <1>18 DEF TypeOK, WorkerTypeOK, RedisFails, WorkerPcs, Goto, WorkerFrame
  <2>3. EnvTypeOK'
    BY <1>18 DEF TypeOK, EnvTypeOK, RedisFails, Fault, WorkerFrame
  <2>4. QED
    BY <2>1, <2>2, <2>3 DEF TypeOK
<1>22. CASE ReplyLost(p, j)
  <2>1. /\ QueueTypeOK' /\ SubmissionTypeOK' /\ FailedEventsTypeOK' /\ CronTypeOK'
        /\ HistoryTypeOK'
    BY <1>22, Kept DEF ReplyLost, WorkerFrame, queueVars, handlerVars, historyVars
  <2>2. StoreTypeOK'
    <3>1. CASE meta' = [meta EXCEPT ![j].provider = "true"] /\ UNCHANGED waiting
      BY <1>22, <3>1 DEF TypeOK, StoreTypeOK, ReplyLost, MetaRecord, WorkerFrame
    <3>2. CASE LeaveWaiting(sub[j].model) /\ UNCHANGED meta
      BY <1>22, <3>2, WaitingType
         DEF TypeOK, StoreTypeOK, ReplyLost, LeaveWaiting, WorkerFrame
    <3>3. QED
      BY <1>22, <3>1, <3>2 DEF ReplyLost
  <2>3. WorkerTypeOK'
    BY <1>22 DEF TypeOK, WorkerTypeOK, ReplyLost, WorkerPcs, Goto, WorkerFrame
  <2>4. EnvTypeOK'
    BY <1>22 DEF TypeOK, EnvTypeOK, ReplyLost, Fault, WorkerFrame
  <2>5. QED
    BY <2>1, <2>2, <2>3, <2>4 DEF TypeOK
<1>23. CASE FinalizeLoses(p, j)
  <2>1. /\ StoreTypeOK' /\ QueueTypeOK' /\ SubmissionTypeOK' /\ FailedEventsTypeOK'
        /\ CronTypeOK' /\ HistoryTypeOK'
    BY <1>23, Kept DEF FinalizeLoses, WorkerFrame, storeVars, queueVars, handlerVars,
       historyVars
  <2>2. WorkerTypeOK'
    <3>1. PICK pc \in WorkerPcs : Goto(p, j, pc)
      BY <1>23 DEF FinalizeLoses, WorkerPcs
    <3>2. QED
      BY <1>23, <3>1 DEF TypeOK, WorkerTypeOK, FinalizeLoses, Goto, WorkerFrame
  <2>3. EnvTypeOK'
    BY <1>23 DEF TypeOK, EnvTypeOK, FinalizeLoses, Fault, WorkerFrame
  <2>4. QED
    BY <2>1, <2>2, <2>3 DEF TypeOK
<1>19. QED
  BY <1>1, <1>2, <1>3, <1>4, <1>5, <1>6, <1>7, <1>8, <1>9, <1>10, <1>11, <1>12,
     <1>13, <1>14, <1>15, <1>16, <1>17, <1>18, <1>20, <1>21, <1>22, <1>23

\* Every step of a failed handler keeps the types.
LEMMA FailedEventsType ==
    ASSUME TypeOK, NEW p \in Procs, NEW j \in Jobs,
           \/ OnFailed(p, j)
           \/ GiveTokensBack(p, j)
           \/ WriteFailure(p, j)
           \/ MarkFailure(p, j)
           \/ ReleaseFailedSlot(p, j)
           \/ LeaveAfterFailure(p, j)
           \/ FailureLoses(p, j)
    PROVE  TypeOK'
<1>1. CASE OnFailed(p, j)
  <2>1. /\ StoreTypeOK' /\ SubmissionTypeOK' /\ WorkerTypeOK' /\ CronTypeOK'
        /\ EnvTypeOK' /\ HistoryTypeOK'
    BY <1>1, Kept DEF OnFailed, FailedEventsFrame, storeVars, workerVars, envVars,
       historyVars
  <2>2. QueueTypeOK'
    BY <1>1 DEF TypeOK, QueueTypeOK, OnFailed, FailedEventsFrame
  <2>3. FailedEventsTypeOK'
    BY <1>1 DEF TypeOK, FailedEventsTypeOK, OnFailed, StoreTypeOK, MetaRecord
  <2>4. QED
    BY <2>1, <2>2, <2>3 DEF TypeOK
<1>2. CASE GiveTokensBack(p, j)
  <2>1. /\ QueueTypeOK' /\ SubmissionTypeOK' /\ WorkerTypeOK' /\ CronTypeOK'
        /\ EnvTypeOK'
    BY <1>2, Kept DEF GiveTokensBack, FailedEventsFrame, queueVars, workerVars,
       envVars
  <2>2. StoreTypeOK'
    <3>1. CASE hsnap[p][j].model = "id"
      BY <1>2, <3>1, CounterType
         DEF TypeOK, StoreTypeOK, GiveTokensBack, ReturnTokens, FailedEventsFrame
    <3>2. CASE hsnap[p][j].model # "id"
      BY <1>2, <3>2 DEF TypeOK, StoreTypeOK, GiveTokensBack, FailedEventsFrame
    <3>3. QED
      BY <3>1, <3>2
  <2>3. FailedEventsTypeOK'
    BY <1>2 DEF TypeOK, FailedEventsTypeOK, GiveTokensBack, FailedEventsFrame
  <2>4. HistoryTypeOK'
    BY <1>2 DEF TypeOK, HistoryTypeOK, GiveTokensBack, ReturnTokens,
       FailedEventsFrame
  <2>5. QED
    BY <2>1, <2>2, <2>3, <2>4 DEF TypeOK
<1>3. CASE WriteFailure(p, j)
  <2>1. /\ QueueTypeOK' /\ SubmissionTypeOK' /\ WorkerTypeOK' /\ CronTypeOK'
        /\ EnvTypeOK' /\ HistoryTypeOK'
    BY <1>3, Kept DEF WriteFailure, FailedEventsFrame, queueVars, workerVars,
       envVars, historyVars
  <2>2. StoreTypeOK'
    BY <1>3 DEF TypeOK, StoreTypeOK, WriteFailure, FailedEventsFrame
  <2>3. FailedEventsTypeOK'
    BY <1>3 DEF TypeOK, FailedEventsTypeOK, WriteFailure, FailedEventsFrame
  <2>4. QED
    BY <2>1, <2>2, <2>3 DEF TypeOK
<1>6. CASE MarkFailure(p, j)
  <2>1. /\ QueueTypeOK' /\ SubmissionTypeOK' /\ WorkerTypeOK' /\ CronTypeOK'
        /\ EnvTypeOK' /\ HistoryTypeOK'
    BY <1>6, Kept DEF MarkFailure, FailedEventsFrame, queueVars, workerVars, envVars,
       historyVars
  <2>2. StoreTypeOK'
    <3>1. meta' \in [Jobs -> MetaRecord]
      BY <1>6 DEF TypeOK, StoreTypeOK, MarkFailure, MetaRecord
    <3>2. QED
      BY <1>6, <3>1 DEF TypeOK, StoreTypeOK, MarkFailure, FailedEventsFrame
  <2>3. FailedEventsTypeOK'
    BY <1>6 DEF TypeOK, FailedEventsTypeOK, MarkFailure, FailedEventsFrame
  <2>4. QED
    BY <2>1, <2>2, <2>3 DEF TypeOK
<1>7. CASE ReleaseFailedSlot(p, j)
  <2>1. /\ QueueTypeOK' /\ SubmissionTypeOK' /\ WorkerTypeOK' /\ CronTypeOK'
        /\ EnvTypeOK' /\ HistoryTypeOK'
    BY <1>7, Kept DEF ReleaseFailedSlot, FailedEventsFrame, queueVars, workerVars,
       envVars, historyVars
  <2>2. StoreTypeOK'
    <3>1. slots' \in [Users -> SUBSET Jobs]
      BY <1>7, ReleaseType DEF TypeOK, StoreTypeOK, ReleaseFailedSlot
    <3>2. QED
      BY <1>7, <3>1 DEF TypeOK, StoreTypeOK, ReleaseFailedSlot, FailedEventsFrame
  <2>3. FailedEventsTypeOK'
    BY <1>7 DEF TypeOK, FailedEventsTypeOK, ReleaseFailedSlot, AfterPipeline,
       FailedEventsFrame
  <2>4. QED
    BY <2>1, <2>2, <2>3 DEF TypeOK
<1>8. CASE FailureLoses(p, j)
  <2>1. /\ StoreTypeOK' /\ QueueTypeOK' /\ SubmissionTypeOK' /\ WorkerTypeOK'
        /\ CronTypeOK' /\ HistoryTypeOK'
    BY <1>8, Kept DEF FailureLoses, storeVars, queueVars, workerVars, historyVars
  <2>2. FailedEventsTypeOK'
    <3>1. PICK pc \in {"idle", "mark", "release", "leave"} : hpc' = [hpc EXCEPT ![p][j] = pc]
      BY <1>8 DEF FailureLoses, AfterPipeline
    <3>2. UNCHANGED hsnap
      BY <1>8 DEF FailureLoses
    <3>3. QED
      BY <3>1, <3>2 DEF TypeOK, FailedEventsTypeOK
  <2>3. EnvTypeOK'
    BY <1>8 DEF TypeOK, EnvTypeOK, FailureLoses, Fault
  <2>4. QED
    BY <2>1, <2>2, <2>3 DEF TypeOK
<1>4. CASE LeaveAfterFailure(p, j)
  <2>1. /\ QueueTypeOK' /\ SubmissionTypeOK' /\ WorkerTypeOK' /\ CronTypeOK'
        /\ EnvTypeOK' /\ HistoryTypeOK'
    BY <1>4, Kept DEF LeaveAfterFailure, FailedEventsFrame, queueVars, workerVars,
       envVars, historyVars
  <2>2. StoreTypeOK'
    BY <1>4, WaitingType DEF TypeOK, StoreTypeOK, LeaveAfterFailure, LeaveWaiting,
       FailedEventsFrame
  <2>3. FailedEventsTypeOK'
    BY <1>4 DEF TypeOK, FailedEventsTypeOK, LeaveAfterFailure, NoSnap
  <2>4. QED
    BY <2>1, <2>2, <2>3 DEF TypeOK
<1>5. QED
  BY <1>1, <1>2, <1>3, <1>4, <1>6, <1>7, <1>8

\* The end and the start of a worker process keep the types.
LEMMA ProcessType ==
    ASSUME TypeOK, NEW p \in Procs,
           \/ Crash(p)
           \/ Shutdown(p)
           \/ \E j \in Jobs : ListenerRejects(p, j)
           \/ Restart(p)
    PROVE  TypeOK'
<1>1. ASSUME Gone(p), waiting' \in [Models -> Int], faults' \in Nat
      PROVE  TypeOK'
  <2>1. SubmissionTypeOK' /\ CronTypeOK' /\ HistoryTypeOK'
    BY <1>1, Kept DEF Gone, historyVars
  <2>2. QueueTypeOK'
    BY <1>1 DEF TypeOK, QueueTypeOK, Gone, BullRecord
  <2>3. WorkerTypeOK'
    BY <1>1 DEF TypeOK, WorkerTypeOK, Gone, WorkerPcs
  <2>4. FailedEventsTypeOK'
    BY <1>1 DEF TypeOK, FailedEventsTypeOK, Gone, NoSnap
  <2>5. StoreTypeOK' /\ EnvTypeOK'
    BY <1>1 DEF TypeOK, StoreTypeOK, EnvTypeOK, Gone
  <2>6. QED
    BY <2>1, <2>2, <2>3, <2>4, <2>5 DEF TypeOK
<1>2. CASE Crash(p) \/ Shutdown(p) \/ \E j \in Jobs : ListenerRejects(p, j)
  <2>1. Gone(p) /\ faults' \in Nat
    BY <1>2 DEF Crash, Shutdown, ListenerRejects, Fault, TypeOK, EnvTypeOK
  <2>2. waiting' \in [Models -> Int]
    BY <1>2, WaitingType
       DEF Crash, Shutdown, ListenerRejects, LeaveWaiting, TypeOK, StoreTypeOK
  <2>3. QED
    BY <1>1, <2>1, <2>2
<1>3. CASE Restart(p)
  <2>1. /\ StoreTypeOK' /\ QueueTypeOK' /\ SubmissionTypeOK' /\ FailedEventsTypeOK'
        /\ CronTypeOK' /\ EnvTypeOK' /\ HistoryTypeOK'
    BY <1>3, Kept DEF Restart, Gone, storeVars, queueVars, handlerVars, envVars,
       historyVars
  <2>2. WorkerTypeOK'
    BY <1>3 DEF TypeOK, WorkerTypeOK, Restart, workerVars
  <2>3. QED
    BY <2>1, <2>2 DEF TypeOK
<1>4. QED
  BY <1>1, <1>2, <1>3

\* Starting, ending and losing a run of the cron keeps the types.
LEMMA CronRunType ==
    ASSUME TypeOK,
           \/ BeginExpiry
           \/ EndExpiry
           \/ CronDies
    PROVE  TypeOK'
<1>1. CASE BeginExpiry
  <2>1. /\ StoreTypeOK' /\ QueueTypeOK' /\ SubmissionTypeOK' /\ WorkerTypeOK'
        /\ FailedEventsTypeOK' /\ EnvTypeOK' /\ HistoryTypeOK'
    BY <1>1, Kept DEF BeginExpiry, CronFrame, storeVars, queueVars, workerVars,
       handlerVars, envVars, historyVars
  <2>2. CronTypeOK'
    BY <1>1 DEF TypeOK, CronTypeOK, BeginExpiry, CronIdle
  <2>3. QED
    BY <2>1, <2>2 DEF TypeOK
<1>2. CASE EndExpiry
  <2>1. /\ StoreTypeOK' /\ QueueTypeOK' /\ SubmissionTypeOK' /\ WorkerTypeOK'
        /\ FailedEventsTypeOK' /\ EnvTypeOK' /\ HistoryTypeOK'
    BY <1>2, Kept DEF EndExpiry, CronFrame, storeVars, queueVars, workerVars,
       handlerVars, envVars, historyVars
  <2>2. CronTypeOK'
    BY <1>2 DEF TypeOK, CronTypeOK, EndExpiry, CronIdle
  <2>3. QED
    BY <2>1, <2>2 DEF TypeOK
<1>3. CASE CronDies
  <2>1. /\ StoreTypeOK' /\ QueueTypeOK' /\ SubmissionTypeOK' /\ WorkerTypeOK'
        /\ FailedEventsTypeOK' /\ HistoryTypeOK'
    BY <1>3, Kept DEF CronDies, CronFrame, storeVars, queueVars, workerVars,
       handlerVars, historyVars
  <2>2. CronTypeOK'
    BY <1>3 DEF TypeOK, CronTypeOK, CronDies, CronIdle
  <2>3. EnvTypeOK'
    BY <1>3 DEF TypeOK, EnvTypeOK, CronDies, Fault, CronFrame
  <2>4. QED
    BY <2>1, <2>2, <2>3 DEF TypeOK
<1>4. QED
  BY <1>1, <1>2, <1>3

\* Reading a queue keeps the types.
LEMMA ScanType ==
    ASSUME TypeOK, NEW t \in Types,
           ScanQueue(t)
    PROVE  TypeOK'
<1>1. CASE ScanQueue(t)
  <2>1. /\ StoreTypeOK' /\ QueueTypeOK' /\ SubmissionTypeOK' /\ WorkerTypeOK'
        /\ FailedEventsTypeOK' /\ EnvTypeOK' /\ HistoryTypeOK'
    BY <1>1, Kept DEF ScanQueue, CronFrame, storeVars, queueVars, workerVars,
       handlerVars, envVars, historyVars
  <2>2. CronTypeOK'
    BY <1>1 DEF TypeOK, CronTypeOK, ScanQueue
  <2>3. QED
    BY <2>1, <2>2 DEF TypeOK
<1>2. QED
  BY <1>1

\* Every step the cron takes about a job keeps the types.
LEMMA ExpiryType ==
    ASSUME TypeOK, NEW j \in Jobs,
           \/ ReadStale(j)
           \/ RemoveStale(j)
           \/ RefundStale(j)
           \/ ExpireStale(j)
    PROVE  TypeOK'
<1>1. CASE ReadStale(j)
  <2>1. /\ StoreTypeOK' /\ QueueTypeOK' /\ SubmissionTypeOK' /\ WorkerTypeOK'
        /\ FailedEventsTypeOK' /\ EnvTypeOK' /\ HistoryTypeOK'
    BY <1>1, Kept DEF ReadStale, CronFrame, storeVars, queueVars, workerVars,
       handlerVars, envVars, historyVars
  <2>2. CronTypeOK'
    BY <1>1 DEF TypeOK, CronTypeOK, ReadStale, StoreTypeOK, MetaRecord
  <2>3. QED
    BY <2>1, <2>2 DEF TypeOK
<1>2. CASE RemoveStale(j)
  <2>1. /\ StoreTypeOK' /\ SubmissionTypeOK' /\ WorkerTypeOK' /\ FailedEventsTypeOK'
        /\ EnvTypeOK' /\ HistoryTypeOK'
    BY <1>2, Kept DEF RemoveStale, CronFrame, storeVars, workerVars, handlerVars,
       envVars, historyVars
  <2>2. QueueTypeOK'
    BY <1>2 DEF TypeOK, QueueTypeOK, RemoveStale, Removed, BullRecord, BullStates,
       CronFrame
  <2>3. CronTypeOK'
    <3>1. CASE Removable(j)
      <4>1. cron' = [cron EXCEPT !.pc = IF cron.due THEN "refund" ELSE "expire"]
        BY <1>2, <3>1 DEF RemoveStale
      <4>2. QED
        BY <4>1 DEF TypeOK, CronTypeOK
    <3>2. CASE ~Removable(j)
      <4>1. cron' = CronIdle
        BY <1>2, <3>2 DEF RemoveStale
      <4>2. QED
        BY <4>1 DEF CronTypeOK, CronIdle
    <3>3. QED
      BY <3>1, <3>2
  <2>4. QED
    BY <2>1, <2>2, <2>3 DEF TypeOK
<1>3. CASE RefundStale(j)
  <2>1. /\ QueueTypeOK' /\ SubmissionTypeOK' /\ WorkerTypeOK' /\ FailedEventsTypeOK'
        /\ EnvTypeOK'
    BY <1>3, Kept DEF RefundStale, CronFrame, queueVars, workerVars, handlerVars,
       envVars
  <2>2. StoreTypeOK'
    BY <1>3, CounterType DEF TypeOK, StoreTypeOK, RefundStale, ReturnTokens
  <2>3. CronTypeOK'
    BY <1>3 DEF TypeOK, CronTypeOK, RefundStale
  <2>4. HistoryTypeOK'
    BY <1>3 DEF TypeOK, HistoryTypeOK, RefundStale, ReturnTokens, CronFrame
  <2>5. QED
    BY <2>1, <2>2, <2>3, <2>4 DEF TypeOK
<1>4. CASE ExpireStale(j)
  <2>1. /\ QueueTypeOK' /\ SubmissionTypeOK' /\ WorkerTypeOK' /\ FailedEventsTypeOK'
        /\ EnvTypeOK' /\ HistoryTypeOK'
    BY <1>4, Kept DEF ExpireStale, CronFrame, queueVars, workerVars, handlerVars,
       envVars, historyVars
  <2>2. StoreTypeOK'
    <3>1. slots' \in [Users -> SUBSET Jobs]
      BY <1>4, ReleaseType DEF TypeOK, StoreTypeOK, ExpireStale
    <3>2. meta' \in [Jobs -> MetaRecord]
      <4>1. meta' = [meta EXCEPT ![j].status = "failed"]
        BY <1>4 DEF ExpireStale
      <4>2. QED
        BY <4>1 DEF TypeOK, StoreTypeOK, MetaRecord
    <3>3. waiting' \in [Models -> Int]
      BY <1>4, WaitingType DEF TypeOK, StoreTypeOK, ExpireStale, LeaveWaiting
    <3>4. userRpd' \in [Users -> [Types -> [Days -> Nat]]]
      <4>1. UserOf[j] \in Users /\ TypeOf[j] \in Types /\ day \in Days
        BY JobsAssumption DEF TypeOK, EnvTypeOK
      <4>2. userRpd \in [Users -> [Types -> [Days -> Nat]]]
        BY DEF TypeOK, StoreTypeOK
      <4>3. userRpd' =
              [userRpd EXCEPT ![UserOf[j]][TypeOf[j]][day] = DecrAndClamp(@)]
        BY <1>4 DEF ExpireStale
      <4>4. DecrAndClamp(userRpd[UserOf[j]][TypeOf[j]][day]) \in Nat
        BY <4>1, <4>2 DEF DecrAndClamp
      <4>5. QED
        BY <4>1, <4>2, <4>3, <4>4
    <3>5. QED
      BY <1>4, <3>1, <3>2, <3>3, <3>4 DEF TypeOK, StoreTypeOK, ExpireStale
  <2>3. CronTypeOK'
    BY <1>4 DEF TypeOK, CronTypeOK, ExpireStale
  <2>4. QED
    BY <2>1, <2>2, <2>3 DEF TypeOK
<1>5. QED
  BY <1>1, <1>2, <1>3, <1>4

\* cleanupOrphanLocks keeps the types.
LEMMA CleanupType ==
    ASSUME TypeOK, NEW u \in Users,
           CleanupSlots(u)
    PROVE  TypeOK'
<1>1. CASE CleanupSlots(u)
  <2>1. /\ QueueTypeOK' /\ SubmissionTypeOK' /\ WorkerTypeOK' /\ FailedEventsTypeOK'
        /\ CronTypeOK' /\ EnvTypeOK' /\ HistoryTypeOK'
    BY <1>1, Kept DEF CleanupSlots, CronFrame, queueVars, workerVars, handlerVars,
       envVars, historyVars
  <2>2. StoreTypeOK'
    BY <1>1 DEF TypeOK, StoreTypeOK, CleanupSlots, Unexpired, CronFrame
  <2>3. QED
    BY <2>1, <2>2 DEF TypeOK
<1>2. QED
  BY <1>1

\* A job that ages keeps the types.
LEMMA AgeType ==
    ASSUME TypeOK, NEW j \in Jobs,
           Age(j)
    PROVE  TypeOK'
<1>1. CASE Age(j)
  <2>1. /\ StoreTypeOK' /\ QueueTypeOK' /\ SubmissionTypeOK' /\ WorkerTypeOK'
        /\ FailedEventsTypeOK' /\ CronTypeOK' /\ HistoryTypeOK'
    BY <1>1, Kept DEF Age, EnvFrame, storeVars, queueVars, workerVars, handlerVars,
       historyVars
  <2>2. EnvTypeOK'
    BY <1>1 DEF TypeOK, EnvTypeOK, Age, Ages, EnvFrame
  <2>3. QED
    BY <2>1, <2>2 DEF TypeOK
<1>2. QED
  BY <1>1

\* Midnight keeps the types.
LEMMA MidnightType ==
    ASSUME TypeOK,
           Midnight
    PROVE  TypeOK'
<1>1. CASE Midnight
  <2>1. /\ QueueTypeOK' /\ SubmissionTypeOK' /\ WorkerTypeOK' /\ FailedEventsTypeOK'
        /\ CronTypeOK' /\ HistoryTypeOK'
    BY <1>1, Kept DEF Midnight, EnvFrame, queueVars, workerVars, handlerVars,
       historyVars
  <2>2. StoreTypeOK'
    BY <1>1 DEF TypeOK, StoreTypeOK, Midnight
  <2>3. EnvTypeOK'
    BY <1>1, BoundsAssumption DEF TypeOK, EnvTypeOK, Midnight, Days
  <2>4. QED
    BY <2>1, <2>2, <2>3 DEF TypeOK
<1>2. QED
  BY <1>1

\* An elapsed minute keeps the types.
LEMMA MinuteType ==
    ASSUME TypeOK, NEW m \in Models,
           MinuteElapses(m)
    PROVE  TypeOK'
<1>1. CASE MinuteElapses(m)
  <2>1. /\ QueueTypeOK' /\ SubmissionTypeOK' /\ WorkerTypeOK' /\ FailedEventsTypeOK'
        /\ CronTypeOK' /\ EnvTypeOK' /\ HistoryTypeOK'
    BY <1>1, Kept DEF MinuteElapses, EnvFrame, queueVars, workerVars, handlerVars,
       envVars, historyVars
  <2>2. StoreTypeOK'
    BY <1>1 DEF TypeOK, StoreTypeOK, MinuteElapses
  <2>3. QED
    BY <2>1, <2>2 DEF TypeOK
<1>2. QED
  BY <1>1

-----------------------------------------------------------------------------
(* The type invariant.                                                     *)

\* The initial state is well typed.
LEMMA InitType == Init => TypeOK
<1> SUFFICES ASSUME Init PROVE TypeOK
  OBVIOUS
<1> USE DEF Init
<1>1. StoreTypeOK
  BY DEF StoreInit, StoreTypeOK, EmptyMeta, MetaRecord
<1>2. QueueTypeOK
  BY DEF QueueInit, QueueTypeOK, BullRecord, BullStates
<1>3. SubmissionTypeOK
  BY BoundsAssumption DEF SubmissionInit, SubmissionTypeOK, SubmissionPcs, Days
<1>4. WorkerTypeOK
  BY DEF WorkerInit, WorkerTypeOK, WorkerPcs
<1>5. FailedEventsTypeOK
  BY DEF FailedEventsInit, FailedEventsTypeOK, NoSnap
<1>6. CronTypeOK
  BY DEF CronInit, CronIdle, CronTypeOK
<1>7. EnvTypeOK
  BY BoundsAssumption DEF EnvInit, EnvTypeOK, Ages, Days
<1>8. HistoryTypeOK
  BY DEF HistoryInit, HistoryTypeOK
<1>9. QED
  BY <1>1, <1>2, <1>3, <1>4, <1>5, <1>6, <1>7, <1>8 DEF TypeOK

\* Every step of the system keeps the types.
LEMMA NextType == TypeOK /\ [Next]_vars => TypeOK'
<1> SUFFICES ASSUME TypeOK, [Next]_vars PROVE TypeOK'
  OBVIOUS
<1>1. ASSUME NEW j \in Jobs,
             SubmissionStep(j) \/ EnqueueFails(j) \/ WebDies(j)
      PROVE  TypeOK'
  BY <1>1, SubmissionType DEF SubmissionStep
<1>2. ASSUME NEW j \in Jobs, PromoteDelayed(j) \/ RecoverStalled(j) \/ LoseLock(j)
      PROVE  TypeOK'
  BY <1>2, QueueType
<1>3. ASSUME NEW p \in Procs, NEW j \in Jobs,
             Fetch(p, j) \/ HandlerStep(p, j) \/ HandlerFault(p, j)
      PROVE  TypeOK'
  BY <1>3, WorkerType DEF HandlerStep, HandlerFault
<1>4. ASSUME NEW p \in Procs, NEW j \in Jobs,
             FailedEventsStep(p, j) \/ FailureLoses(p, j)
      PROVE  TypeOK'
  BY <1>4, FailedEventsType DEF FailedEventsStep
<1>5. ASSUME NEW p \in Procs,
             Crash(p) \/ Shutdown(p) \/ Restart(p) \/ \E j \in Jobs : ListenerRejects(p, j)
      PROVE  TypeOK'
  BY <1>5, ProcessType
<1>6. CASE ExpiryStep \/ CronDies \/ \E u \in Users : CleanupSlots(u)
  BY <1>6, CronRunType, ScanType, ExpiryType, CleanupType DEF ExpiryStep
<1>7. CASE Midnight \/ (\E j \in Jobs : Age(j)) \/ \E m \in Models : MinuteElapses(m)
  BY <1>7, AgeType, MidnightType, MinuteType
<1>8. CASE Rest \/ UNCHANGED vars
  BY <1>8, Kept DEF TypeOK, Rest, vars
<1>9. QED
  BY <1>1, <1>2, <1>3, <1>4, <1>5, <1>6, <1>7, <1>8 DEF Next

\* Every state the system reaches is well typed: the values each component writes
\* to the state it shares are those the others expect to read.
THEOREM TypeCorrect == Spec => []TypeOK
<1>1. QED
  BY InitType, NextType, PTL DEF Spec

-----------------------------------------------------------------------------
(***************************************************************************)
(* A user never has more live jobs than max_concurrency, for every number  *)
(* of jobs, users, models and processes, and whatever the environment      *)
(* does, but for Redis commands that fail.                                 *)
(*                                                                         *)
(* combinedCheckAndAcquire.lua bounds the slots, not the jobs, so the      *)
(* invariant says that the slots account for the jobs: a submission keeps  *)
(* its slot from the script on until its result is written, which is       *)
(* before the pipelines of both handlers come to the ZREM.                 *)
(***************************************************************************)

\* The submission has been through the script, has no result, and its slot has not
\* expired.
Unsettled(j) == sub[j].model # NoModel /\ result[j] = "none" /\ age[j] < 2

HeldWithinLimit ==
    \A u \in Users : ConcurrencyLimit[u] > 0 =>
        Cardinality(Unexpired(u)) <= ConcurrencyLimit[u]

UnsettledHoldsSlot ==
    \A j \in Jobs : Unsettled(j) /\ ConcurrencyLimit[UserOf[j]] > 0
                        => j \in slots[UserOf[j]]

\* Only a submission that has its model goes past the script into a queue.
ModelChosen ==
    \A j \in Jobs :
        Pending(j) \/ sub[j].pc \in {"incr", "full", "enqueue", "undo", "error"}
            => sub[j].model # NoModel

SlotInv == HeldWithinLimit /\ UnsettledHoldsSlot /\ ModelChosen

\* A pipeline that is past its HSET of the result has written one.
ResultFirst ==
    \A p \in Procs, j \in Jobs :
        At(p, j, "release") \/ hpc[p][j] \in {"mark", "release"} => result[j] # "none"

-----------------------------------------------------------------------------
(* Steps that take no slot.                                                *)

\* The slots of a user are finitely many.
LEMMA UnexpiredFinite ==
    ASSUME TypeOK, NEW u \in Users
    PROVE  Unexpired(u) \subseteq Jobs /\ IsFiniteSet(Unexpired(u))
<1>1. Unexpired(u) \subseteq Jobs
  BY DEF TypeOK, StoreTypeOK, Unexpired
<1>2. QED
  BY <1>1, JobsAssumption, FS_Subset

\* A step that only takes expired slots away, or slots of jobs it settles, keeps
\* the invariant.
LEMMA Shrink ==
    ASSUME TypeOK, SlotInv,
           \A u \in Users : Unexpired(u)' \subseteq Unexpired(u),
           \A j \in Jobs : Unsettled(j)' =>
               Unsettled(j) /\ (j \in slots[UserOf[j]] => j \in slots'[UserOf[j]]),
           ModelChosen'
    PROVE  SlotInv'
<1>1. HeldWithinLimit'
  <2> SUFFICES ASSUME NEW u \in Users, ConcurrencyLimit[u] > 0
               PROVE  Cardinality(Unexpired(u)') <= ConcurrencyLimit[u]
    BY DEF HeldWithinLimit
  <2>1. IsFiniteSet(Unexpired(u)) /\ Unexpired(u)' \subseteq Unexpired(u)
    BY UnexpiredFinite
  <2>2. /\ IsFiniteSet(Unexpired(u)')
        /\ Cardinality(Unexpired(u)') <= Cardinality(Unexpired(u))
    BY <2>1, FS_Subset
  <2>3. Cardinality(Unexpired(u)) \in Nat /\ Cardinality(Unexpired(u)') \in Nat
    BY <2>1, <2>2, FS_CardinalityType
  <2>4. Cardinality(Unexpired(u)) <= ConcurrencyLimit[u]
    BY DEF SlotInv, HeldWithinLimit
  <2>5. QED
    BY <2>2, <2>3, <2>4, LimitsAssumption
<1>2. UnsettledHoldsSlot'
  BY DEF SlotInv, UnsettledHoldsSlot
<1>3. QED
  BY <1>1, <1>2 DEF SlotInv

\* The same for a step that leaves slots and ages alone.
LEMMA Quiet ==
    ASSUME TypeOK, SlotInv, UNCHANGED <<slots, age>>,
           \A j \in Jobs : sub'[j].model = sub[j].model,
           \A j \in Jobs : result'[j] = "none" => result[j] = "none",
           ModelChosen'
    PROVE  SlotInv'
<1>1. \A u \in Users : Unexpired(u)' \subseteq Unexpired(u)
  BY DEF Unexpired
<1>2. \A j \in Jobs : Unsettled(j)' =>
         Unsettled(j) /\ (j \in slots[UserOf[j]] => j \in slots'[UserOf[j]])
  BY DEF Unsettled
<1>3. QED
  BY <1>1, <1>2, Shrink

\* The cleanup of a user's expired slots, alone or with a step that changes no
\* model, result or age.
LEMMA Cleanup ==
    ASSUME TypeOK, SlotInv, NEW u \in Users, DropExpiredSlots(u),
           UNCHANGED <<result, age>>,
           \A j \in Jobs : sub'[j].model = sub[j].model,
           ModelChosen'
    PROVE  SlotInv'
<1>1. \A v \in Users : slots'[v] = IF v = u THEN Unexpired(u) ELSE slots[v]
  BY DEF TypeOK, StoreTypeOK, DropExpiredSlots
<1>2. \A v \in Users : Unexpired(v)' \subseteq Unexpired(v)
  BY <1>1 DEF Unexpired
<1>3. \A j \in Jobs : Unsettled(j)' =>
         Unsettled(j) /\ (j \in slots[UserOf[j]] => j \in slots'[UserOf[j]])
  BY <1>1, JobsAssumption DEF Unsettled, Unexpired
<1>4. QED
  BY <1>2, <1>3, Shrink

\* Giving the slot of a settled job back.
LEMMA GiveBack ==
    ASSUME TypeOK, SlotInv, NEW j \in Jobs, ReleaseSlot(j), result'[j] # "none",
           \A i \in Jobs : result'[i] = "none" => result[i] = "none",
           UNCHANGED <<sub, age>>, ModelChosen'
    PROVE  SlotInv'
<1>1. \A v \in Users : slots'[v] \subseteq slots[v] /\ slots[v] \ {j} \subseteq slots'[v]
  BY DEF TypeOK, StoreTypeOK, ReleaseSlot
<1>2. \A v \in Users : Unexpired(v)' \subseteq Unexpired(v)
  BY <1>1 DEF Unexpired
<1>3. \A i \in Jobs : Unsettled(i)' =>
         Unsettled(i) /\ (i \in slots[UserOf[i]] => i \in slots'[UserOf[i]])
  BY <1>1, JobsAssumption DEF Unsettled
<1>4. QED
  BY <1>2, <1>3, Shrink

\* A step that changes no submission and puts no job into a queue.
LEMMA StillChosen ==
    ASSUME SlotInv, UNCHANGED sub, \A j \in Jobs : Pending(j)' => Pending(j)
    PROVE  ModelChosen'
BY DEF SlotInv, ModelChosen

-----------------------------------------------------------------------------
(* The step that takes one.                                                *)

\* The script says OK only below the limit, and the job it says OK to is the only
\* one that becomes unsettled.
LEMMA AcquireSlots ==
    ASSUME TypeOK, SlotInv, NEW j \in Jobs, AcquireCandidate(j)
    PROVE  SlotInv'
<1> DEFINE u == UserOf[j]
           slot == IF ConcurrencyLimit[u] > 0 THEN {j} ELSE {}
<1>1. u \in Users
  BY JobsAssumption
<1>2. \A v \in Users : slots'[v] = IF v = u THEN Unexpired(u) \cup slot ELSE slots[v]
  BY <1>1 DEF TypeOK, StoreTypeOK, AcquireCandidate
<1>3. age' = age /\ result' = result /\ bull' = bull
  BY DEF AcquireCandidate, SubmissionFrame
<1>4. /\ sub'[j].pc = "incr" /\ sub'[j].model \in Models
      /\ \A i \in Jobs \ {j} : sub'[i] = sub[i]
  <2>1. Candidate(j) \in Models
    BY JobsAssumption, ModelsAssumption
       DEF TypeOK, SubmissionTypeOK, AcquireCandidate, AtLoaded, AtCandidate, Candidate
  <2>2. QED
    BY <2>1 DEF TypeOK, SubmissionTypeOK, AcquireCandidate
<1>5. HeldWithinLimit'
  <2> SUFFICES ASSUME NEW v \in Users, ConcurrencyLimit[v] > 0
               PROVE  Cardinality(Unexpired(v)') <= ConcurrencyLimit[v]
    BY DEF HeldWithinLimit
  <2>1. CASE v # u
    BY <2>1, <1>2, <1>3 DEF Unexpired, SlotInv, HeldWithinLimit
  <2>2. CASE v = u
    <3>1. IsFiniteSet(Unexpired(u)) /\ Cardinality(Unexpired(u)) \in Nat
      BY <1>1, UnexpiredFinite, FS_CardinalityType
    <3>2. Cardinality(Unexpired(u)) < ConcurrencyLimit[u]
      <4>1. AcquireVerdict(j) = "ok"
        BY DEF AcquireCandidate
      <4>2. ~(Cardinality(Unexpired(u)) >= ConcurrencyLimit[u])
        BY <4>1, <2>2 DEF AcquireVerdict, AcquireCode
      <4>3. QED
        BY <4>2, <3>1, <1>1, LimitsAssumption
    <3>3. Unexpired(u)' \subseteq Unexpired(u) \cup {j}
      BY <1>1, <1>2, <1>3 DEF Unexpired
    <3>4. /\ IsFiniteSet(Unexpired(u) \cup {j})
          /\ Cardinality(Unexpired(u) \cup {j}) <= Cardinality(Unexpired(u)) + 1
      <4> HIDE DEF u
      <4>1. Cardinality(Unexpired(u) \cup {j}) =
               IF j \in Unexpired(u) THEN Cardinality(Unexpired(u))
                                     ELSE Cardinality(Unexpired(u)) + 1
        BY <3>1, FS_AddElement
      <4>2. QED
        BY <4>1, <3>1, FS_AddElement
    <3>5. /\ IsFiniteSet(Unexpired(u)')
          /\ Cardinality(Unexpired(u)') <= Cardinality(Unexpired(u) \cup {j})
      BY <3>3, <3>4, FS_Subset
    <3>6. /\ Cardinality(Unexpired(u)') \in Nat
          /\ Cardinality(Unexpired(u) \cup {j}) \in Nat
      BY <3>4, <3>5, FS_CardinalityType
    <3>7. QED
      BY <2>2, <3>1, <3>2, <3>4, <3>5, <3>6, <1>1, LimitsAssumption
  <2>3. QED
    BY <2>1, <2>2
<1>6. UnsettledHoldsSlot'
  <2> SUFFICES ASSUME NEW i \in Jobs, Unsettled(i)', ConcurrencyLimit[UserOf[i]] > 0
               PROVE  i \in slots'[UserOf[i]]
    BY DEF UnsettledHoldsSlot
  <2>1. CASE i = j
    BY <2>1, <1>1, <1>2
  <2>2. CASE i # j
    <3>1. Unsettled(i)
      BY <2>2, <1>3, <1>4 DEF Unsettled
    <3>2. i \in slots[UserOf[i]] /\ age[i] < 2
      BY <3>1 DEF SlotInv, UnsettledHoldsSlot, Unsettled
    <3>3. QED
      BY <3>2, <1>2, JobsAssumption DEF Unexpired
  <2>3. QED
    BY <2>1, <2>2
<1>7. ModelChosen'
  BY <1>3, <1>4, ModelsAssumption DEF SlotInv, ModelChosen, Pending
<1>8. QED
  BY <1>5, <1>6, <1>7 DEF SlotInv

-----------------------------------------------------------------------------
(* The other steps, component by component.                                *)

\* A step of a submission takes a slot in the script only; every step past the
\* script belongs to a submission that has its model.
LEMMA SubmissionSlots ==
    ASSUME TypeOK, SlotInv, NEW j \in Jobs,
           SubmissionStep(j) \/ EnqueueFails(j) \/ WebDies(j)
    PROVE  SlotInv'
<1>1. CASE StartSubmission(j) \/ SkipUnloaded(j) \/ NoModelLeft(j)
  <2>1. UNCHANGED <<slots, result, age, bull>>
    BY <1>1 DEF StartSubmission, SkipUnloaded, NoModelLeft, SubmissionFrame
  <2>2. /\ \A i \in Jobs : sub'[i].model = sub[i].model
        /\ sub'[j].pc \in {"select", "rejected"}
        /\ \A i \in Jobs \ {j} : sub'[i] = sub[i]
    <3>1. CASE StartSubmission(j)
      BY <3>1 DEF TypeOK, SubmissionTypeOK, StartSubmission
    <3>2. CASE SkipUnloaded(j)
      BY <3>2 DEF TypeOK, SubmissionTypeOK, SkipUnloaded, AtCandidate
    <3>3. CASE NoModelLeft(j)
      BY <3>3 DEF TypeOK, SubmissionTypeOK, NoModelLeft
    <3>4. QED
      BY <1>1, <3>1, <3>2, <3>3
  <2>3. ModelChosen'
    BY <2>1, <2>2 DEF SlotInv, ModelChosen, Pending
  <2>4. QED
    BY <2>1, <2>2, <2>3, Quiet
<1>2. CASE AcquireCandidate(j)
  BY <1>2, AcquireSlots
<1>3. CASE SkipExhausted(j) \/ RefuseUser(j)
  <2>1. DropExpiredSlots(UserOf[j]) /\ UNCHANGED <<result, age, bull>>
    BY <1>3 DEF SkipExhausted, RefuseUser, SubmissionFrame
  <2>2. /\ \A i \in Jobs : sub'[i].model = sub[i].model
        /\ sub'[j].pc \in {"select", "rejected"}
        /\ \A i \in Jobs \ {j} : sub'[i] = sub[i]
    BY <1>3 DEF TypeOK, SubmissionTypeOK, SkipExhausted, RefuseUser, AtLoaded, AtCandidate
  <2>3. ModelChosen'
    BY <2>1, <2>2 DEF SlotInv, ModelChosen, Pending
  <2>4. QED
    BY <2>1, <2>2, <2>3, Cleanup, JobsAssumption
<1>4. CASE \/ CountWaiting(j) \/ UndoWaiting(j) \/ AddJob(j) \/ PutMeta(j)
           \/ EnqueueFails(j) \/ UndoEnqueue(j)
  <2>1. UNCHANGED <<slots, result, age>>
    BY <1>4 DEF CountWaiting, UndoWaiting, AddJob, PutMeta, EnqueueFails, UndoEnqueue,
                SubmissionFrame
  <2>2. /\ \A i \in Jobs : sub'[i].model = sub[i].model
        /\ \A i \in Jobs \ {j} : sub'[i] = sub[i]
    <3>1. CASE CountWaiting(j) \/ UndoWaiting(j) \/ UndoEnqueue(j)
      BY <3>1 DEF TypeOK, SubmissionTypeOK, CountWaiting, UndoWaiting, UndoEnqueue
    <3>2. CASE AddJob(j)
      BY <3>2 DEF TypeOK, SubmissionTypeOK, AddJob
    <3>3. CASE PutMeta(j)
      BY <3>3 DEF TypeOK, SubmissionTypeOK, PutMeta
    <3>4. CASE EnqueueFails(j)
      <4>1. CASE sub' = [sub EXCEPT ![j] = [@ EXCEPT !.add = "failed", !.pc = "undo"]]
        BY <4>1 DEF TypeOK, SubmissionTypeOK
      <4>2. CASE sub' = [sub EXCEPT ![j] = [@ EXCEPT !.put = "failed", !.pc = "undo"]]
        BY <4>2 DEF TypeOK, SubmissionTypeOK
      <4>3. QED
        BY <3>4, <4>1, <4>2 DEF EnqueueFails
    <3>5. QED
      BY <1>4, <3>1, <3>2, <3>3, <3>4
  <2>3. sub[j].model # NoModel
    BY <1>4 DEF SlotInv, ModelChosen, CountWaiting, UndoWaiting, AddJob, PutMeta,
                EnqueueFails, UndoEnqueue, InFlight
  <2>4. \A i \in Jobs \ {j} : bull'[i] = bull[i]
    BY <1>4 DEF TypeOK, QueueTypeOK, CountWaiting, UndoWaiting, AddJob, PutMeta,
                EnqueueFails, UndoEnqueue, Enqueued
  <2>5. ModelChosen'
    BY <2>2, <2>3, <2>4 DEF SlotInv, ModelChosen, Pending
  <2>6. QED
    BY <2>1, <2>2, <2>5, Quiet
<1>5. CASE WebDies(j)
  <2>1. UNCHANGED <<slots, result, age, bull>>
    BY <1>5 DEF WebDies, SubmissionFrame
  <2>2. /\ \A i \in Jobs : sub'[i].model = sub[i].model
        /\ sub'[j].pc = "dead"
        /\ \A i \in Jobs \ {j} : sub'[i] = sub[i]
    BY <1>5 DEF TypeOK, SubmissionTypeOK, WebDies
  <2>3. ModelChosen'
    BY <2>1, <2>2 DEF SlotInv, ModelChosen, Pending
  <2>4. QED
    BY <2>1, <2>2, <2>3, Quiet
<1>6. QED
  BY <1>1, <1>2, <1>3, <1>4, <1>5 DEF SubmissionStep

\* What the queue does on its own moves jobs between its own states.
LEMMA QueueSlots ==
    ASSUME TypeOK, SlotInv, NEW j \in Jobs,
           PromoteDelayed(j) \/ RecoverStalled(j) \/ LoseLock(j)
    PROVE  SlotInv'
<1>1. UNCHANGED <<slots, result, age, sub>>
  BY DEF PromoteDelayed, RecoverStalled, LoseLock, QueueFrame, storeVars
<1>2. Pending(j) /\ \A i \in Jobs \ {j} : bull'[i] = bull[i]
  BY DEF TypeOK, QueueTypeOK, PromoteDelayed, RecoverStalled, LoseLock, Holds, Pending
<1>3. ModelChosen'
  BY <1>1, <1>2, StillChosen DEF Pending
<1>4. QED
  BY <1>1, <1>3, Quiet

\* A handler gives its job's slot back when the result is written, and puts nothing
\* into a queue that was not there.
LEMMA WorkerSlots ==
    ASSUME TypeOK, SlotInv, ResultFirst, NEW p \in Procs, NEW j \in Jobs,
           Fetch(p, j) \/ HandlerStep(p, j) \/ HandlerFault(p, j)
    PROVE  SlotInv'
<1>1. CASE Fetch(p, j) \/ DelayJob(p, j) \/ Return(p, j) \/ Throw(p, j)
  <2>1. UNCHANGED <<slots, result, age, sub>>
    BY <1>1 DEF Fetch, DelayJob, Return, Throw, WorkerFrame, storeVars
  <2>2. \A i \in Jobs : bull'[i] # bull[i] => Pending(i)
    <3>1. CASE Fetch(p, j)
      BY <3>1 DEF TypeOK, QueueTypeOK, Fetch, Locked, Pending
    <3>2. CASE DelayJob(p, j)
      BY <3>2 DEF TypeOK, QueueTypeOK, DelayJob, Delayed, Holds, Pending
    <3>3. CASE Return(p, j)
      BY <3>3 DEF TypeOK, QueueTypeOK, Return, Completed, Holds, Pending
    <3>4. CASE Throw(p, j)
      BY <3>4 DEF TypeOK, QueueTypeOK, Throw, Failed, Holds, Pending, queueVars
    <3>5. QED
      BY <1>1, <3>1, <3>2, <3>3, <3>4
  <2>3. ModelChosen'
    BY <2>1, <2>2, StillChosen DEF Pending
  <2>4. QED
    BY <2>1, <2>3, Quiet
<1>2. CASE StoreAnswer(p, j)
  <2>1. /\ result' = [result EXCEPT ![j] = "completed"]
        /\ UNCHANGED <<slots, sub, age, bull>>
    BY <1>2 DEF StoreAnswer, WorkerFrame, queueVars
  <2>2. \A i \in Jobs : result'[i] = "none" => result[i] = "none"
    BY <2>1 DEF TypeOK, StoreTypeOK
  <2>3. ModelChosen'
    BY <2>1, StillChosen DEF Pending
  <2>4. QED
    BY <2>1, <2>2, <2>3, Quiet
<1>3. CASE ReleaseOwnSlot(p, j)
  <2>1. /\ ReleaseSlot(j) /\ result[j] # "none"
        /\ UNCHANGED <<result, sub, age, bull>>
    BY <1>3 DEF ReleaseOwnSlot, ResultFirst, WorkerFrame, queueVars
  <2>2. ModelChosen'
    BY <2>1, StillChosen DEF Pending
  <2>3. QED
    BY <2>1, <2>2, GiveBack
<1>4. CASE \/ ReadMeta(p, j) \/ MarkInProgress(p, j) \/ TakeTokens(p, j)
           \/ HitMinuteLimit(p, j) \/ HitDayLimit(p, j) \/ FlagTokens(p, j)
           \/ Requeue(p, j) \/ ReachProvider(p, j) \/ CallProvider(p, j)
           \/ NoApiName(p, j) \/ ProviderReached(p, j) \/ FinalizeMeta(p, j)
           \/ LeaveBacklog(p, j) \/ HandlerFault(p, j)
  <2>1. UNCHANGED <<slots, result, age, sub, bull>>
    BY <1>4 DEF ReadMeta, MarkInProgress, TakeTokens, HitMinuteLimit, HitDayLimit,
                Refused, FlagTokens, Requeue, ReachProvider, CallProvider, NoApiName,
                ProviderReached, FinalizeMeta, LeaveBacklog, HandlerFault, RedisFails,
                ReplyLost, FinalizeLoses, OnlyMeta, WorkerFrame, storeVars, queueVars
  <2>2. ModelChosen'
    BY <2>1, StillChosen DEF Pending
  <2>3. QED
    BY <2>1, <2>2, Quiet
<1>5. QED
  BY <1>1, <1>2, <1>3, <1>4 DEF HandlerStep

\* A failed handler gives a slot back when the result is written.
LEMMA FailedEventsSlots ==
    ASSUME TypeOK, SlotInv, ResultFirst, NEW p \in Procs, NEW j \in Jobs,
           FailedEventsStep(p, j) \/ FailureLoses(p, j)
    PROVE  SlotInv'
<1>1. UNCHANGED <<sub, age, bull>>
  BY DEF FailedEventsStep, OnFailed, GiveTokensBack, WriteFailure, MarkFailure,
         ReleaseFailedSlot, LeaveAfterFailure, FailureLoses, FailedEventsFrame, envVars,
         queueVars
<1>2. ModelChosen'
  BY <1>1, StillChosen DEF Pending
<1>3. CASE WriteFailure(p, j)
  <2>1. UNCHANGED slots /\ result' = [result EXCEPT ![j] = "failed"]
    BY <1>3 DEF WriteFailure
  <2>2. \A i \in Jobs : result'[i] = "none" => result[i] = "none"
    BY <2>1 DEF TypeOK, StoreTypeOK
  <2>3. QED
    BY <1>1, <1>2, <2>1, <2>2, Quiet
<1>4. CASE ReleaseFailedSlot(p, j)
  <2>1. (ReleaseSlot(j) \/ UNCHANGED slots) /\ UNCHANGED result /\ result[j] # "none"
    BY <1>4 DEF ReleaseFailedSlot, ResultFirst
  <2>2. QED
    BY <1>1, <1>2, <2>1, GiveBack, Quiet
<1>5. CASE \/ OnFailed(p, j) \/ GiveTokensBack(p, j) \/ MarkFailure(p, j)
           \/ LeaveAfterFailure(p, j) \/ FailureLoses(p, j)
  <2>1. UNCHANGED <<slots, result>>
    BY <1>5 DEF OnFailed, GiveTokensBack, MarkFailure, LeaveAfterFailure, FailureLoses,
                storeVars
  <2>2. QED
    BY <1>1, <1>2, <2>1, Quiet
<1>6. QED
  BY <1>3, <1>4, <1>5 DEF FailedEventsStep

\* A process takes its locks with it, not the slots.
LEMMA ProcessSlots ==
    ASSUME TypeOK, SlotInv, NEW p \in Procs,
           Crash(p) \/ Shutdown(p) \/ Restart(p) \/ \E j \in Jobs : ListenerRejects(p, j)
    PROVE  SlotInv'
<1>1. UNCHANGED <<slots, result, age, sub>>
  BY DEF Crash, Shutdown, ListenerRejects, Restart, Gone, storeVars, envVars
<1>2. \A j \in Jobs : bull'[j].st = bull[j].st
  <2>1. CASE Restart(p)
    BY <2>1 DEF Restart, queueVars
  <2>2. CASE Gone(p)
    BY <2>2 DEF TypeOK, QueueTypeOK, BullRecord, Gone
  <2>3. QED
    BY <2>1, <2>2 DEF Crash, Shutdown, ListenerRejects
<1>3. ModelChosen'
  BY <1>1, <1>2, StillChosen DEF Pending
<1>4. QED
  BY <1>1, <1>3, Quiet

\* expireStaleJob.lua gives a slot back with the result it writes, and
\* cleanupOrphanLocks takes expired slots only.
LEMMA CronSlots ==
    ASSUME TypeOK, SlotInv, ExpiryStep \/ CronDies \/ \E u \in Users : CleanupSlots(u)
    PROVE  SlotInv'
<1>1. UNCHANGED <<sub, age>>
  BY DEF ExpiryStep, BeginExpiry, ScanQueue, EndExpiry, ReadStale, RemoveStale,
         RefundStale, ExpireStale, CronDies, CleanupSlots, CronFrame
<1>2. \A j \in Jobs : bull'[j] # bull[j] => bull'[j].st = "removed"
  <2>1. ASSUME NEW j \in Jobs, RemoveStale(j)
        PROVE  bull' = bull \/ Removed(j)
    BY <2>1 DEF RemoveStale
  <2>2. bull' = bull \/ \E j \in Jobs : Removed(j)
    BY <2>1 DEF ExpiryStep, BeginExpiry, ScanQueue, EndExpiry, ReadStale, RefundStale,
                ExpireStale, CronDies, CleanupSlots, queueVars
  <2>3. QED
    BY <2>2 DEF TypeOK, QueueTypeOK, BullRecord, Removed
<1>3. ModelChosen'
  BY <1>1, <1>2, StillChosen DEF Pending
<1>4. ASSUME NEW j \in Jobs, ExpireStale(j)
      PROVE  SlotInv'
  <2>1. ReleaseSlot(j) /\ result' = [result EXCEPT ![j] = "expired"]
    BY <1>4 DEF ExpireStale
  <2>2. result'[j] # "none" /\ \A i \in Jobs : result'[i] = "none" => result[i] = "none"
    BY <2>1 DEF TypeOK, StoreTypeOK
  <2>3. QED
    BY <1>1, <1>3, <2>1, <2>2, GiveBack
<1>5. ASSUME NEW u \in Users, CleanupSlots(u)
      PROVE  SlotInv'
  <2>1. DropExpiredSlots(u) /\ UNCHANGED result
    BY <1>5 DEF CleanupSlots, DropExpiredSlots
  <2>2. QED
    BY <1>1, <1>3, <2>1, Cleanup
<1>6. CASE \/ BeginExpiry \/ EndExpiry \/ CronDies \/ (\E t \in Types : ScanQueue(t))
           \/ \E j \in Jobs : ReadStale(j) \/ RemoveStale(j) \/ RefundStale(j)
  <2>1. UNCHANGED <<slots, result>>
    BY <1>6 DEF BeginExpiry, EndExpiry, CronDies, ScanQueue, ReadStale, RemoveStale,
                RefundStale, storeVars
  <2>2. QED
    BY <1>1, <1>3, <2>1, Quiet
<1>7. QED
  BY <1>4, <1>5, <1>6 DEF ExpiryStep

\* Time lets slots expire and gives none.
LEMMA EnvironmentSlots ==
    ASSUME TypeOK, SlotInv,
           Midnight \/ (\E j \in Jobs : Age(j)) \/ \E m \in Models : MinuteElapses(m)
    PROVE  SlotInv'
<1>1. UNCHANGED <<slots, result, sub, bull>>
  BY DEF Midnight, Age, MinuteElapses, EnvFrame, storeVars, queueVars
<1>2. \A j \in Jobs : age[j] \in Nat /\ age'[j] \in Nat /\ age[j] <= age'[j]
  BY DEF TypeOK, EnvTypeOK, Ages, Midnight, Age, MinuteElapses, envVars
<1>3. ModelChosen'
  BY <1>1, StillChosen DEF Pending
<1>4. \A u \in Users : Unexpired(u)' \subseteq Unexpired(u)
  BY <1>1, <1>2 DEF TypeOK, StoreTypeOK, Unexpired
<1>5. \A j \in Jobs : Unsettled(j)' =>
         Unsettled(j) /\ (j \in slots[UserOf[j]] => j \in slots'[UserOf[j]])
  BY <1>1, <1>2 DEF Unsettled
<1>6. QED
  BY <1>3, <1>4, <1>5, Shrink

-----------------------------------------------------------------------------
\* Nobody has a slot or a model initially.
LEMMA InitSlots == Init => SlotInv
<1> SUFFICES ASSUME Init PROVE SlotInv
  OBVIOUS
<1>1. HeldWithinLimit
  <2>1. \A u \in Users : Unexpired(u) = {}
    BY DEF Init, StoreInit, Unexpired
  <2>2. \A u \in Users : Cardinality(Unexpired(u)) = 0 /\ ConcurrencyLimit[u] \in Nat
    BY <2>1, FS_EmptySet, LimitsAssumption
  <2>3. QED
    BY <2>2 DEF HeldWithinLimit
<1>2. UnsettledHoldsSlot
  BY DEF Init, SubmissionInit, UnsettledHoldsSlot, Unsettled
<1>3. ModelChosen
  BY DEF Init, SubmissionInit, QueueInit, ModelChosen, Pending
<1>4. QED
  BY <1>1, <1>2, <1>3 DEF SlotInv

\* SlotInv is inductive relative to the types and to the order of the pipelines.
LEMMA NextSlots == TypeOK /\ SlotInv /\ ResultFirst /\ [Next]_vars => SlotInv'
<1> SUFFICES ASSUME TypeOK, SlotInv, ResultFirst, [Next]_vars PROVE SlotInv'
  OBVIOUS
<1>1. ASSUME NEW j \in Jobs,
             SubmissionStep(j) \/ EnqueueFails(j) \/ WebDies(j)
      PROVE  SlotInv'
  BY <1>1, SubmissionSlots
<1>2. ASSUME NEW j \in Jobs, PromoteDelayed(j) \/ RecoverStalled(j) \/ LoseLock(j)
      PROVE  SlotInv'
  BY <1>2, QueueSlots
<1>3. ASSUME NEW p \in Procs, NEW j \in Jobs,
             Fetch(p, j) \/ HandlerStep(p, j) \/ HandlerFault(p, j)
      PROVE  SlotInv'
  BY <1>3, WorkerSlots
<1>4. ASSUME NEW p \in Procs, NEW j \in Jobs,
             FailedEventsStep(p, j) \/ FailureLoses(p, j)
      PROVE  SlotInv'
  BY <1>4, FailedEventsSlots
<1>5. ASSUME NEW p \in Procs,
             Crash(p) \/ Shutdown(p) \/ Restart(p) \/ \E j \in Jobs : ListenerRejects(p, j)
      PROVE  SlotInv'
  BY <1>5, ProcessSlots
<1>6. CASE ExpiryStep \/ CronDies \/ \E u \in Users : CleanupSlots(u)
  BY <1>6, CronSlots
<1>7. CASE Midnight \/ (\E j \in Jobs : Age(j)) \/ \E m \in Models : MinuteElapses(m)
  BY <1>7, EnvironmentSlots
<1>8. CASE Rest \/ UNCHANGED vars
  <2>1. UNCHANGED <<slots, result, age, sub, bull>>
    BY <1>8 DEF Rest, vars, storeVars, queueVars, envVars
  <2>2. ModelChosen'
    BY <2>1, StillChosen DEF Pending
  <2>3. QED
    BY <2>1, <2>2, Quiet
<1>9. QED
  BY <1>1, <1>2, <1>3, <1>4, <1>5, <1>6, <1>7, <1>8 DEF Next

-----------------------------------------------------------------------------
(* The order of the pipelines, as long as none of their commands fails.    *)

\* No pipeline has begun.
LEMMA InitResultFirst == Init => ResultFirst
BY DEF Init, WorkerInit, FailedEventsInit, ResultFirst, At

\* A step that takes no result away and brings no pipeline past its HSET of the result.
LEMMA OrderKept ==
    ASSUME ResultFirst,
           \A j \in Jobs : result'[j] = "none" => result[j] = "none",
           \A p \in Procs, j \in Jobs :
               /\ wpc'[p][j] = "release" => wpc[p][j] = "release"
               /\ hpc'[p][j] \in {"mark", "release"} => hpc[p][j] \in {"mark", "release"}
    PROVE  ResultFirst'
BY DEF ResultFirst, At

\* The handlers write the result before they come to the slot.
LEMMA HandlerOrder ==
    ASSUME TypeOK, ResultFirst, "redis" \notin Environment, NEW p \in Procs, NEW j \in Jobs,
           \/ Fetch(p, j) \/ HandlerStep(p, j) \/ HandlerFault(p, j)
           \/ FailedEventsStep(p, j) \/ FailureLoses(p, j)
    PROVE  ResultFirst'
<1> USE DEF TypeOK, StoreTypeOK, WorkerTypeOK, FailedEventsTypeOK
<1>1. CASE StoreAnswer(p, j)
  BY <1>1 DEF StoreAnswer, Goto, WorkerFrame, handlerVars, ResultFirst, At
<1>2. CASE WriteFailure(p, j)
  BY <1>2 DEF WriteFailure, FailedEventsFrame, workerVars, ResultFirst, At
<1>3. CASE MarkFailure(p, j)
  BY <1>3 DEF MarkFailure, FailedEventsFrame, workerVars, ResultFirst, At
<1>4. CASE ReleaseFailedSlot(p, j)
  <2>1. /\ UNCHANGED <<result, wpc>> /\ AfterPipeline(p, j) \notin {"mark", "release"}
        /\ hpc' = [hpc EXCEPT ![p][j] = AfterPipeline(p, j)]
    BY <1>4 DEF ReleaseFailedSlot, AfterPipeline, FailedEventsFrame, workerVars
  <2>2. QED
    BY <2>1, OrderKept
<1>5. CASE OnFailed(p, j) \/ GiveTokensBack(p, j) \/ LeaveAfterFailure(p, j)
  <2>1. UNCHANGED <<result, wpc>>
    BY <1>5 DEF OnFailed, GiveTokensBack, LeaveAfterFailure, FailedEventsFrame, workerVars,
                storeVars
  <2>2. PICK pc \in {"idle", "refund", "write"} : hpc' = [hpc EXCEPT ![p][j] = pc]
    BY <1>5 DEF OnFailed, GiveTokensBack, LeaveAfterFailure
  <2>3. QED
    BY <2>1, <2>2, OrderKept
<1>6. CASE Fetch(p, j) \/ (HandlerStep(p, j) /\ ~StoreAnswer(p, j))
  <2>1. UNCHANGED <<result, hpc>>
    BY <1>6 DEF Fetch, HandlerStep, ReadMeta, MarkInProgress, TakeTokens, HitMinuteLimit,
                HitDayLimit, Refused, FlagTokens, Requeue, DelayJob, ReachProvider,
                CallProvider, NoApiName, ProviderReached, FinalizeMeta, ReleaseOwnSlot,
                LeaveBacklog, Return, Throw, OnlyMeta, WorkerFrame, handlerVars, storeVars
  <2>2. PICK pc \in WorkerPcs \ {"release"} : Goto(p, j, pc)
    BY <1>6 DEF Fetch, HandlerStep, ReadMeta, MarkInProgress, TakeTokens, HitMinuteLimit,
                HitDayLimit, Refused, FlagTokens, Requeue, DelayJob, ReachProvider,
                CallProvider, NoApiName, ProviderReached, FinalizeMeta, ReleaseOwnSlot,
                LeaveBacklog, Return, Throw, WorkerPcs
  <2>3. QED
    BY <2>1, <2>2, OrderKept DEF Goto
<1>7. ~HandlerFault(p, j) /\ ~FailureLoses(p, j)
  BY DEF HandlerFault, RedisFails, ReplyLost, FinalizeLoses, FailureLoses, Fault
<1>8. QED
  BY <1>1, <1>2, <1>3, <1>4, <1>5, <1>6, <1>7 DEF FailedEventsStep

\* Nobody else touches a pipeline but by ending it.
LEMMA NextResultFirst ==
    ASSUME "redis" \notin Environment
    PROVE  TypeOK /\ ResultFirst /\ [Next]_vars => ResultFirst'
<1> SUFFICES ASSUME TypeOK, ResultFirst, [Next]_vars PROVE ResultFirst'
  OBVIOUS
<1>1. ASSUME NEW p \in Procs, NEW j \in Jobs,
             \/ Fetch(p, j) \/ HandlerStep(p, j) \/ HandlerFault(p, j)
             \/ FailedEventsStep(p, j) \/ FailureLoses(p, j)
      PROVE  ResultFirst'
  BY <1>1, HandlerOrder
<1>2. CASE \E j \in Jobs : \/ SubmissionStep(j) \/ EnqueueFails(j) \/ WebDies(j)
                           \/ PromoteDelayed(j) \/ RecoverStalled(j) \/ LoseLock(j)
                           \/ Age(j)
  <2>1. UNCHANGED <<result, wpc, hpc>>
    BY <1>2 DEF SubmissionStep, StartSubmission, SkipUnloaded, AcquireCandidate,
                SkipExhausted, RefuseUser, NoModelLeft, CountWaiting, UndoWaiting, AddJob,
                PutMeta, UndoEnqueue, EnqueueFails, WebDies, SubmissionFrame,
                PromoteDelayed, RecoverStalled, LoseLock, QueueFrame, Age, EnvFrame,
                storeVars, workerVars, handlerVars
  <2>2. QED
    BY <2>1, OrderKept
<1>3. CASE \/ Midnight \/ (\E m \in Models : MinuteElapses(m))
           \/ Rest \/ UNCHANGED vars
  <2>1. UNCHANGED <<result, wpc, hpc>>
    BY <1>3 DEF Midnight, MinuteElapses, Rest, vars, storeVars, workerVars, handlerVars
  <2>2. QED
    BY <2>1, OrderKept
<1>4. CASE ExpiryStep \/ CronDies \/ \E u \in Users : CleanupSlots(u)
  <2>1. UNCHANGED <<wpc, hpc>>
    BY <1>4 DEF ExpiryStep, BeginExpiry, EndExpiry, ScanQueue, ReadStale, RemoveStale,
                RefundStale, ExpireStale, CronDies, CleanupSlots, CronFrame, workerVars,
                handlerVars
  <2>2. result' = result \/ \E j \in Jobs : result' = [result EXCEPT ![j] = "expired"]
    BY <1>4 DEF ExpiryStep, BeginExpiry, EndExpiry, ScanQueue, ReadStale, RemoveStale,
                RefundStale, ExpireStale, CronDies, CleanupSlots, storeVars
  <2>3. \A j \in Jobs : result'[j] = "none" => result[j] = "none"
    BY <2>2 DEF TypeOK, StoreTypeOK
  <2>4. QED
    BY <2>1, <2>3, OrderKept
<1>5. ASSUME NEW p \in Procs,
             Crash(p) \/ Shutdown(p) \/ Restart(p) \/ \E j \in Jobs : ListenerRejects(p, j)
      PROVE  ResultFirst'
  <2>1. UNCHANGED result
    BY <1>5 DEF Crash, Shutdown, ListenerRejects, Restart, Gone, storeVars
  <2>2. \A q \in Procs, j \in Jobs :
           /\ wpc'[q][j] = wpc[q][j] \/ wpc'[q][j] = "idle"
           /\ hpc'[q][j] = hpc[q][j] \/ hpc'[q][j] = "idle"
    <3>1. CASE Restart(p)
      BY <3>1 DEF Restart, workerVars, handlerVars
    <3>2. CASE Gone(p)
      BY <3>2 DEF Gone, TypeOK, WorkerTypeOK, FailedEventsTypeOK
    <3>3. QED
      BY <1>5, <3>1, <3>2 DEF Crash, Shutdown, ListenerRejects
  <2>3. QED
    BY <2>1, <2>2, OrderKept
<1>6. QED
  BY <1>1, <1>2, <1>3, <1>4, <1>5 DEF Next

\* The live jobs of a user are among the slots the script counts.
LEMMA SlotsCoverLiveJobs == TypeOK /\ SlotInv => ConcurrencyWithinLimit
<1> SUFFICES ASSUME TypeOK, SlotInv, NEW u \in Users, ConcurrencyLimit[u] > 0
             PROVE  Cardinality({j \in Jobs : UserOf[j] = u /\ Live(j)})
                       <= ConcurrencyLimit[u]
  BY DEF ConcurrencyWithinLimit
<1> DEFINE L == {j \in Jobs : UserOf[j] = u /\ Live(j)}
<1>1. L \subseteq Unexpired(u)
  BY DEF SlotInv, ModelChosen, UnsettledHoldsSlot, Unsettled, Unexpired, Live
<1>2. IsFiniteSet(Unexpired(u)) /\ Cardinality(Unexpired(u)) <= ConcurrencyLimit[u]
  BY UnexpiredFinite DEF SlotInv, HeldWithinLimit
<1> HIDE DEF L
<1>3. IsFiniteSet(L) /\ Cardinality(L) <= Cardinality(Unexpired(u))
  BY <1>1, <1>2, FS_Subset
<1>4. Cardinality(L) \in Nat /\ Cardinality(Unexpired(u)) \in Nat
  BY <1>2, <1>3, FS_CardinalityType
<1>5. Cardinality(L) <= ConcurrencyLimit[u]
  BY <1>2, <1>3, <1>4, LimitsAssumption
<1>6. QED
  BY <1>5 DEF L

\* A user's live jobs never exceed max_concurrency: whatever crashes, retries,
\* stalls, expiries and lost events happen, no second job gets past
\* combinedCheckAndAcquire.lua while the first holds the user's last slot, and no
\* slot is given back while its job can still run.  A command of a pipeline that fails
\* may leave the result unwritten and remove the slot, so no Redis command fails.
THEOREM ConcurrencyBounded ==
    ASSUME "redis" \notin Environment
    PROVE  Spec => []ConcurrencyWithinLimit
<1>1. TypeOK /\ SlotInv /\ ResultFirst /\ [Next]_vars => (TypeOK /\ SlotInv /\ ResultFirst)'
  BY NextType, NextSlots, NextResultFirst
<1>2. Init => TypeOK /\ SlotInv /\ ResultFirst
  BY InitType, InitSlots, InitResultFirst
<1>3. QED
  BY <1>1, <1>2, SlotsCoverLiveJobs, PTL DEF Spec
=============================================================================

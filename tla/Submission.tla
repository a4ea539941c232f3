----------------------------- MODULE Submission ---------------------------
(***************************************************************************)
(* POST /resume/analyze: prepareJobSubmission chooses a model and takes    *)
(* the user's slot and daily quota, the backlog of the model is counted,   *)
(* and enqueueJob adds the job to its queue and writes its metadata.  Each *)
(* await is a step; other submissions, workers and the cron run between.   *)
(*                                                                         *)
(* sub[j].pc says which await the handler of j stands at:                  *)
(*   idle      not submitted yet                                           *)
(*   select    in selectAvailableModel, at candidate number k              *)
(*   incr      the slot is taken, waiting has not been incremented         *)
(*   full      the backlog was too long, the DECR is to come               *)
(*   enqueue   queue.add and the meta MULTI are in flight                  *)
(*   undo      one of the two failed, the DECR of the catch is to come     *)
(*   accepted, rejected, error, dead   how the request ended               *)
(***************************************************************************)
EXTENDS BullQueue

SubmissionPcs == {"idle", "select", "incr", "full", "enqueue", "undo",
                  "accepted", "rejected", "error", "dead"}

\* add and put are the states of the two promises of enqueueJob.
SubmissionTypeOK ==
    sub \in [Jobs -> [pc: SubmissionPcs, k: Nat, day: Days,
                      model: Models \cup {NoModel},
                      add: {"pending", "done", "failed"},
                      put: {"pending", "done", "failed"}]]

SubmissionInit ==
    sub = [j \in Jobs |-> [pc |-> "idle", k |-> 1, day |-> 1, model |-> NoModel,
                           add |-> "pending", put |-> "pending"]]

\* The request is over: no further step of its handler will run.
Answered(j) == sub[j].pc \in {"accepted", "rejected", "error", "dead"}

\* What no step of a submission touches.
SubmissionFrame ==
    UNCHANGED <<result, rpm, rpd, events, up, workerVars, handlerVars, cron,
                age, day, historyVars>>

-----------------------------------------------------------------------------
\* prepareJobSubmission up to selectAvailableModel: todayPT is read once.
StartSubmission(j) ==
    /\ sub[j].pc = "idle"
    /\ sub' = [sub EXCEPT ![j] = [@ EXCEPT !.pc = "select", !.day = day]]
    /\ UNCHANGED <<meta, slots, userRpd, waiting, bull, faults>>
    /\ SubmissionFrame

Candidate(j) == Chain[TypeOf[j]][sub[j].k]
AtCandidate(j) == sub[j].pc = "select" /\ sub[j].k <= Len(Chain[TypeOf[j]])

\* "Check for deleted models from DB": the candidate has no limits hash.
SkipUnloaded(j) ==
    /\ AtCandidate(j)
    /\ Candidate(j) \notin LoadedModels
    /\ sub' = [sub EXCEPT ![j].k = @ + 1]
    /\ UNCHANGED <<meta, slots, userRpd, waiting, bull, faults>>
    /\ SubmissionFrame

\* What combinedCheckAndAcquire answers for the candidate.
AcquireVerdict(j) ==
    LET u == UserOf[j]  t == TypeOf[j]  m == Candidate(j)
    IN  AcquireCode(ConcurrencyLimit[u], Cardinality(Unexpired(u)),
                    UserDayLimit[u][t], userRpd[u][t][sub[j].day],
                    ModelRpd[m], rpd[m])

AtLoaded(j) == AtCandidate(j) /\ Candidate(j) \in LoadedModels

\* The script's cleanup, which happens even when it refuses.
DropExpiredSlots(u) == slots' = [slots EXCEPT ![u] = Unexpired(u)]

\* The script says OK: it takes a slot and a unit of the user's day, each only
\* when it is limited.
AcquireCandidate(j) ==
    LET u == UserOf[j]
        t == TypeOf[j]
        slot == IF ConcurrencyLimit[u] > 0 THEN {j} ELSE {}
        unit == IF UserDayLimit[u][t] > 0 THEN 1 ELSE 0
    IN  /\ AtLoaded(j) /\ AcquireVerdict(j) = "ok"
        /\ slots' = [slots EXCEPT ![u] = Unexpired(u) \cup slot]
        /\ userRpd' = [userRpd EXCEPT ![u][t][sub[j].day] = @ + unit]
        /\ sub' = [sub EXCEPT ![j] = [@ EXCEPT !.pc = "incr", !.model = Candidate(j)]]
        /\ UNCHANGED <<meta, waiting, bull, faults>>
        /\ SubmissionFrame

\* The model's day is used up: the next candidate is tried.
SkipExhausted(j) ==
    /\ AtLoaded(j) /\ AcquireVerdict(j) = "modelRpd"
    /\ DropExpiredSlots(UserOf[j])
    /\ sub' = [sub EXCEPT ![j].k = @ + 1]
    /\ UNCHANGED <<meta, userRpd, waiting, bull, faults>>
    /\ SubmissionFrame

\* The user is at a limit: CONCURRENCY_LIMIT or USER_RPD_LIMIT.
RefuseUser(j) ==
    /\ AtLoaded(j) /\ AcquireVerdict(j) \in {"concurrency", "userRpd"}
    /\ DropExpiredSlots(UserOf[j])
    /\ sub' = [sub EXCEPT ![j].pc = "rejected"]
    /\ UNCHANGED <<meta, userRpd, waiting, bull, faults>>
    /\ SubmissionFrame

\* Every candidate was skipped or exhausted: MODEL_LIMIT.
NoModelLeft(j) ==
    /\ sub[j].pc = "select" /\ sub[j].k > Len(Chain[TypeOf[j]])
    /\ sub' = [sub EXCEPT ![j].pc = "rejected"]
    /\ UNCHANGED <<meta, slots, userRpd, waiting, bull, faults>>
    /\ SubmissionFrame

-----------------------------------------------------------------------------
\* Mutant: the backlog check compares the count before the increment.
BacklogFullLate(m) == waiting[m] > MaxQueueLength[m]

\* waitingCount > maxQueueLength, on the value INCR returned.
BacklogFull(m) == waiting[m] + 1 > MaxQueueLength[m]

\* INCR of the backlog, and the check on the value it returns.
CountWaiting(j) ==
    LET m == sub[j].model
    IN  /\ sub[j].pc = "incr"
        /\ waiting' = [waiting EXCEPT ![m] = @ + 1]
        /\ sub' = [sub EXCEPT ![j].pc = IF BacklogFull(m) THEN "full" ELSE "enqueue"]
        /\ UNCHANGED <<meta, slots, userRpd, bull, faults>>
        /\ SubmissionFrame

\* QUEUE_FULL: the plain DECR, and nothing else is given back.
UndoWaiting(j) ==
    /\ sub[j].pc = "full"
    /\ waiting' = [waiting EXCEPT ![sub[j].model] = @ - 1]
    /\ sub' = [sub EXCEPT ![j].pc = "rejected"]
    /\ UNCHANGED <<meta, slots, userRpd, bull, faults>>
    /\ SubmissionFrame

-----------------------------------------------------------------------------
\* The handler awaits both promises of enqueueJob, and fails with the first
\* that fails; the other still takes effect.
InFlight(j) == sub[j].pc \in {"enqueue", "undo", "error"}
Joined(j, other) ==
    IF sub[j].pc = "enqueue" /\ other = "done" THEN "accepted" ELSE sub[j].pc

\* queue.add succeeds.
AddJob(j) ==
    /\ InFlight(j) /\ sub[j].add = "pending"
    /\ Enqueued(j)
    /\ sub' = [sub EXCEPT ![j] = [@ EXCEPT !.add = "done",
                                            !.pc = Joined(j, sub[j].put)]]
    /\ UNCHANGED <<meta, slots, userRpd, waiting, faults>>
    /\ SubmissionFrame

\* The MULTI of HSET and EXPIRE on job:{id}:meta succeeds.
PutMeta(j) ==
    /\ InFlight(j) /\ sub[j].put = "pending"
    /\ meta' = [meta EXCEPT ![j] = [@ EXCEPT !.owner = TRUE, !.model = "id",
                                              !.status = "queued"]]
    /\ sub' = [sub EXCEPT ![j] = [@ EXCEPT !.put = "done",
                                            !.pc = Joined(j, sub[j].add)]]
    /\ UNCHANGED <<slots, userRpd, waiting, bull, faults>>
    /\ SubmissionFrame

\* One of the two promises rejects.
EnqueueFails(j) ==
    /\ sub[j].pc = "enqueue"
    /\ Fault("addFails")
    /\ \/ /\ sub[j].add = "pending"
          /\ sub' = [sub EXCEPT ![j] = [@ EXCEPT !.add = "failed", !.pc = "undo"]]
       \/ /\ sub[j].put = "pending"
          /\ sub' = [sub EXCEPT ![j] = [@ EXCEPT !.put = "failed", !.pc = "undo"]]
    /\ UNCHANGED <<meta, slots, userRpd, waiting, bull>>
    /\ SubmissionFrame

\* The catch of enqueueJob: a plain DECR, then the error reaches the client.
UndoEnqueue(j) ==
    /\ sub[j].pc = "undo"
    /\ waiting' = [waiting EXCEPT ![sub[j].model] = @ - 1]
    /\ sub' = [sub EXCEPT ![j].pc = "error"]
    /\ UNCHANGED <<meta, slots, userRpd, bull, faults>>
    /\ SubmissionFrame

\* The web process dies before it has answered.
WebDies(j) ==
    /\ sub[j].pc # "idle" /\ ~Answered(j)
    /\ Fault("webDies")
    /\ sub' = [sub EXCEPT ![j].pc = "dead"]
    /\ UNCHANGED <<meta, slots, userRpd, waiting, bull>>
    /\ SubmissionFrame

SubmissionStep(j) ==
    \/ StartSubmission(j) \/ SkipUnloaded(j) \/ AcquireCandidate(j)
    \/ SkipExhausted(j) \/ RefuseUser(j) \/ NoModelLeft(j)
    \/ CountWaiting(j) \/ UndoWaiting(j)
    \/ AddJob(j) \/ PutMeta(j) \/ UndoEnqueue(j)
=============================================================================

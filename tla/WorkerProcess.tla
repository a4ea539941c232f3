--------------------------- MODULE WorkerProcess ---------------------------
(***************************************************************************)
(* A worker process from boot to exit: the start sequence of               *)
(* worker/index.ts, the two BullMQ workers it runs, the refresh of their   *)
(* concurrency (worker/concurrencyManager.ts), the subscription to         *)
(* config:update, the admin endpoint that changes the configuration, and   *)
(* the shutdown on SIGTERM.  What a job does is the subject of             *)
(* WorkerPipeline; here a job only occupies a place of a worker.           *)
(***************************************************************************)
EXTENDS Naturals, FiniteSets

CONSTANTS
  Processes,     \* worker machines
  Types,         \* the queues: "hard" and "lite"
  Values,        \* the concurrencies an administrator may ask for
  Default,       \* DEFAULT_CONCURRENCY, per queue
  Backlog,       \* jobs waiting per queue at the beginning
  MaxChanges,    \* bound: requests to /admin/worker-concurrency
  MaxFaults,     \* bound: crashes and Redis errors
  MaxSignals     \* bound: SIGTERMs

ASSUME ValuesAssumption == Values \subseteq Nat \ {0}
ASSUME DefaultAssumption == Default \in [Types -> Nat \ {0}]
ASSUME BacklogAssumption == Backlog \in Nat
ASSUME BoundsAssumption ==
  MaxChanges \in Nat /\ MaxFaults \in Nat /\ MaxSignals \in Nat

VARIABLES
  config,     \* worker:concurrency:<queue> in Redis; 0: no such key
  admin,      \* the queue whose change is set and not yet published, or {}
  proc,       \* the state of each process
  waiting,    \* jobs waiting in each queue
  used        \* how much of each bound is used up

vars == <<config, admin, proc, waiting, used>>

Budget == [change |-> MaxChanges, fault |-> MaxFaults, signal |-> MaxSignals]

\* Spending one unit of a bound.
Use(kind) == used[kind] < Budget[kind] /\ used' = [used EXCEPT ![kind] = @ + 1]

\* Mutant: no default for a queue that was never configured.
WantedRaw(q) == config[q]

\* fetchConcurrencyConfig and parseConcurrency: an absent or unusable
\* value falls back to the default.
Wanted(q) == IF config[q] > 0 THEN config[q] ELSE Default[q]

\* A process: how far start() has come, what refreshConcurrency is doing,
\* the queues whose worker it is replacing, activeConcurrency, the BullMQ
\* worker of each queue with its concurrency and the jobs it runs, the
\* shutdown and the closes it still awaits.  Two history flags: "fresh",
\* the configuration has not changed since the subscription and no refresh
\* failed; "overlap", the signal found start() or a refresh unfinished.
Steps == {"down", "preflight", "init", "refresh", "subscribe", "done"}

Dead ==
  [start |-> "down", refresh |-> "idle", reloading |-> {}, active |-> Default,
   worker |-> [q \in Types |-> "none"], conc |-> Default,
   busy |-> [q \in Types |-> 0], stop |-> "no", awaiting |-> {},
   fresh |-> FALSE, overlap |-> FALSE]

Up(p) == proc[p].start # "down"

\* BullMQ hands the jobs of a process that is gone back to their queue.
Dies(p) ==
  /\ proc' = [proc EXCEPT ![p] = Dead]
  /\ waiting' = [q \in Types |-> waiting[q] + proc[p].busy[q]]

Init ==
  /\ config = [q \in Types |-> 0]
  /\ admin = {}
  /\ proc = [p \in Processes |-> Dead]
  /\ waiting = [q \in Types |-> Backlog]
  /\ used = [k \in {"change", "fault", "signal"} |-> 0]

-----------------------------------------------------------------------------
(* POST /admin/worker-concurrency: SET, then PUBLISH; one administrator    *)
(* at a time.                                                              *)

SetConcurrency(q, v) ==
  /\ admin = {}
  /\ Use("change")
  /\ config' = [config EXCEPT ![q] = v]
  /\ admin' = {q}
  /\ proc' = [p \in Processes |-> [proc[p] EXCEPT !.fresh = FALSE]]
  /\ UNCHANGED waiting

\* The message reaches every subscribed connection, and none has a
\* listener: the function given to subscribe() is the callback of the
\* SUBSCRIBE command itself and is called once, by Subscribed.
Publish ==
  /\ admin # {}
  /\ admin' = {}
  /\ UNCHANGED <<config, proc, waiting, used>>

-----------------------------------------------------------------------------
(* start().                                                                *)

Boot(p) ==
  /\ proc[p].start = "down"
  /\ proc' = [proc EXCEPT ![p].start = "preflight"]
  /\ UNCHANGED <<config, admin, waiting, used>>

\* waitForModelLimits returns; its readers and writers are in Configuration.
PreflightPasses(p) ==
  /\ proc[p].start = "preflight"
  /\ proc' = [proc EXCEPT ![p].start = "init"]
  /\ UNCHANGED <<config, admin, waiting, used>>

\* Mutant: start() does not await refreshConcurrency.
InitWorkersNoAwait(p) ==
  LET wanted == [q \in Types |-> Wanted(q)] IN
  /\ proc[p].start = "init"
  /\ proc' = [proc EXCEPT ![p].start = "subscribe", ![p].refresh = "fetch",
                          ![p].active = wanted, ![p].conc = wanted,
                          ![p].worker = [q \in Types |-> "running"]]
  /\ UNCHANGED <<config, admin, waiting, used>>

\* initWorkers, and the call of refreshConcurrency that follows.
InitWorkers(p) ==
  LET wanted == [q \in Types |-> Wanted(q)] IN
  /\ proc[p].start = "init"
  /\ proc' = [proc EXCEPT ![p].start = "refresh", ![p].refresh = "fetch",
                          ![p].active = wanted, ![p].conc = wanted,
                          ![p].worker = [q \in Types |-> "running"]]
  /\ UNCHANGED <<config, admin, waiting, used>>

\* start() is not guarded: the preflight's timeout or a Redis error in the
\* preflight or in initWorkers ends the process, and so does any crash.
Crash(p) ==
  /\ Up(p)
  /\ Use("fault")
  /\ Dies(p)
  /\ UNCHANGED <<config, admin>>

\* The callback of subscribe() runs when the command is answered, with or
\* without an error; refreshConcurrency returns at once when a refresh is
\* loading.
Subscribed(p) ==
  /\ proc[p].start = "subscribe"
  /\ proc' = [proc EXCEPT ![p].start = "done", ![p].fresh = TRUE,
                          ![p].refresh = IF @ = "idle" THEN "fetch" ELSE @]
  /\ UNCHANGED <<config, admin, waiting, used>>

-----------------------------------------------------------------------------
(* refreshConcurrency.                                                     *)

\* What follows the end of a refresh: start() goes on if it waits for it.
AfterRefresh(step) == IF step = "refresh" THEN "subscribe" ELSE step

\* The configuration is read.  activeConcurrency changes at once for each
\* queue that differs, and its worker starts to close.
Fetched(p) ==
  LET differ == {q \in Types : Wanted(q) # proc[p].active[q]} IN
  /\ proc[p].refresh = "fetch"
  /\ proc' = [proc EXCEPT
       ![p].active = [q \in Types |-> Wanted(q)],
       ![p].reloading = differ,
       ![p].worker = [q \in Types |-> IF q \in differ THEN "closing" ELSE @[q]],
       ![p].refresh = IF differ = {} THEN "idle" ELSE "close",
       ![p].start = IF differ = {} THEN AfterRefresh(@) ELSE @]
  /\ UNCHANGED <<config, admin, waiting, used>>

\* A Redis error is logged, and the refresh is over.
FetchFails(p) ==
  /\ proc[p].refresh = "fetch"
  /\ Use("fault")
  /\ proc' = [proc EXCEPT ![p].refresh = "idle", ![p].fresh = FALSE,
                          ![p].start = AfterRefresh(@)]
  /\ UNCHANGED <<config, admin, waiting>>

\* Mutant: reloadWorker does not await the close.
ClosedAtOnce(p, q) ==
  /\ proc[p].worker[q] = "closing" /\ proc[p].reloading = {q}
  /\ proc' = [proc EXCEPT ![p].worker[q] = "running",
                          ![p].conc[q] = proc[p].active[q],
                          ![p].reloading = {}, ![p].refresh = "idle",
                          ![p].start = AfterRefresh(@)]
  /\ UNCHANGED <<config, admin, waiting, used>>

\* Mutant: reloadWorker closes the old worker and creates no new one.
ClosedForGood(p, q) ==
  LET left == proc[p].reloading \ {q}
      over == q \in proc[p].reloading /\ left = {} IN
  /\ proc[p].worker[q] = "closing"
  /\ proc[p].busy[q] = 0
  /\ proc' = [proc EXCEPT
       ![p].worker[q] = "closed",
       ![p].reloading = left,
       ![p].refresh = IF over THEN "idle" ELSE @,
       ![p].start = IF over THEN AfterRefresh(@) ELSE @]
  /\ UNCHANGED <<config, admin, waiting, used>>

\* close() resolves when the last job of the worker is done.  Whoever
\* awaits it goes on: reloadWorker creates the next worker, and shutdown
\* counts it off.
Closed(p, q) ==
  LET r == proc[p]
      left == r.reloading \ {q}
      over == q \in r.reloading /\ left = {}
      awaiting == r.awaiting \ {q} IN
  /\ r.worker[q] = "closing"
  /\ r.busy[q] = 0
  /\ proc' = [proc EXCEPT ![p] = [r EXCEPT
       !.worker = [@ EXCEPT ![q] = IF q \in r.reloading THEN "running" ELSE "closed"],
       !.conc = [@ EXCEPT ![q] = IF q \in r.reloading THEN r.active[q] ELSE r.conc[q]],
       !.reloading = left,
       !.refresh = IF over THEN "idle" ELSE @,
       !.start = IF over THEN AfterRefresh(@) ELSE @,
       !.awaiting = awaiting,
       !.stop = IF @ = "closing" /\ awaiting = {} THEN "quitting" ELSE @]]
  /\ UNCHANGED <<config, admin, waiting, used>>

-----------------------------------------------------------------------------
(* The BullMQ workers.                                                     *)

TakeJob(p, q) ==
  /\ proc[p].worker[q] = "running"
  /\ proc[p].busy[q] < proc[p].conc[q]
  /\ waiting[q] > 0
  /\ waiting' = [waiting EXCEPT ![q] = @ - 1]
  /\ proc' = [proc EXCEPT ![p].busy[q] = @ + 1]
  /\ UNCHANGED <<config, admin, used>>

FinishJob(p, q) ==
  /\ proc[p].busy[q] > 0
  /\ proc' = [proc EXCEPT ![p].busy[q] = @ - 1]
  /\ UNCHANGED <<config, admin, waiting, used>>

-----------------------------------------------------------------------------
(* shutdown().                                                             *)

\* Mutant: shutdown awaits the close of one of the workers.
SignalAwaitsOne(p) ==
  /\ proc[p].start = "done" /\ proc[p].stop = "no"
  /\ Use("signal")
  /\ proc' = [proc EXCEPT
       ![p].stop = "closing", ![p].awaiting = {CHOOSE q \in Types : TRUE},
       ![p].worker = [q \in Types |-> "closing"],
       ![p].overlap = proc[p].refresh # "idle"]
  /\ UNCHANGED <<config, admin, waiting>>

\* workers is unassigned until initWorkers has returned: the handler then
\* throws and the process ends.  Otherwise both workers start to close.
Signal(p) ==
  /\ Up(p)
  /\ proc[p].stop = "no"
  /\ Use("signal")
  /\ IF proc[p].start \in {"preflight", "init"}
     THEN Dies(p)
     ELSE /\ proc' = [proc EXCEPT
               ![p].stop = "closing", ![p].awaiting = Types,
               ![p].worker = [q \in Types |-> "closing"],
               ![p].overlap = proc[p].start # "done" \/ proc[p].refresh # "idle"]
          /\ UNCHANGED waiting
  /\ UNCHANGED <<config, admin>>

\* The queues and the connections are closed, then process.exit(0).
Exit(p) ==
  /\ proc[p].stop = "quitting"
  /\ Dies(p)
  /\ UNCHANGED <<config, admin, used>>

-----------------------------------------------------------------------------

Next ==
  \/ \E q \in Types, v \in Values : SetConcurrency(q, v)
  \/ Publish
  \/ \E p \in Processes :
       \/ Boot(p) \/ PreflightPasses(p) \/ InitWorkers(p) \/ Subscribed(p)
       \/ Fetched(p) \/ FetchFails(p)
       \/ Crash(p) \/ Signal(p) \/ Exit(p)
       \/ \E q \in Types : Closed(p, q) \/ TakeJob(p, q) \/ FinishJob(p, q)

\* A process that is up runs on, the platform restarts one that is down,
\* and a job ends.  Nothing makes an administrator, a fault or a signal
\* happen.
Fairness ==
  /\ WF_vars(Publish)
  /\ \A p \in Processes :
       /\ WF_vars(Boot(p)) /\ WF_vars(PreflightPasses(p))
       /\ WF_vars(InitWorkers(p)) /\ WF_vars(Subscribed(p))
       /\ WF_vars(Fetched(p)) /\ WF_vars(Exit(p))
       /\ \A q \in Types :
            /\ WF_vars(Closed(p, q)) /\ WF_vars(TakeJob(p, q))
            /\ WF_vars(FinishJob(p, q))

Spec == Init /\ [][Next]_vars
FairSpec == Spec /\ Fairness

-----------------------------------------------------------------------------
(* Properties.                                                             *)

Concurrencies == Values \cup {Default[q] : q \in Types}

\* Every variable has its type.
TypeOK ==
  /\ config \in [Types -> Values \cup {0}]
  /\ admin \in SUBSET Types
  /\ waiting \in [Types -> Nat]
  /\ used \in [{"change", "fault", "signal"} -> Nat]
  /\ proc \in [Processes ->
       [start : Steps, refresh : {"idle", "fetch", "close"},
        reloading : SUBSET Types, active : [Types -> Concurrencies],
        worker : [Types -> {"none", "running", "closing", "closed"}],
        conc : [Types -> Concurrencies], busy : [Types -> Nat],
        stop : {"no", "closing", "quitting"}, awaiting : SUBSET Types,
        fresh : BOOLEAN, overlap : BOOLEAN]]

\* A process never runs more jobs of a queue than the concurrency of its
\* present worker allows, however the replacement of a worker interleaves
\* with the jobs of the old one (reloadWorker awaits the close).
WithinConcurrency ==
  \A p \in Processes, q \in Types : proc[p].busy[q] <= proc[p].conc[q]

\* When no refresh is running, a process whose subscription came after the
\* last change of the configuration runs its workers with it: the refresh
\* in the subscription's callback is never dropped by isConcurrencyLoading,
\* and no reload ends on an older value.
UpToDateWhenSubscribed ==
  \A p \in Processes :
    (proc[p].fresh /\ proc[p].refresh = "idle")
      => \A q \in Types : proc[p].conc[q] = Wanted(q)

\* A shutdown that does not overlap with a refresh lets every job finish
\* before the connections close (README: finish active work).
CleanExit ==
  \A p \in Processes :
    (proc[p].stop = "quitting" /\ ~proc[p].overlap)
      => \A q \in Types : proc[p].busy[q] = 0

\* Reloads, restarts and shutdowns never leave a queue without a worker
\* for good: every waiting job is run.
EveryJobRuns ==
  <>[](\A q \in Types : waiting[q] = 0 /\ \A p \in Processes : proc[p].busy[q] = 0)

\* README.md:104, Architecture.md:68: the workers follow config:update
\* without a restart.  Once the administrators are done, every process
\* comes to run with the configuration they set.
HotReload ==
  <>[](\A p \in Processes, q \in Types : proc[p].conc[q] = Wanted(q))
=============================================================================

------------------------- MODULE WorkerProcessProofs -------------------------
(***************************************************************************)
(* A worker process is never over its concurrency, runs with the           *)
(* configuration it subscribed after, and exits without a job in hand, for *)
(* any number of processes, queues and configured values.                  *)
(*                                                                         *)
(* What the three rest on is one description of a process: before          *)
(* initWorkers there is no worker; reloadWorker is under way exactly while *)
(* a refresh closes something, and whatever it is not replacing runs with  *)
(* activeConcurrency; and a shutdown that met no refresh leaves nobody to  *)
(* open a worker that it closes.                                           *)
(***************************************************************************)
EXTENDS WorkerProcess, TLAPS

Process ==
  [start : Steps, refresh : {"idle", "fetch", "close"},
   reloading : SUBSET Types, active : [Types -> Concurrencies],
   worker : [Types -> {"none", "running", "closing", "closed"}],
   conc : [Types -> Concurrencies], busy : [Types -> Nat],
   stop : {"no", "closing", "quitting"}, awaiting : SUBSET Types,
   fresh : BOOLEAN, overlap : BOOLEAN]

\* No worker before initWorkers, and nothing that could make one.
NoneBefore(r) ==
  r.start \in {"down", "preflight", "init"} =>
    /\ r.refresh = "idle" /\ r.stop = "no" /\ ~r.fresh
    /\ \A q \in Types : r.worker[q] = "none" /\ r.busy[q] = 0

\* A worker is replaced by a refresh only, and a refresh that start() awaits
\* is over when it subscribes.
ReplacedByRefresh(r) ==
  /\ r.reloading # {} <=> r.refresh = "close"
  /\ r.start = "subscribe" => r.refresh = "idle"

\* What is not being replaced runs with activeConcurrency.
ActiveRuns(r) ==
  r.start \notin {"down", "preflight", "init"} =>
    \A q \in Types \ r.reloading : r.conc[q] = r.active[q]

\* activeConcurrency is what a fresh process has read.
ActiveFresh(r) ==
  r.fresh /\ r.refresh # "fetch" => \A q \in Types : r.active[q] = Wanted(q)

\* A shutdown that met no refresh: what it no longer awaits is closed.
ClosesAll(r) ==
  r.stop # "no" /\ ~r.overlap =>
    /\ r.start = "done" /\ r.refresh = "idle"
    /\ \A q \in Types : r.worker[q] \in {"closing", "closed"}
    /\ \A q \in Types \ r.awaiting : r.worker[q] = "closed" /\ r.busy[q] = 0
    /\ r.stop = "quitting" => r.awaiting = {}

Within(r) == \A q \in Types : r.busy[q] <= r.conc[q]

Sound(r) ==
  /\ NoneBefore(r) /\ ReplacedByRefresh(r) /\ ActiveRuns(r) /\ ActiveFresh(r)
  /\ ClosesAll(r) /\ Within(r)

AllSound == \A p \in Processes : Sound(proc[p])

-----------------------------------------------------------------------------
(* Types.                                                                  *)

\* Every wanted concurrency is one of those that can be configured.
LEMMA WantedIsConcurrency ==
  ASSUME TypeOK
  PROVE  \A q \in Types : Wanted(q) \in Concurrencies
BY DEF TypeOK, Wanted, Concurrencies

\* Concurrencies are numbers.
LEMMA ConcurrenciesAreNumbers == Concurrencies \subseteq Nat
BY ValuesAssumption, DefaultAssumption DEF Concurrencies

\* A process that is down is a process.
LEMMA DeadIsProcess == Dead \in Process
BY DefaultAssumption DEF Dead, Process, Steps, Concurrencies

\* The type of one process.
LEMMA ProcessType ==
  ASSUME TypeOK, NEW p \in Processes
  PROVE  /\ proc[p] \in Process
         /\ proc \in [Processes -> Process]
BY DEF TypeOK, Process

\* A process that goes down hands its jobs back.
LEMMA DiesTyped ==
  ASSUME TypeOK, NEW p \in Processes, Dies(p)
  PROVE  /\ proc' \in [Processes -> Process]
         /\ waiting' \in [Types -> Nat]
<1>1. proc[p] \in Process /\ proc \in [Processes -> Process]
  BY ProcessType
<1>2. proc' \in [Processes -> Process]
  BY <1>1, DeadIsProcess DEF Dies
<1>3. proc[p].busy \in [Types -> Nat] /\ waiting \in [Types -> Nat]
  BY <1>1 DEF Process, TypeOK
<1>4. QED
  BY <1>2, <1>3 DEF Dies

\* Spending a unit of a bound keeps the counters numbers.
LEMMA UseTyped ==
  ASSUME TypeOK, NEW k \in {"change", "fault", "signal"}, Use(k)
  PROVE  used' \in [{"change", "fault", "signal"} -> Nat]
BY DEF TypeOK, Use

\* start(), refreshConcurrency and shutdown keep the type of their process.
LEMMA ProcessTyped ==
  ASSUME TypeOK, NEW p \in Processes,
         \/ Boot(p) \/ PreflightPasses(p) \/ InitWorkers(p) \/ Subscribed(p)
         \/ Fetched(p) \/ FetchFails(p)
         \/ \E q \in Types : Closed(p, q) \/ TakeJob(p, q) \/ FinishJob(p, q)
  PROVE  proc' \in [Processes -> Process]
<1> DEFINE r == proc[p]
<1>1. r \in Process /\ proc \in [Processes -> Process]
  BY ProcessType
<1>2. [q \in Types |-> Wanted(q)] \in [Types -> Concurrencies]
  BY WantedIsConcurrency
<1>3. CASE Boot(p) \/ PreflightPasses(p)
  <2>1. PICK s \in {"preflight", "init"} : proc' = [proc EXCEPT ![p].start = s]
    BY <1>3 DEF Boot, PreflightPasses
  <2>2. QED
    BY <1>1, <2>1 DEF Process, Steps
<1>4. CASE InitWorkers(p)
  <2> DEFINE wanted == [q \in Types |-> Wanted(q)]
             w == [q \in Types |-> "running"]
  <2>1. proc' = [proc EXCEPT ![p] =
          [r EXCEPT !.start = "refresh", !.refresh = "fetch", !.active = wanted,
                    !.conc = wanted, !.worker = w]]
    BY <1>1, <1>4 DEF InitWorkers, Process
  <2>2. w \in [Types -> {"none", "running", "closing", "closed"}]
    OBVIOUS
  <2> HIDE DEF wanted, w
  <2>3. wanted \in [Types -> Concurrencies]
    BY <1>2 DEF wanted
  <2>4. QED
    BY <1>1, <2>1, <2>2, <2>3 DEF Process, Steps
<1>5. CASE Subscribed(p)
  BY <1>1, <1>5 DEF Subscribed, Process, Steps
<1>6. CASE Fetched(p)
  <2> DEFINE differ == {q \in Types : Wanted(q) # r.active[q]}
             w == [q \in Types |-> IF q \in differ THEN "closing" ELSE r.worker[q]]
  <2>1. w \in [Types -> {"none", "running", "closing", "closed"}]
    BY <1>1 DEF Process
  <2>2. AfterRefresh(r.start) \in Steps
    BY <1>1 DEF AfterRefresh, Process, Steps
  <2>3. proc' = [proc EXCEPT ![p] =
          [r EXCEPT !.active = [q \in Types |-> Wanted(q)], !.reloading = differ,
                    !.worker = w,
                    !.refresh = IF differ = {} THEN "idle" ELSE "close",
                    !.start = IF differ = {} THEN AfterRefresh(r.start) ELSE r.start]]
    BY <1>1, <1>6 DEF Fetched, Process
  <2> HIDE DEF differ, w
  <2>4. differ \in SUBSET Types
    BY DEF differ
  <2>5. QED
    BY <1>1, <1>2, <2>1, <2>2, <2>3, <2>4 DEF Process
<1>7. CASE FetchFails(p)
  BY <1>1, <1>7 DEF FetchFails, Process, AfterRefresh, Steps
<1>8. ASSUME NEW q \in Types, Closed(p, q)
      PROVE  proc' \in [Processes -> Process]
  <2> DEFINE left == r.reloading \ {q}
             over == q \in r.reloading /\ left = {}
             awaiting == r.awaiting \ {q}
             w == [r.worker EXCEPT ![q] =
                     IF q \in r.reloading THEN "running" ELSE "closed"]
             c == [r.conc EXCEPT ![q] =
                     IF q \in r.reloading THEN r.active[q] ELSE r.conc[q]]
  <2>1. w \in [Types -> {"none", "running", "closing", "closed"}]
        /\ c \in [Types -> Concurrencies]
    BY <1>1 DEF Process
  <2>2. AfterRefresh(r.start) \in Steps
    BY <1>1 DEF AfterRefresh, Process, Steps
  <2>3. left \in SUBSET Types /\ awaiting \in SUBSET Types
    BY <1>1 DEF Process
  <2> DEFINE refresh == IF over THEN "idle" ELSE r.refresh
             start == IF over THEN AfterRefresh(r.start) ELSE r.start
             stop == IF r.stop = "closing" /\ awaiting = {} THEN "quitting" ELSE r.stop
             next == [r EXCEPT !.worker = w, !.conc = c, !.reloading = left,
                               !.refresh = refresh, !.start = start,
                               !.awaiting = awaiting, !.stop = stop]
  <2>4. proc' = [proc EXCEPT ![p] = next]
    BY <1>8, Zenon DEF Closed
  <2>5. refresh \in {"idle", "fetch", "close"} /\ start \in Steps
        /\ stop \in {"no", "closing", "quitting"}
    BY <1>1, <2>2 DEF Process
  <2> HIDE DEF w, c, left, awaiting, over, refresh, start, stop
  <2>6. next \in Process
    BY <1>1, <2>1, <2>3, <2>5 DEF Process
  <2>7. QED
    BY <1>1, <2>4, <2>6
<1>9. ASSUME NEW q \in Types, TakeJob(p, q) \/ FinishJob(p, q)
      PROVE  proc' \in [Processes -> Process]
  <2> DEFINE b == proc'[p].busy
  <2>1. proc' = [proc EXCEPT ![p] = [r EXCEPT !.busy = b]]
    BY <1>1, <1>9 DEF TakeJob, FinishJob, Process
  <2>2. \/ b = [r.busy EXCEPT ![q] = @ + 1]
        \/ b = [r.busy EXCEPT ![q] = @ - 1] /\ r.busy[q] > 0
    BY <1>1, <1>9 DEF TakeJob, FinishJob, Process
  <2>3. r.busy \in [Types -> Nat]
    BY <1>1 DEF Process
  <2>4. b \in [Types -> Nat]
    BY <2>2, <2>3
  <2> HIDE DEF b
  <2>5. QED
    BY <1>1, <2>1, <2>4 DEF Process
<1>10. QED
  BY <1>3, <1>4, <1>5, <1>6, <1>7, <1>8, <1>9

\* A step of any part keeps the types.
LEMMA TypeStep == TypeOK /\ [Next]_vars => TypeOK'
<1> SUFFICES ASSUME TypeOK, [Next]_vars PROVE TypeOK'
  OBVIOUS
<1> SUFFICES /\ config' \in [Types -> Values \cup {0}] /\ admin' \in SUBSET Types
             /\ waiting' \in [Types -> Nat]
             /\ used' \in [{"change", "fault", "signal"} -> Nat]
             /\ proc' \in [Processes -> Process]
  BY DEF TypeOK, Process
<1>1. TypeOK /\ proc \in [Processes -> Process]
  BY DEF TypeOK, Process
<1>2. CASE UNCHANGED vars
  BY <1>1, <1>2 DEF vars, TypeOK
<1>3. ASSUME NEW q \in Types, NEW v \in Values, SetConcurrency(q, v)
      PROVE  TypeOK'
  <2>1. used' \in [{"change", "fault", "signal"} -> Nat]
    BY <1>3, UseTyped DEF SetConcurrency
  <2>2. proc' \in [Processes -> Process]
    <3>1. \A p \in Processes : [proc[p] EXCEPT !.fresh = FALSE] \in Process
      <4> SUFFICES ASSUME NEW p \in Processes
                   PROVE  [proc[p] EXCEPT !.fresh = FALSE] \in Process
        OBVIOUS
      <4>1. proc[p] \in Process
        BY <1>1
      <4>2. QED
        BY <4>1 DEF Process
    <3>2. QED
      BY <1>3, <3>1 DEF SetConcurrency
  <2>3. QED
    BY <1>1, <1>3, <2>1, <2>2 DEF SetConcurrency, TypeOK, Process
<1>4. CASE Publish
  BY <1>1, <1>4 DEF Publish, TypeOK
<1>5. ASSUME NEW p \in Processes,
             \/ Boot(p) \/ PreflightPasses(p) \/ InitWorkers(p) \/ Subscribed(p)
             \/ Fetched(p) \/ FetchFails(p)
             \/ \E q \in Types : Closed(p, q) \/ TakeJob(p, q) \/ FinishJob(p, q)
      PROVE  TypeOK'
  <2>1. proc' \in [Processes -> Process]
    BY <1>5, ProcessTyped
  <2>2. used' \in [{"change", "fault", "signal"} -> Nat]
    BY <1>1, <1>5, UseTyped DEF Boot, PreflightPasses, InitWorkers, Subscribed, Fetched,
       FetchFails, Closed, TakeJob, FinishJob, TypeOK
  <2>3. config' = config /\ admin' = admin
    BY <1>5 DEF Boot, PreflightPasses, InitWorkers, Subscribed, Fetched, FetchFails,
       Closed, TakeJob, FinishJob
  <2>4. waiting' \in [Types -> Nat]
    <3>1. CASE waiting' = waiting
      BY <1>1, <3>1 DEF TypeOK
    <3>2. ASSUME NEW q \in Types, TakeJob(p, q)
          PROVE  waiting' \in [Types -> Nat]
      BY <1>1, <3>2 DEF TakeJob, TypeOK
    <3>3. QED
      BY <1>5, <3>1, <3>2 DEF Boot, PreflightPasses, InitWorkers, Subscribed, Fetched,
         FetchFails, Closed, FinishJob
  <2>5. QED
    BY <1>1, <2>1, <2>2, <2>3, <2>4 DEF TypeOK, Process
<1>6. ASSUME NEW p \in Processes, Crash(p) \/ Exit(p)
      PROVE  TypeOK'
  BY <1>1, <1>6, UseTyped, DiesTyped DEF Crash, Exit, TypeOK, Process
<1>7. ASSUME NEW p \in Processes, Signal(p)
      PROVE  TypeOK'
  <2>1. used' \in [{"change", "fault", "signal"} -> Nat] /\ config' = config
        /\ admin' = admin
    BY <1>7, UseTyped DEF Signal
  <2>2. CASE Dies(p)
    BY <1>1, <2>1, <2>2, DiesTyped DEF TypeOK, Process
  <2>3. CASE ~Dies(p)
    <3>1. waiting' = waiting /\ proc' = [proc EXCEPT
            ![p].stop = "closing", ![p].awaiting = Types,
            ![p].worker = [q \in Types |-> "closing"],
            ![p].overlap = proc[p].start # "done" \/ proc[p].refresh # "idle"]
      BY <1>7, <2>3 DEF Signal
    <3>2. proc' \in [Processes -> Process]
      <4>1. [q \in Types |-> "closing"]
              \in [Types -> {"none", "running", "closing", "closed"}]
        OBVIOUS
      <4>2. proc' = [proc EXCEPT ![p] =
              [proc[p] EXCEPT !.stop = "closing", !.awaiting = Types,
                 !.worker = [q \in Types |-> "closing"],
                 !.overlap = proc[p].start # "done" \/ proc[p].refresh # "idle"]]
        BY <1>1, <3>1
      <4>3. proc[p] \in Process
        BY <1>1
      <4>4. [proc[p] EXCEPT !.stop = "closing", !.awaiting = Types,
                 !.worker = [q \in Types |-> "closing"],
                 !.overlap = proc[p].start # "done" \/ proc[p].refresh # "idle"]
              \in Process
        BY <4>1, <4>3 DEF Process
      <4>5. QED
        BY <1>1, <4>2, <4>4
    <3>3. QED
      BY <1>1, <2>1, <3>1, <3>2 DEF TypeOK, Process
  <2>4. QED
    BY <2>2, <2>3
<1>8. QED
  BY <1>2, <1>3, <1>4, <1>5, <1>6, <1>7 DEF Next, TypeOK, Process

\* Every variable keeps its type, whatever the numbers of processes and queues.
THEOREM TypeCorrect == Spec => []TypeOK
<1>1. Init => TypeOK
  BY DeadIsProcess, BacklogAssumption DEF Init, TypeOK, Process
<1>2. QED
  BY <1>1, TypeStep, PTL DEF Spec

-----------------------------------------------------------------------------
(* The processes.                                                          *)

\* The other processes are as they were.
LEMMA OthersSound ==
  ASSUME AllSound, NEW p \in Processes, NEW r,
         proc' = [proc EXCEPT ![p] = r], config' = config,
         proc \in [Processes -> Process],
         NoneBefore(r), ReplacedByRefresh(r), ActiveRuns(r), ActiveFresh(r),
         ClosesAll(r), Within(r)
  PROVE  AllSound'
<1> SUFFICES ASSUME NEW o \in Processes PROVE Sound(proc[o])'
  BY DEF AllSound
<1>1. CASE o = p
  <2>1. proc'[o] = r
    BY <1>1
  <2>2. QED
    BY <2>1 DEF Sound, NoneBefore, ReplacedByRefresh, ActiveRuns, ActiveFresh, ClosesAll,
       Within, Wanted
<1>2. CASE o # p
  <2>1. proc'[o] = proc[o] /\ Sound(proc[o])
    BY <1>2 DEF AllSound
  <2>2. QED
    BY <2>1 DEF Sound, NoneBefore, ReplacedByRefresh, ActiveRuns, ActiveFresh, ClosesAll,
       Within, Wanted
<1>3. QED
  BY <1>1, <1>2

\* A process that is down is sound.
LEMMA DeadSound ==
  /\ NoneBefore(Dead) /\ ReplacedByRefresh(Dead) /\ ActiveRuns(Dead)
  /\ ActiveFresh(Dead) /\ ClosesAll(Dead) /\ Within(Dead)
BY DefaultAssumption DEF Dead, NoneBefore, ReplacedByRefresh, ActiveRuns, ActiveFresh,
   ClosesAll, Within

\* start() keeps its process sound.
LEMMA StartSound ==
  ASSUME TypeOK, AllSound, NEW p \in Processes,
         Boot(p) \/ PreflightPasses(p) \/ InitWorkers(p) \/ Subscribed(p)
  PROVE  AllSound'
<1> DEFINE r == proc[p]
<1>1. r \in Process /\ proc \in [Processes -> Process] /\ Sound(r)
  BY ProcessType DEF AllSound
<1>2. CASE Boot(p) \/ PreflightPasses(p)
  <2>1. PICK s \in {"preflight", "init"} : proc' = [proc EXCEPT ![p] = [r EXCEPT !.start = s]]
    BY <1>2 DEF Boot, PreflightPasses
  <2>2. r.start \in {"down", "preflight"} /\ config' = config
    BY <1>2 DEF Boot, PreflightPasses
  <2> DEFINE n == [r EXCEPT !.start = s]
  <2>3. /\ NoneBefore(n) /\ ReplacedByRefresh(n) /\ ActiveRuns(n) /\ ActiveFresh(n)
        /\ ClosesAll(n) /\ Within(n)
    BY <1>1, <2>2 DEF Process, Sound, NoneBefore, ReplacedByRefresh, ActiveRuns,
       ActiveFresh, ClosesAll, Within
  <2>4. QED
    BY <1>1, <2>1, <2>2, <2>3, OthersSound
<1>3. CASE InitWorkers(p)
  <2> DEFINE wanted == [q \in Types |-> Wanted(q)]
             n == [r EXCEPT !.start = "refresh", !.refresh = "fetch", !.active = wanted,
                            !.conc = wanted, !.worker = [q \in Types |-> "running"]]
  <2>1. r.start = "init" /\ config' = config /\ proc' = [proc EXCEPT ![p] = n]
    BY <1>1, <1>3 DEF InitWorkers, Process
  <2>2. /\ n.start = "refresh" /\ n.refresh = "fetch" /\ n.active = n.conc
        /\ n.conc = wanted /\ n.stop = r.stop /\ n.reloading = r.reloading
        /\ n.busy = r.busy /\ n.overlap = r.overlap /\ n.fresh = r.fresh
    BY <1>1 DEF Process
  <2>3. \A q \in Types : wanted[q] \in Nat
    BY WantedIsConcurrency, ConcurrenciesAreNumbers
  <2>4. r.stop = "no" /\ r.reloading = {} /\ \A q \in Types : r.busy[q] = 0
    BY <1>1, <2>1 DEF Sound, NoneBefore, ReplacedByRefresh
  <2> HIDE DEF n, wanted
  <2>5. /\ NoneBefore(n) /\ ReplacedByRefresh(n) /\ ActiveRuns(n) /\ ActiveFresh(n)
        /\ ClosesAll(n) /\ Within(n)
    BY <2>2, <2>3, <2>4 DEF NoneBefore, ReplacedByRefresh, ActiveRuns, ActiveFresh,
       ClosesAll, Within
  <2>6. QED
    BY <1>1, <2>1, <2>5, OthersSound
<1>4. CASE Subscribed(p)
  <2> DEFINE n == [r EXCEPT !.start = "done", !.fresh = TRUE,
                            !.refresh = IF r.refresh = "idle" THEN "fetch" ELSE r.refresh]
  <2>1. r.start = "subscribe" /\ config' = config /\ proc' = [proc EXCEPT ![p] = n]
    BY <1>1, <1>4 DEF Subscribed, Process
  <2>2. r.refresh = "idle"
    BY <1>1, <2>1 DEF Sound, ReplacedByRefresh
  <2>3. /\ NoneBefore(n) /\ ReplacedByRefresh(n) /\ ActiveRuns(n) /\ ActiveFresh(n)
        /\ ClosesAll(n) /\ Within(n)
    BY <1>1, <2>1, <2>2 DEF Process, Sound, NoneBefore, ReplacedByRefresh, ActiveRuns,
       ActiveFresh, ClosesAll, Within
  <2>4. QED
    BY <1>1, <2>1, <2>3, OthersSound
<1>5. QED
  BY <1>2, <1>3, <1>4

\* refreshConcurrency keeps its process sound until it closes a worker.
LEMMA FetchSound ==
  ASSUME TypeOK, AllSound, NEW p \in Processes, Fetched(p) \/ FetchFails(p)
  PROVE  AllSound'
<1> DEFINE r == proc[p]
<1>1. r \in Process /\ proc \in [Processes -> Process] /\ Sound(r)
  BY ProcessType DEF AllSound
<1>2. r.refresh = "fetch" /\ config' = config
  BY DEF Fetched, FetchFails
<1>3. /\ r.start \notin {"down", "preflight", "init", "subscribe"} /\ r.reloading = {}
      /\ r.stop # "no" => r.overlap
  BY <1>1, <1>2 DEF Sound, NoneBefore, ReplacedByRefresh, ClosesAll, Process
<1>4. AfterRefresh(r.start) \notin {"down", "preflight", "init", "refresh"}
  BY <1>1, <1>3 DEF AfterRefresh, Process, Steps
<1>5. CASE Fetched(p)
  <2> DEFINE differ == {q \in Types : Wanted(q) # r.active[q]}
             wanted == [q \in Types |-> Wanted(q)]
             n == [r EXCEPT
                     !.active = wanted, !.reloading = differ,
                     !.worker = [q \in Types |-> IF q \in differ THEN "closing"
                                                 ELSE r.worker[q]],
                     !.refresh = IF differ = {} THEN "idle" ELSE "close",
                     !.start = IF differ = {} THEN AfterRefresh(r.start) ELSE r.start]
  <2>1. proc' = [proc EXCEPT ![p] = n]
    BY <1>1, <1>5 DEF Fetched, Process
  <2>2. /\ n.start = (IF differ = {} THEN AfterRefresh(r.start) ELSE r.start)
        /\ n.refresh = (IF differ = {} THEN "idle" ELSE "close")
        /\ n.active = wanted /\ n.conc = r.conc /\ n.stop = r.stop
        /\ n.reloading = differ /\ n.busy = r.busy /\ n.overlap = r.overlap /\ n.fresh = r.fresh
    BY <1>1 DEF Process
  <2>3. \A q \in Types \ differ : r.conc[q] = wanted[q]
    BY <1>1, <1>3 DEF Sound, ActiveRuns
  <2>4. \A q \in Types : wanted[q] = Wanted(q)
    OBVIOUS
  <2> HIDE DEF n, wanted, differ
  <2>5. /\ NoneBefore(n) /\ ReplacedByRefresh(n) /\ ActiveRuns(n) /\ ActiveFresh(n)
        /\ ClosesAll(n) /\ Within(n)
    BY <1>1, <1>3, <1>4, <2>2, <2>3, <2>4 DEF Sound, NoneBefore, ReplacedByRefresh,
       ActiveRuns, ActiveFresh, ClosesAll, Within
  <2>6. QED
    BY <1>1, <1>2, <2>1, <2>5, OthersSound
<1>6. CASE FetchFails(p)
  <2> DEFINE n == [r EXCEPT !.refresh = "idle", !.fresh = FALSE,
                            !.start = AfterRefresh(r.start)]
  <2>1. proc' = [proc EXCEPT ![p] = n]
    BY <1>1, <1>6 DEF FetchFails, Process
  <2>2. /\ NoneBefore(n) /\ ReplacedByRefresh(n) /\ ActiveRuns(n) /\ ActiveFresh(n)
        /\ ClosesAll(n) /\ Within(n)
    BY <1>1, <1>3, <1>4 DEF Process, Sound, NoneBefore, ReplacedByRefresh, ActiveRuns,
       ActiveFresh, ClosesAll, Within
  <2>3. QED
    BY <1>1, <1>2, <2>1, <2>2, OthersSound
<1>7. QED
  BY <1>5, <1>6

\* Whoever awaited the close goes on with a sound process.
LEMMA ClosedSound ==
  ASSUME TypeOK, AllSound, NEW p \in Processes, NEW q \in Types, Closed(p, q)
  PROVE  AllSound'
<1> DEFINE r == proc[p]
           left == r.reloading \ {q}
           over == q \in r.reloading /\ left = {}
           w == [r.worker EXCEPT ![q] = IF q \in r.reloading THEN "running" ELSE "closed"]
           c == [r.conc EXCEPT ![q] = IF q \in r.reloading THEN r.active[q] ELSE r.conc[q]]
           n == [r EXCEPT !.worker = w, !.conc = c, !.reloading = left,
                   !.refresh = IF over THEN "idle" ELSE r.refresh,
                   !.start = IF over THEN AfterRefresh(r.start) ELSE r.start,
                   !.awaiting = r.awaiting \ {q},
                   !.stop = IF r.stop = "closing" /\ r.awaiting \ {q} = {} THEN "quitting"
                            ELSE r.stop]
<1>1. r \in Process /\ proc \in [Processes -> Process] /\ Sound(r)
  BY ProcessType DEF AllSound
<1>2. /\ r.worker[q] = "closing" /\ r.busy[q] = 0 /\ config' = config
      /\ proc' = [proc EXCEPT ![p] = n]
  BY Zenon DEF Closed
<1>3. /\ r.start \notin {"down", "preflight", "init"}
      /\ q \in r.reloading => r.refresh = "close"
      /\ AfterRefresh(r.start) \notin {"down", "preflight", "init", "refresh"}
      /\ AfterRefresh("done") = "done"
  BY <1>1, <1>2 DEF Sound, NoneBefore, ReplacedByRefresh, Process, AfterRefresh, Steps
<1>4. /\ n.worker = w /\ n.conc = c /\ n.reloading = left
      /\ n.refresh = (IF over THEN "idle" ELSE r.refresh)
      /\ n.start = (IF over THEN AfterRefresh(r.start) ELSE r.start)
      /\ n.awaiting = r.awaiting \ {q}
      /\ n.stop = (IF r.stop = "closing" /\ r.awaiting \ {q} = {} THEN "quitting"
                   ELSE r.stop)
      /\ n.active = r.active /\ n.busy = r.busy /\ n.fresh = r.fresh
      /\ n.overlap = r.overlap
  BY <1>1 DEF Process
<1>5. /\ \A o \in Types \ {q} : w[o] = r.worker[o] /\ c[o] = r.conc[o]
      /\ w[q] = (IF q \in r.reloading THEN "running" ELSE "closed")
      /\ c[q] = (IF q \in r.reloading THEN r.active[q] ELSE r.conc[q])
      /\ c[q] \in Nat
  BY <1>1, ConcurrenciesAreNumbers DEF Process
<1> HIDE DEF n, w, c
<1>6. NoneBefore(n) /\ ReplacedByRefresh(n) /\ ActiveRuns(n) /\ ActiveFresh(n)
  BY <1>1, <1>3, <1>4, <1>5 DEF Sound, NoneBefore, ReplacedByRefresh, ActiveRuns,
     ActiveFresh, Process
<1>7. ClosesAll(n)
  BY <1>1, <1>2, <1>3, <1>4, <1>5 DEF Sound, ClosesAll, ReplacedByRefresh, Process
<1>8. Within(n)
  BY <1>1, <1>2, <1>4, <1>5 DEF Sound, Within
<1>9. QED
  BY <1>1, <1>2, <1>6, <1>7, <1>8, OthersSound

\* A job that begins or ends keeps its process sound.
LEMMA JobSound ==
  ASSUME TypeOK, AllSound, NEW p \in Processes, NEW q \in Types,
         TakeJob(p, q) \/ FinishJob(p, q)
  PROVE  AllSound'
<1> DEFINE r == proc[p]
           b == [r.busy EXCEPT ![q] = IF TakeJob(p, q) THEN r.busy[q] + 1
                                      ELSE r.busy[q] - 1]
           n == [r EXCEPT !.busy = b]
<1>1. r \in Process /\ proc \in [Processes -> Process] /\ Sound(r)
  BY ProcessType DEF AllSound
<1>2. config' = config /\ proc' = [proc EXCEPT ![p] = n]
  <2>1. CASE TakeJob(p, q)
    BY <2>1 DEF TakeJob
  <2>2. CASE ~TakeJob(p, q)
    <3>1. FinishJob(p, q)
      BY <2>2
    <3>2. proc' = [proc EXCEPT ![p].busy[q] = @ - 1] /\ config' = config
      BY <3>1 DEF FinishJob
    <3>3. QED
      BY <2>2, <3>2
  <2>3. QED
    BY <2>1, <2>2
<1>3. /\ TakeJob(p, q) => r.worker[q] = "running" /\ r.busy[q] < r.conc[q]
      /\ ~TakeJob(p, q) => r.busy[q] > 0
  BY DEF TakeJob, FinishJob
<1>4. /\ r.busy \in [Types -> Nat] /\ r.conc \in [Types -> Nat]
  BY <1>1, ConcurrenciesAreNumbers DEF Process
<1>5. /\ \A o \in Types \ {q} : b[o] = r.busy[o]
      /\ b[q] = (IF TakeJob(p, q) THEN r.busy[q] + 1 ELSE r.busy[q] - 1)
      /\ b[q] <= r.conc[q]
  <2>1. b[q] = (IF TakeJob(p, q) THEN r.busy[q] + 1 ELSE r.busy[q] - 1)
    BY <1>4
  <2>2. r.busy[q] <= r.conc[q]
    BY <1>1 DEF Sound, Within
  <2>3. \A o \in Types \ {q} : b[o] = r.busy[o]
    BY <1>4
  <2>4. r.busy[q] \in Nat /\ r.conc[q] \in Nat
    BY <1>4
  <2>5. b[q] <= r.conc[q]
    BY <1>3, <2>1, <2>2, <2>4
  <2>6. QED
    BY <2>1, <2>3, <2>5
<1>6. /\ n.busy = b /\ n.start = r.start /\ n.refresh = r.refresh
      /\ n.reloading = r.reloading /\ n.active = r.active /\ n.worker = r.worker
      /\ n.conc = r.conc /\ n.stop = r.stop /\ n.awaiting = r.awaiting
      /\ n.fresh = r.fresh /\ n.overlap = r.overlap
  BY <1>1 DEF Process
<1> HIDE DEF n, b
<1>7. NoneBefore(n) /\ ReplacedByRefresh(n) /\ ActiveRuns(n) /\ ActiveFresh(n)
  BY <1>1, <1>3, <1>6 DEF Sound, NoneBefore, ReplacedByRefresh, ActiveRuns, ActiveFresh
<1>8. ClosesAll(n)
  <2>1. r.stop # "no" /\ ~r.overlap => TakeJob(p, q) = FALSE /\ q \in r.awaiting
    BY <1>1, <1>3 DEF Sound, ClosesAll
  <2>2. QED
    BY <1>1, <1>5, <1>6, <2>1 DEF Sound, ClosesAll
<1>9. Within(n)
  BY <1>1, <1>5, <1>6 DEF Sound, Within
<1>10. QED
  BY <1>1, <1>2, <1>7, <1>8, <1>9, OthersSound

\* So does the signal.
LEMMA SignalSound ==
  ASSUME TypeOK, AllSound, NEW p \in Processes, Signal(p), ~Dies(p)
  PROVE  AllSound'
<1> DEFINE r == proc[p]
           n == [r EXCEPT !.stop = "closing", !.awaiting = Types,
                          !.worker = [q \in Types |-> "closing"],
                          !.overlap = r.start # "done" \/ r.refresh # "idle"]
<1>1. r \in Process /\ proc \in [Processes -> Process] /\ Sound(r)
  BY ProcessType DEF AllSound
<1>2. /\ proc' = [proc EXCEPT ![p] = n] /\ config' = config
      /\ r.start \notin {"down", "preflight", "init"}
  BY <1>1 DEF Signal, Up, Process
<1>3. /\ NoneBefore(n) /\ ReplacedByRefresh(n) /\ ActiveRuns(n) /\ ActiveFresh(n)
      /\ ClosesAll(n) /\ Within(n)
  BY <1>1, <1>2 DEF Process, Sound, NoneBefore, ReplacedByRefresh, ActiveRuns,
     ActiveFresh, ClosesAll, Within
<1>4. QED
  BY <1>1, <1>2, <1>3, OthersSound

\* Every step keeps every process sound.
LEMMA SoundStep == TypeOK /\ AllSound /\ [Next]_vars => AllSound'
<1> SUFFICES ASSUME TypeOK, AllSound, [Next]_vars PROVE AllSound'
  OBVIOUS
<1>1. CASE UNCHANGED vars
  BY <1>1 DEF vars, AllSound, Sound, NoneBefore, ReplacedByRefresh, ActiveRuns,
     ActiveFresh, ClosesAll, Within, Wanted
<1>2. ASSUME NEW q \in Types, NEW v \in Values, SetConcurrency(q, v)
      PROVE  AllSound'
  <2> SUFFICES ASSUME NEW p \in Processes PROVE Sound(proc[p])'
    BY DEF AllSound
  <2>1. /\ proc[p] \in Process /\ Sound(proc[p])
        /\ proc'[p] = [proc[p] EXCEPT !.fresh = FALSE]
    BY <1>2, ProcessType DEF AllSound, SetConcurrency
  <2>2. QED
    BY <2>1 DEF Process, Sound, NoneBefore, ReplacedByRefresh, ActiveRuns, ActiveFresh,
       ClosesAll, Within
<1>3. CASE Publish
  BY <1>3 DEF Publish, AllSound, Sound, NoneBefore, ReplacedByRefresh, ActiveRuns,
     ActiveFresh, ClosesAll, Within, Wanted
<1>4. ASSUME NEW p \in Processes, Dies(p), config' = config
      PROVE  AllSound'
  BY <1>4, ProcessType, DeadSound, OthersSound DEF Dies
<1>5. ASSUME NEW p \in Processes, Crash(p) \/ Exit(p) \/ Signal(p)
      PROVE  AllSound'
  <2>1. config' = config /\ (Dies(p) \/ Signal(p))
    BY <1>5 DEF Crash, Exit, Signal
  <2>2. QED
    BY <1>4, <2>1, SignalSound
<1>6. QED
  BY <1>1, <1>2, <1>3, <1>5, StartSound, FetchSound, ClosedSound, JobSound DEF Next

ProcessInv == TypeOK /\ AllSound

\* The description of a process is an invariant.
LEMMA ProcessesSound == Spec => []ProcessInv
<1>1. Init => ProcessInv
  BY DeadIsProcess, DeadSound, BacklogAssumption DEF Init, ProcessInv, TypeOK, Process,
     AllSound, Sound
<1>2. ProcessInv /\ [Next]_vars => ProcessInv'
  BY TypeStep, SoundStep DEF ProcessInv
<1>3. QED
  BY <1>1, <1>2, PTL DEF Spec

\* However reloads, restarts and shutdowns interleave with jobs, a process runs no
\* more jobs of a queue than its present worker allows (reloadWorker awaits the
\* close of the old one).
THEOREM NeverTooManyJobs == Spec => []WithinConcurrency
<1>1. ProcessInv => WithinConcurrency
  BY DEF ProcessInv, AllSound, Sound, Within, WithinConcurrency
<1>2. QED
  BY <1>1, ProcessesSound, PTL

\* A process whose subscription came after the last change runs with it as soon as
\* no refresh is running: isConcurrencyLoading never drops that refresh.
THEOREM SubscribedAreUpToDate == Spec => []UpToDateWhenSubscribed
<1>1. ProcessInv => UpToDateWhenSubscribed
  <2> SUFFICES ASSUME ProcessInv, NEW p \in Processes, NEW q \in Types,
                      proc[p].fresh, proc[p].refresh = "idle"
               PROVE  proc[p].conc[q] = Wanted(q)
    BY DEF UpToDateWhenSubscribed
  <2>1. Sound(proc[p])
    BY DEF ProcessInv, AllSound
  <2>2. /\ proc[p].start \notin {"down", "preflight", "init"}
        /\ proc[p].reloading = {}
    BY <2>1 DEF Sound, NoneBefore, ReplacedByRefresh
  <2>3. proc[p].conc[q] = proc[p].active[q]
    BY <2>1, <2>2 DEF Sound, ActiveRuns
  <2>4. proc[p].active[q] = Wanted(q)
    BY <2>1 DEF Sound, ActiveFresh
  <2>5. QED
    BY <2>3, <2>4
<1>2. QED
  BY <1>1, ProcessesSound, PTL

\* A shutdown that meets no refresh exits with no job in hand.
THEOREM ShutdownIsClean == Spec => []CleanExit
<1>1. ProcessInv => CleanExit
  BY DEF ProcessInv, AllSound, Sound, ClosesAll, CleanExit
<1>2. QED
  BY <1>1, ProcessesSound, PTL
=============================================================================

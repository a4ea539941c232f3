---------------------------- MODULE ModelCatalog ----------------------------
(***************************************************************************)
(* The AI models: the table ai_models, its copy in Redis (model:ids and    *)
(* model:<id>:limits), and the reload that refreshes the copy, by the cron *)
(* of a web instance and on POST /admin/update-models-limits               *)
(* (cron/reloadModelLimits.ts). A submission reads the copy to resolve its *)
(* chain of models (services/modelSelector.ts), to pick one of them and to *)
(* cap its backlog (routes/resume/queueUtils.ts), and a worker waits for   *)
(* it before it starts (worker/preflight.ts).                              *)
(***************************************************************************)
EXTENDS Integers, SequencesExt, FiniteSetsExt, Ranking

CONSTANTS
    Models,
    Rows,        \* rows of ai_models: type, priority, rpm and rpd
    NoRow,       \* a model that is not in the table, or has no hash
    SeedTable,   \* the table at the beginning
    Cron, Admin, \* who runs a reload
    MaxTableEdits,
    MaxBreaks    \* bound: crashes of the instance and pipelines that break

ASSUME RowsAssumption ==
    /\ Rows \subseteq [type: {"hard", "lite"}, priority: Nat, rpm: Nat, rpd: Nat]
    /\ NoRow \notin Rows
ASSUME SeedAssumption == IsFiniteSet(Models) /\ SeedTable \in [Models -> Rows \cup {NoRow}]
ASSUME CatalogBounds == MaxTableEdits \in Nat /\ MaxBreaks \in Nat /\ Cron # Admin

VARIABLES
    table,    \* ai_models
    ids,      \* model:ids
    hash,     \* model:<id>:limits
    reload,   \* the reload each reloader is running
    web,      \* the web instance: "down", in its first "reload", "listening"
    pick,     \* a submission that chooses its model
    worker,   \* the preflight of a worker process
    locked,   \* cron:lock:reloadModelLimits is there
    tableEdits, breaks

redisVars == <<ids, hash>>
catalogVars ==
    <<table, redisVars, reload, locked, web, pick, worker, tableEdits, breaks>>

Reloaders == {Cron, Admin}

\* known and chain are what the handler read; model is what came of it.
NoPick == [at |-> "none", type |-> "hard", known |-> {}, chain |-> <<>>, model |-> NoRow]

\* at is the next command of the pipeline, rows what the query returned, and
\* left the hashes still to be written. The cron removes its lock at the end.
NoReload == [at |-> "idle", rows |-> [m \in Models |-> NoRow], left |-> {}]

Ended(c) == IF c = Cron THEN [NoReload EXCEPT !.at = "unlock"] ELSE NoReload

Reloading(c) == reload[c].at # "idle"

CatalogTypeOK ==
    /\ table \in [Models -> Rows \cup {NoRow}] /\ hash \in [Models -> Rows \cup {NoRow}]
    /\ ids \subseteq Models
    /\ reload \in [Reloaders -> [at: {"idle", "del", "sadd", "hset", "unlock"},
                                 rows: [Models -> Rows \cup {NoRow}],
                                 left: SUBSET Models]]
    /\ locked \in BOOLEAN
    /\ web \in {"down", "reload", "listening"}
    /\ pick \in [at: {"none", "ids", "hashes", "choose", "chosen"},
                 type: {"hard", "lite"}, known: SUBSET Models, chain: Seq(Models),
                 model: Models \cup {NoRow}]
    /\ worker \in [at: {"ids", "hashes", "started"}, known: SUBSET Models]
    /\ tableEdits \in 0..MaxTableEdits /\ breaks \in 0..MaxBreaks

CatalogInit ==
    /\ table = SeedTable
    /\ ids = {}
    /\ hash = [m \in Models |-> NoRow]
    /\ reload = [c \in Reloaders |-> NoReload]
    /\ locked = FALSE /\ web = "down" /\ pick = NoPick /\ worker = [at |-> "ids", known |-> {}]
    /\ tableEdits = 0 /\ breaks = 0

Listed(rows) == {m \in Models : rows[m] # NoRow}

-----------------------------------------------------------------------------
(* reloadModelLimits. Redis runs the commands of the pipeline one by one.  *)

ReloadFrame == UNCHANGED <<table, locked, web, pick, worker, tableEdits, breaks>>

\* Somebody edits the table.
EditTable(m, row) ==
    /\ tableEdits < MaxTableEdits /\ tableEdits' = tableEdits + 1
    /\ table' = [table EXCEPT ![m] = row]
    /\ UNCHANGED <<redisVars, reload, locked, web, pick, worker, breaks>>

\* The SELECT. When it fails nothing has happened.
QueryModels(c) ==
    /\ ~Reloading(c)
    /\ reload' = [reload EXCEPT ![c] = [at |-> "del", rows |-> table, left |-> {}]]

\* Mutant: the hashes are deleted together with the ids.
DropIdsAndHashes(c) ==
    /\ reload[c].at = "del"
    /\ ids' = {}
    /\ hash' = [m \in Models |-> NoRow]
    /\ reload' = [reload EXCEPT ![c] =
                    IF Listed(@.rows) = {} THEN Ended(c) ELSE [@ EXCEPT !.at = "sadd"]]
    /\ ReloadFrame

\* Mutant: the ids are not deleted first.
KeepIds(c) ==
    /\ reload[c].at = "del"
    /\ reload' = [reload EXCEPT ![c] =
                    IF Listed(@.rows) = {} THEN Ended(c) ELSE [@ EXCEPT !.at = "sadd"]]
    /\ UNCHANGED redisVars /\ ReloadFrame

\* DEL; the hash of a model that left the table stays.
DropIds(c) ==
    /\ reload[c].at = "del"
    /\ ids' = {}
    /\ reload' = [reload EXCEPT ![c] =
                    IF Listed(@.rows) = {} THEN Ended(c) ELSE [@ EXCEPT !.at = "sadd"]]
    /\ UNCHANGED hash /\ ReloadFrame

\* SADD adds to what another reload may have added meanwhile.
AddIds(c) ==
    /\ reload[c].at = "sadd"
    /\ ids' = ids \cup Listed(reload[c].rows)
    /\ reload' = [reload EXCEPT ![c].at = "hset", ![c].left = Listed(reload[c].rows)]
    /\ UNCHANGED hash /\ ReloadFrame

\* One HSET.
PutHash(c, m) ==
    /\ reload[c].at = "hset" /\ m \in reload[c].left
    /\ hash' = [hash EXCEPT ![m] = reload[c].rows[m]]
    /\ reload' = [reload EXCEPT ![c] =
                    IF @.left = {m} THEN Ended(c)
                    ELSE [@ EXCEPT !.left = reload[c].left \ {m}]]
    /\ UNCHANGED ids /\ ReloadFrame

Reload(c) == DropIds(c) \/ AddIds(c) \/ \E m \in Models : PutHash(c, m)

\* The connection breaks, and the rest of the pipeline does not run.
ReloadBreaks(c) ==
    /\ reload[c].at \in {"del", "sadd", "hset"}
    /\ breaks < MaxBreaks /\ breaks' = breaks + 1
    /\ reload' = [reload EXCEPT ![c] = Ended(c)]
    /\ UNCHANGED <<table, redisVars, locked, web, pick, worker, tableEdits>>

\* The finally of runWithLock.
Unlock ==
    /\ reload[Cron].at = "unlock"
    /\ reload' = [reload EXCEPT ![Cron] = NoReload]
    /\ locked' = FALSE
    /\ UNCHANGED redisVars
    /\ UNCHANGED <<table, web, pick, worker, tableEdits, breaks>>

\* Mutant: the lock has no PX.
LockStays == locked /\ ~locked /\ UNCHANGED catalogVars

\* PX: the lock of an instance that died.
LockExpires ==
    /\ locked /\ ~Reloading(Cron)
    /\ locked' = FALSE
    /\ UNCHANGED <<redisVars, reload>>
    /\ UNCHANGED <<table, web, pick, worker, tableEdits, breaks>>

-----------------------------------------------------------------------------
(* The web instance.                                                       *)

WebFrame == UNCHANGED <<table, redisVars, worker, tableEdits>>

\* runWithLock: the lock is taken, and the table is read.
CronReload == ~locked /\ locked' = TRUE /\ QueryModels(Cron)

\* cronService.start: the first reload is awaited before the server listens. What
\* the boot does before that is in UserLimits.
BootReload ==
    /\ web = "down" /\ web' = "reload"
    /\ CronReload
    /\ UNCHANGED <<pick, breaks>> /\ WebFrame

\* The boot goes on without a reload: an instance that died left its lock, or the
\* error of the query is caught.
BootWithoutReload ==
    /\ web = "down" /\ web' = "listening"
    /\ IF locked THEN UNCHANGED breaks
                 ELSE breaks < MaxBreaks /\ breaks' = breaks + 1
    /\ UNCHANGED <<reload, locked, pick>> /\ WebFrame

\* Also after a pipeline that broke off: nobody reads its errors.
Listen ==
    /\ web = "reload" /\ ~Reloading(Cron)
    /\ web' = "listening"
    /\ UNCHANGED <<reload, locked, pick, breaks>> /\ WebFrame

\* The timer of the cron.
TimerReload ==
    /\ web = "listening"
    /\ CronReload
    /\ UNCHANGED <<web, pick, breaks>> /\ WebFrame

\* POST /admin/update-models-limits takes no lock.
AdminReload ==
    /\ web = "listening"
    /\ QueryModels(Admin)
    /\ UNCHANGED <<locked, web, pick, breaks>> /\ WebFrame

\* The instance dies with everything it was doing.
WebCrash ==
    /\ web # "down" /\ web' = "down"
    /\ breaks < MaxBreaks /\ breaks' = breaks + 1
    /\ reload' = [c \in Reloaders |-> NoReload]
    /\ pick' = IF pick.at = "chosen" THEN pick ELSE NoPick
    /\ UNCHANGED locked /\ WebFrame

-----------------------------------------------------------------------------
(* The chain of models. known are the ids that were read, and h the        *)
(* hashes; a model without a hash is passed over.                          *)

\* SMEMBERS lists them in some order, and the sort keeps it among equal priorities.
RankedByPriority(known, h, type) ==
    LET members == SetToSeq({m \in known : h[m] # NoRow /\ h[m].type = type})
        priority(i) == h[members[i]].priority
        sorted == {p \in (DOMAIN members) \X (DOMAIN members) :
                     \/ priority(p[1]) < priority(p[2])
                     \/ priority(p[1]) = priority(p[2]) /\ p[1] <= p[2]}
        order == InOrder(DOMAIN members, sorted)
    IN  [n \in DOMAIN members |-> members[order[n]]]

\* Mutant: the requested model is not taken out of the fallbacks.
WithFallbackTwice(preferred, secondary) ==
    IF preferred # <<>> THEN <<Last(preferred)>> \o preferred \o secondary
    ELSE IF secondary # <<>> THEN <<Last(secondary)>> \o secondary
    ELSE <<>>

\* selectRequestedAndFallback: the last of the preferred models, the others in
\* order, then the secondary ones; the empty chain stands for the exception.
RequestedAndFallback(preferred, secondary) ==
    IF preferred # <<>> THEN <<Last(preferred)>> \o Front(preferred) \o secondary
    ELSE IF secondary # <<>> THEN <<Last(secondary)>> \o Front(secondary)
    ELSE <<>>

\* resolveModelChain: a lite submission never falls back on hard models.
ModelChain(type, known, h) ==
    LET lite == RankedByPriority(known, h, "lite")
    IN  IF type = "hard"
        THEN RequestedAndFallback(RankedByPriority(known, h, "hard"), lite)
        ELSE RequestedAndFallback(lite, <<>>)

-----------------------------------------------------------------------------
(* computeMaxQueueLength.                                                  *)

AvgSeconds(type) == IF type = "hard" THEN 25 ELSE 15

MaxWaitMinutes == 30

\* The jobs a model finishes in avg minutes, when it runs one at a time.
Pace(rpm, avg) == Min({rpm * avg, 60})

CeilDiv(n, d) == (n + d - 1) \div d

\* Mutant: the buffer is applied the wrong way round, 30 / 0.9 minutes.
MaxQueueLengthOverfull(rpm, rpd, avg) ==
    LET raw == CeilDiv(100 * Pace(rpm, avg), 3 * avg)
    IN  Max({1, Min({raw, IF rpd > 0 THEN rpd ELSE raw})})

\* Nine tenths of the jobs of half an hour, no more than a day's, at least one.
MaxQueueLength(rpm, rpd, avg) ==
    LET raw == CeilDiv(27 * Pace(rpm, avg), avg)
    IN  Max({1, Min({raw, IF rpd > 0 THEN rpd ELSE raw})})

-----------------------------------------------------------------------------
(* A submission: prepareJobSubmission from resolveModelChain on.           *)

PickFrame ==
    UNCHANGED <<table, redisVars, reload, locked, web, worker, tableEdits, breaks>>

Submit(type) ==
    /\ web = "listening" /\ pick.at \in {"none", "chosen"}
    /\ pick' = [NoPick EXCEPT !.at = "ids", !.type = type]
    /\ PickFrame

\* loadModelsByType: SMEMBERS, then the hashes.
ReadIds ==
    /\ pick.at = "ids"
    /\ pick' = [pick EXCEPT !.at = "hashes", !.known = ids]
    /\ PickFrame

\* resolveModelChain; without a model it throws.
ResolveChain ==
    LET chain == ModelChain(pick.type, pick.known, hash)
    IN  /\ pick.at = "hashes"
        /\ pick' = IF chain = <<>> THEN NoPick
                   ELSE [pick EXCEPT !.at = "choose", !.known = {}, !.chain = chain]
        /\ PickFrame

\* selectAvailableModel takes some model of the chain whose limits are there. Why a
\* model is passed over is in Submission.
ChooseModel(m) ==
    /\ pick.at = "choose" /\ m \in ToSet(pick.chain)
    /\ hash[m] # NoRow
    /\ pick' = [NoPick EXCEPT !.at = "chosen", !.model = m]
    /\ PickFrame

\* Every model of the chain was passed over, or the user's limit was reached.
RefuseSubmission ==
    /\ pick.at = "choose"
    /\ pick' = NoPick
    /\ PickFrame

-----------------------------------------------------------------------------
(* The preflight of a worker: waitForModelLimits.                          *)

WorkerFrame ==
    UNCHANGED <<table, redisVars, reload, locked, web, pick, tableEdits, breaks>>

\* SMEMBERS; without a model it sleeps and tries again.
PreflightIds ==
    /\ worker.at = "ids" /\ ids # {}
    /\ worker' = [at |-> "hashes", known |-> ids]
    /\ WorkerFrame

\* Every model that is listed must have its hash, and with it an api_name.
PreflightHashes ==
    /\ worker.at = "hashes"
    /\ worker' = [at |-> IF \A m \in worker.known : hash[m] # NoRow
                         THEN "started" ELSE "ids", known |-> {}]
    /\ WorkerFrame

-----------------------------------------------------------------------------

Handler ==
    \/ ReadIds \/ ResolveChain
    \/ (\E m \in Models : ChooseModel(m)) \/ RefuseSubmission

Web == BootReload \/ BootWithoutReload \/ Listen

CatalogNext ==
    \/ \E m \in Models, row \in Rows \cup {NoRow} : EditTable(m, row)
    \/ Web \/ WebCrash
    \/ TimerReload \/ AdminReload \/ Unlock \/ LockExpires
    \/ \E c \in Reloaders : Reload(c) \/ ReloadBreaks(c)
    \/ (\E type \in {"hard", "lite"} : Submit(type)) \/ Handler
    \/ PreflightIds \/ PreflightHashes

-----------------------------------------------------------------------------
(* Properties.                                                             *)

\* The model a submission was given keeps its limits and its api_name for as long
\* as the job may need them, also when it leaves the table, while reloads of the
\* cron and of the admin route interleave or break (reloadModelLimits.ts:25-42,
\* executeModel.ts:15).
ChosenHasLimits == pick.at = "chosen" => hash[pick.model] # NoRow

\* The chain names every model that is listed and loaded and of a type the mode
\* allows, once, and begins with the preferred model of the highest priority
\* number (modelSelector.ts:62-112), whatever a reload has left in Redis.
ChainIsComplete ==
    \A type \in {"hard", "lite"} :
        LET chain == ModelChain(type, ids, hash)
            loaded == {m \in ids : hash[m] # NoRow}
            usable == {m \in loaded : type = "hard" \/ hash[m].type = "lite"}
            preferred == {m \in loaded : hash[m].type = type}
        IN  /\ ToSet(chain) = usable /\ Len(chain) = Cardinality(usable)
            /\ preferred # {} =>
                 /\ chain[1] \in preferred
                 /\ \A m \in preferred : hash[m].priority <= hash[chain[1]].priority

\* The longest backlog that a submission may find is worked off in the half hour
\* after which the cron expires jobs, by one job at a time (queueUtils.ts:1-13).
BacklogWithinSla ==
    \A m \in Models, type \in {"hard", "lite"} :
        LET avg == AvgSeconds(type)
        IN  hash[m] # NoRow /\ hash[m].rpm > 0
                => MaxQueueLength(hash[m].rpm, hash[m].rpd, avg) * avg
                     <= MaxWaitMinutes * Pace(hash[m].rpm, avg)

\* Redis lists the models of the table with their limits.
InStep ==
    /\ ids = Listed(table)
    /\ \A m \in ids : hash[m] = table[m]
=============================================================================

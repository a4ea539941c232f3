----------------------------- MODULE ResultSync -----------------------------
(***************************************************************************)
(* The cron task syncDbResults, run by every web instance under the lock   *)
(* of runWithLock: finished jobs are copied from Redis to Postgres in      *)
(* chunks, marked, and left in Redis for five more minutes.                *)
(***************************************************************************)
EXTENDS Integers, FiniteSets

CONSTANTS
    Instances,    \* web processes, each with its cron service
    Jobs,
    OldJobs,      \* jobs whose metadata is 35 minutes old when a run reads it
    ChunkSize,
    MaxWrites,    \* outcomes written per job, a bound
    MaxFaults,    \* failed commands and deaths in one behaviour, a bound
    Free          \* the lock key does not exist

ASSUME JobsAssumption   == OldJobs \subseteq Jobs /\ IsFiniteSet(Jobs)
ASSUME LockAssumption   == Free \notin Instances
ASSUME BoundsAssumption == /\ ChunkSize \in Nat \ {0}
                           /\ MaxWrites \in Nat
                           /\ MaxFaults \in Nat

VARIABLES
    written,  \* written[j]: outcomes written to job:j:result so far
    cached,   \* jobs with an outcome in job:*:result
    synced,   \* jobs with a synced_at in job:*:result
    meta,     \* jobs with a job:*:meta
    expiring, \* keys that have the short TTL
    row,      \* row[j]: the outcome in cv_analyzes
    deleted,  \* jobs whose user deleted the account
    lock,     \* who set cron:lock:syncDbResults (its value does not tell)
    pc,       \* pc[i]: the await the run of instance i stands at
    todo,     \* todo[i]: scanned keys of later chunks
    batch,    \* batch[i]: what the run read for the chunk at hand
    unread,   \* jobs of which a run could not read a key that exists
    faults

store  == <<written, cached, synced, meta, expiring>>
tables == <<row, deleted>>
cronVars == <<lock, pc, todo, batch>>
vars == <<store, tables, cronVars, unread, faults>>

NoRow   == 0
Missing == -1     \* a row without a result, error missing_result
Rows    == {Missing} \cup 0..MaxWrites

\* The two keys of a job, job:j:result and job:j:meta.
Kinds == {"result", "meta"}

\* The awaits of a run.
Pcs == {"idle", "scan", "read", "upsert", "mark", "finally"}

EmptyBatch == [rows |-> [j \in Jobs |-> NoRow], expire |-> {}]

Init ==
    /\ written = [j \in Jobs |-> 0]
    /\ cached = {}
    /\ synced = {}
    /\ meta = Jobs
    /\ expiring = {}
    /\ row = [j \in Jobs |-> NoRow]
    /\ deleted = {}
    /\ lock = Free
    /\ pc = [i \in Instances |-> "idle"]
    /\ todo = [i \in Instances |-> {}]
    /\ batch = [i \in Instances |-> EmptyBatch]
    /\ unread = {}
    /\ faults = 0

Fault == faults < MaxFaults /\ faults' = faults + 1

-----------------------------------------------------------------------------
(* What others do to the keys and the rows.                                *)

\* An outcome is written: by the worker, or over an earlier one by a second
\* worker, a failed handler or the expiry cron. HSET leaves an earlier synced_at
\* in place. The workers' pipelines give a key 24 hours, unless that command
\* fails; the script of the expiry cron leaves the short TTL.
WriteResult(j) ==
    /\ written[j] < MaxWrites
    /\ written' = [written EXCEPT ![j] = @ + 1]
    /\ cached' = cached \cup {j}
    /\ meta' = meta \cup {j}
    /\ \E prolonged \in SUBSET Kinds : expiring' = expiring \ (prolonged \X {j})
    /\ UNCHANGED <<synced, tables, cronVars, unread, faults>>

\* The user deletes the account; rows go by ON DELETE CASCADE.
DeleteUser(j) ==
    /\ Fault
    /\ j \notin deleted
    /\ deleted' = deleted \cup {j}
    /\ row' = [row EXCEPT ![j] = NoRow]
    /\ UNCHANGED <<store, cronVars, unread>>

ResultKeys == cached \cup synced

\* The five minutes are over; the result got its EXPIRE first.
ResultExpires(j) ==
    /\ <<"result", j>> \in expiring
    /\ cached' = cached \ {j}
    /\ synced' = synced \ {j}
    /\ expiring' = expiring \ {<<"result", j>>}
    /\ UNCHANGED <<written, meta, tables, cronVars, unread, faults>>

MetaExpires(j) ==
    /\ <<"meta", j>> \in expiring /\ <<"result", j>> \notin expiring
    /\ meta' = meta \ {j}
    /\ expiring' = expiring \ {<<"meta", j>>}
    /\ UNCHANGED <<written, cached, synced, tables, cronVars, unread, faults>>

-----------------------------------------------------------------------------
(* A run.                                                                  *)

GoTo(i, label) == pc' = [pc EXCEPT ![i] = label]

\* Mutant: SET without NX.
TakeLockAnyway(i) ==
    /\ pc[i] = "idle"
    /\ lock' = i
    /\ GoTo(i, "scan")
    /\ UNCHANGED <<store, tables, todo, batch, unread, faults>>

\* SET NX; a timer that finds the key does nothing.
TakeLock(i) ==
    /\ pc[i] = "idle"
    /\ lock = Free
    /\ lock' = i
    /\ GoTo(i, "scan")
    /\ UNCHANGED <<store, tables, todo, batch, unread, faults>>

\* Where a run goes when chunks S are left.
AfterChunk(S) == IF S = {} THEN "finally" ELSE "read"

Scan(i) ==
    /\ pc[i] = "scan"
    /\ todo' = [todo EXCEPT ![i] = ResultKeys]
    /\ GoTo(i, AfterChunk(ResultKeys))
    /\ UNCHANGED <<store, tables, lock, batch, unread, faults>>

Slices(S) == {s \in SUBSET S : Cardinality(s) = IF Cardinality(S) < ChunkSize
                                                THEN Cardinality(S) ELSE ChunkSize}

\* The row a run builds from the hashes it got, NoRow when it skips the job.
RowOf(j, metas, results) ==
    CASE j \in metas /\ j \in results /\ j \notin synced -> written[j]
      [] j \in metas /\ j \notin results /\ j \in OldJobs -> Missing
      [] OTHER -> NoRow

\* One chunk is read; metas and results are the hashes the run got. A job stored
\* before is passed over, one with only one of the two hashes loses both.
ReadChunk(i, metas, results) ==
    \E slice \in Slices(todo[i]) :
        LET rows   == [j \in Jobs |-> IF j \in slice THEN RowOf(j, metas, results)
                                                     ELSE NoRow]
            expire == slice \ (metas \cap results \cap synced)
        IN  /\ todo' = [todo EXCEPT ![i] = @ \ slice]
            /\ batch' = [batch EXCEPT ![i] = [rows |-> rows, expire |-> expire]]
            /\ unread' = unread \cup (slice \cap ((meta \ metas) \cup (ResultKeys \ results)))
            /\ GoTo(i, CASE rows # EmptyBatch.rows -> "upsert"
                         [] rows = EmptyBatch.rows /\ expire # {} -> "mark"
                         [] OTHER -> AfterChunk(todo[i] \ slice))

Read(i) ==
    /\ pc[i] = "read"
    /\ ReadChunk(i, meta, ResultKeys)
    /\ UNCHANGED <<store, tables, lock, faults>>

\* Commands of the read pipeline fail. exec() resolves, and what is missing in its
\* answer counts as empty.
ReadLoses(i) ==
    /\ pc[i] = "read"
    /\ Fault
    /\ \E metas \in SUBSET meta, results \in SUBSET ResultKeys :
            ReadChunk(i, metas, results)
    /\ UNCHANGED <<store, tables, lock>>

InBatch(i) == {j \in Jobs : batch[i].rows[j] # NoRow}

\* INSERT ... ON CONFLICT DO UPDATE with the rows that were read.
StoreBatch(i) ==
    /\ InBatch(i) \cap deleted = {}
    /\ row' = [j \in Jobs |-> IF j \in InBatch(i) THEN batch[i].rows[j] ELSE row[j]]

Upsert(i) ==
    /\ pc[i] = "upsert"
    /\ StoreBatch(i)
    /\ GoTo(i, "mark")
    /\ UNCHANGED <<store, deleted, lock, todo, batch, unread, faults>>

\* One row breaks the foreign key on the user: none of the chunk is stored,
\* and the run ends.
UpsertRefused(i) ==
    /\ pc[i] = "upsert"
    /\ InBatch(i) \cap deleted # {}
    /\ GoTo(i, "finally")
    /\ UNCHANGED <<store, tables, lock, todo, batch, unread, faults>>

\* The statement is executed and its answer is lost.
UpsertUnanswered(i) ==
    /\ pc[i] = "upsert"
    /\ Fault
    /\ StoreBatch(i)
    /\ GoTo(i, "finally")
    /\ UNCHANGED <<store, deleted, lock, todo, batch, unread>>

\* The HSETs of synced_at on stamped and the EXPIREs of keys take effect.
MarkChunk(i, stamped, keys) ==
    /\ synced' = synced \cup stamped
    /\ expiring' = expiring \cup keys
    /\ batch' = [batch EXCEPT ![i] = EmptyBatch]
    /\ GoTo(i, AfterChunk(todo[i]))

ToStamp(i) == {j \in InBatch(i) : batch[i].rows[j] # Missing}

\* The keys of the chunk that exist once stamped have their synced_at.
ToExpire(i, stamped) ==
    {"result"} \X (batch[i].expire \cap (ResultKeys \cup stamped))
        \cup {"meta"} \X (batch[i].expire \cap meta)

\* synced_at for what was stored, the short TTL for all of the chunk.
Mark(i) ==
    /\ pc[i] = "mark"
    /\ MarkChunk(i, ToStamp(i), ToExpire(i, ToStamp(i)))
    /\ UNCHANGED <<written, cached, meta, tables, lock, todo, unread, faults>>

\* Commands of the pipeline fail. exec() resolves, and the run goes on.
MarkLoses(i) ==
    /\ pc[i] = "mark"
    /\ Fault
    /\ \E stamped \in SUBSET ToStamp(i) :
        \E keys \in SUBSET ToExpire(i, stamped) : MarkChunk(i, stamped, keys)
    /\ UNCHANGED <<written, cached, meta, tables, lock, todo, unread>>

\* Mutant: the exception of the statement is caught inside the loop.
RunFailsInLoop(i) ==
    /\ pc[i] \in {"scan", "upsert"}
    /\ Fault
    /\ GoTo(i, IF pc[i] = "upsert" THEN "mark" ELSE "finally")
    /\ UNCHANGED <<store, tables, lock, todo, batch, unread>>

\* A SCAN, the connection to Postgres or the statement fails: the exception leaves
\* the loop over the chunks.
RunFails(i) ==
    /\ pc[i] \in {"scan", "upsert"}
    /\ Fault
    /\ GoTo(i, "finally")
    /\ UNCHANGED <<store, tables, lock, todo, batch, unread>>

\* DEL in finally, whoever set the key.
Unlock(i) ==
    /\ pc[i] = "finally"
    /\ lock' = Free
    /\ GoTo(i, "idle")
    /\ todo' = [todo EXCEPT ![i] = {}]
    /\ batch' = [batch EXCEPT ![i] = EmptyBatch]
    /\ UNCHANGED <<store, tables, unread, faults>>

\* The process dies, or the DEL fails; the lock stays.
Die(i) ==
    /\ pc[i] # "idle"
    /\ Fault
    /\ GoTo(i, "idle")
    /\ todo' = [todo EXCEPT ![i] = {}]
    /\ batch' = [batch EXCEPT ![i] = EmptyBatch]
    /\ UNCHANGED <<store, tables, lock, unread>>

\* Mutant: the lock has no PX, and time passes over a dead holder.
LockStays ==
    /\ lock # Free
    /\ pc[lock] = "idle"
    /\ UNCHANGED vars

\* PX; a run is taken to be shorter than the interval plus ten seconds.
LockExpires ==
    /\ lock # Free
    /\ pc[lock] = "idle"
    /\ lock' = Free
    /\ UNCHANGED <<store, tables, pc, todo, batch, unread, faults>>

Outside == \E j \in Jobs :
    WriteResult(j) \/ DeleteUser(j) \/ ResultExpires(j) \/ MetaExpires(j)

RunStep(i) ==
    \/ Scan(i) \/ Read(i) \/ Upsert(i) \/ UpsertRefused(i) \/ Mark(i) \/ Unlock(i)

RunFault(i) ==
    \/ ReadLoses(i) \/ UpsertUnanswered(i) \/ MarkLoses(i) \/ RunFails(i) \/ Die(i)

Next ==
    \/ Outside
    \/ \E i \in Instances : TakeLock(i) \/ RunStep(i) \/ RunFault(i)
    \/ LockExpires

Spec == Init /\ [][Next]_vars

\* Timers fire, awaits come to an end, keys expire.
FairSpec ==
    /\ Spec
    /\ WF_vars(\E i \in Instances : TakeLock(i))
    /\ \A i \in Instances : WF_vars(RunStep(i))
    /\ WF_vars(LockExpires)

-----------------------------------------------------------------------------
(* Properties.                                                             *)

TypeOK ==
    /\ written \in [Jobs -> 0..MaxWrites]
    /\ cached \subseteq Jobs
    /\ synced \subseteq Jobs
    /\ meta \subseteq Jobs
    /\ expiring \subseteq Kinds \X Jobs
    /\ row \in [Jobs -> Rows]
    /\ deleted \subseteq Jobs
    /\ lock \in Instances \cup {Free}
    /\ pc \in [Instances -> Pcs]
    /\ todo \in [Instances -> SUBSET Jobs]
    /\ batch \in [Instances -> [rows : [Jobs -> Rows], expire : SUBSET Jobs]]
    /\ unread \subseteq Jobs
    /\ faults \in 0..MaxFaults

\* The jobs whose row a run cannot replace by "missing_result".
Fresh == Jobs \ OldJobs

WB == INSTANCE WriteBehind WITH
    Jobs    <- Fresh,
    written <- [j \in Fresh |-> written[j]],
    cached  <- cached \cap Fresh,
    row     <- [j \in Fresh |-> row[j]],
    deleted <- deleted \cap Fresh,
    unread  <- unread \cap Fresh

\* The sync implements WriteBehind: whatever rewrites, expiring keys, failed
\* commands, deaths and a second instance interleave with a run, a result
\* leaves Redis only once Postgres has one or after a run could not read one of
\* its keys, and no run puts an older outcome over a newer one
\* (syncDbResults.ts:36-60, 148-175, runWithLock.ts:12-22).
ImplementsWriteBehind == WB!Spec

\* What carries synced_at has a row, unless the account is gone: the mark
\* comes after the statement, and a run that fails in between leaves no mark
\* (syncDbResults.ts:164-170).
MarkedIsStored == \A j \in synced : row[j] # NoRow \/ j \in deleted

\* Every result reaches Postgres, through failed runs, marks that are lost and
\* dead lock holders, as long as no account is deleted: one refused row stops
\* every run (syncDbResults.ts:148-162). And as long as every run gets the job's
\* hashes: one that does not leaves the result five minutes. The row of an old job
\* may say missing_result.
EveryResultStored ==
    \A j \in Jobs : (j \in cached) ~> (row[j] # NoRow \/ j \in unread \/ deleted # {})
=============================================================================

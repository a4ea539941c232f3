-------------------------- MODULE ResultSyncProofs --------------------------
(***************************************************************************)
(* The sync implements WriteBehind, for any web instances, jobs, chunk     *)
(* size, number of outcomes and faults.                                    *)
(*                                                                         *)
(* Only the holder of the lock runs, so nobody stores between its read and *)
(* its statement; and what it marks has a row by then. What it expires has *)
(* one as well, or is among the jobs a run could not read.                 *)
(***************************************************************************)
EXTENDS ResultSync, TLAPS

\* Postgres has an outcome of j, or may not have one any more.
Done(j) == row[j] # NoRow \/ j \in deleted

\* The result of j may leave Redis.
Released(j) == Done(j) \/ j \in unread

\* A run that goes on has the lock.
LockHeld == \A i \in Instances : pc[i] # "idle" => lock = i

\* An outcome is in Redis with its metadata until it may go, only what has a row
\* is marked, and no row is ahead of what was written.
NothingLost ==
    \A j \in Jobs :
        /\ row[j] <= written[j]
        /\ row[j] = Missing => j \in OldJobs
        /\ j \in ResultKeys => written[j] > 0
        /\ written[j] > 0 => j \in cached \cap meta \/ Released(j)
        /\ j \in synced => Done(j)
        /\ \A kind \in Kinds : <<kind, j>> \in expiring => Released(j)

\* What a run holds is no older than the row, and what it is about to mark
\* or to expire is stored.
BatchCurrent ==
    \A i \in Instances, j \in Jobs :
        /\ j \in todo[i] => written[j] > 0
        /\ pc[i] = "upsert" =>
            /\ batch[i].rows[j] <= written[j]
            /\ batch[i].rows[j] > 0 => row[j] <= batch[i].rows[j]
            /\ batch[i].rows[j] = Missing => j \in OldJobs
            /\ j \in batch[i].expire => batch[i].rows[j] # NoRow \/ Released(j)
            /\ batch[i].rows[j] # NoRow => written[j] > 0
        /\ pc[i] = "mark" =>
            /\ batch[i].rows[j] # NoRow => Done(j) /\ written[j] > 0
            /\ j \in batch[i].expire => Released(j)

SyncInv == TypeOK /\ LockHeld /\ NothingLost /\ BatchCurrent

-----------------------------------------------------------------------------

LEMMA SyncInvInit == Init => SyncInv
<1> SUFFICES ASSUME Init PROVE SyncInv
  OBVIOUS
<1> USE DEF Init
<1>1. TypeOK
  BY BoundsAssumption DEF TypeOK, Rows, Pcs, EmptyBatch, NoRow
<1>2. LockHeld
  BY DEF LockHeld
<1>3. NothingLost
  BY DEF NothingLost, ResultKeys, NoRow, Missing
<1>4. BatchCurrent
  BY DEF BatchCurrent
<1>5. QED
  BY <1>1, <1>2, <1>3, <1>4 DEF SyncInv

\* What every step of others leaves of the invariant about runs.
LEMMA WriteResultStep ==
    ASSUME SyncInv, NEW j \in Jobs, WriteResult(j)
    PROVE  SyncInv'
<1> USE DEF SyncInv, WriteResult, tables, cronVars
<1>1. TypeOK'
  BY BoundsAssumption DEF TypeOK, Rows
<1>2. LockHeld'
  BY DEF LockHeld
<1>3. NothingLost'
  BY BoundsAssumption DEF NothingLost, TypeOK, ResultKeys, Done, Released, Rows, NoRow, Missing
<1>4. BatchCurrent'
  BY BoundsAssumption DEF BatchCurrent, TypeOK, Done, Released, Rows, NoRow, Missing
<1>5. QED
  BY <1>1, <1>2, <1>3, <1>4

LEMMA DeleteUserStep ==
    ASSUME SyncInv, NEW j \in Jobs, DeleteUser(j)
    PROVE  SyncInv'
<1> USE DEF SyncInv, DeleteUser, Fault, store, cronVars
<1>1. TypeOK'
  BY BoundsAssumption DEF TypeOK, Rows, NoRow
<1>2. LockHeld'
  BY DEF LockHeld
<1>3. NothingLost'
  BY DEF NothingLost, TypeOK, ResultKeys, Done, Released, Rows, NoRow, Missing
<1>4. BatchCurrent'
  BY DEF BatchCurrent, TypeOK, Done, Released, Rows, NoRow, Missing
<1>5. QED
  BY <1>1, <1>2, <1>3, <1>4

LEMMA ExpiryStep ==
    ASSUME SyncInv, NEW j \in Jobs, ResultExpires(j) \/ MetaExpires(j)
    PROVE  SyncInv'
<1> USE DEF SyncInv, ResultExpires, MetaExpires, tables, cronVars
<1>1. TypeOK'
  BY DEF TypeOK
<1>2. LockHeld'
  BY DEF LockHeld
<1>3. NothingLost'
  BY DEF NothingLost, TypeOK, ResultKeys, Done, Released
<1>4. BatchCurrent'
  BY DEF BatchCurrent, TypeOK, Done, Released
<1>5. QED
  BY <1>1, <1>2, <1>3, <1>4

LEMMA TakeLockStep ==
    ASSUME SyncInv, NEW i \in Instances, TakeLock(i)
    PROVE  SyncInv'
<1> USE DEF SyncInv, TakeLock, GoTo, store, tables
<1>1. TypeOK'
  BY DEF TypeOK, Pcs
<1>2. LockHeld'
  BY LockAssumption DEF LockHeld, TypeOK
<1>3. NothingLost'
  BY DEF NothingLost, ResultKeys, Done, Released
<1>4. BatchCurrent'
  BY DEF BatchCurrent, TypeOK, Done, Released
<1>5. QED
  BY <1>1, <1>2, <1>3, <1>4

LEMMA ScanStep ==
    ASSUME SyncInv, NEW i \in Instances, Scan(i)
    PROVE  SyncInv'
<1> USE DEF SyncInv, Scan, GoTo, AfterChunk, store, tables
<1>1. TypeOK'
  BY DEF TypeOK, Pcs, ResultKeys
<1>2. LockHeld'
  BY DEF LockHeld, TypeOK
<1>3. NothingLost'
  BY DEF NothingLost, ResultKeys, Done, Released
<1>4. BatchCurrent'
  BY DEF BatchCurrent, NothingLost, TypeOK, Done, Released, ResultKeys
<1>5. QED
  BY <1>1, <1>2, <1>3, <1>4

\* Whatever part of the hashes a run gets, a job it marks or expires without a row
\* may leave Redis.
LEMMA ReadChunkStep ==
    ASSUME SyncInv, NEW i \in Instances, pc[i] = "read",
           NEW metas \in SUBSET meta, NEW results \in SUBSET ResultKeys,
           ReadChunk(i, metas, results),
           UNCHANGED <<store, tables, lock>>, faults' \in 0..MaxFaults
    PROVE  SyncInv'
<1> USE DEF SyncInv
<1>1. PICK slice \in Slices(todo[i]) :
        LET rows   == [j \in Jobs |-> IF j \in slice THEN RowOf(j, metas, results)
                                                     ELSE NoRow]
            expire == slice \ (metas \cap results \cap synced)
        IN  /\ todo' = [todo EXCEPT ![i] = @ \ slice]
            /\ batch' = [batch EXCEPT ![i] = [rows |-> rows, expire |-> expire]]
            /\ unread' = unread \cup (slice \cap ((meta \ metas) \cup (ResultKeys \ results)))
            /\ GoTo(i, CASE rows # EmptyBatch.rows -> "upsert"
                         [] rows = EmptyBatch.rows /\ expire # {} -> "mark"
                         [] OTHER -> AfterChunk(todo[i] \ slice))
  BY DEF ReadChunk
<1> DEFINE new(j) == RowOf(j, metas, results)
           rows   == [j \in Jobs |-> IF j \in slice THEN new(j) ELSE NoRow]
           expire == slice \ (metas \cap results \cap synced)
<1>2. slice \subseteq todo[i] /\ slice \subseteq Jobs
  BY DEF Slices, TypeOK
<1>3. /\ UNCHANGED <<store, tables, lock>> /\ pc[i] = "read"
      /\ unread \subseteq unread' /\ unread' \subseteq Jobs
  BY <1>1, <1>2 DEF TypeOK
<1>4. \A j \in Jobs : new(j) \in Rows
  BY BoundsAssumption DEF RowOf, TypeOK, Rows, NoRow
<1>5. pc'[i] \in {"upsert", "mark", "finally", "read"} /\ pc' = [pc EXCEPT ![i] = pc'[i]]
  BY <1>1 DEF GoTo, AfterChunk, TypeOK
<1>6. pc'[i] = "mark" => rows = [j \in Jobs |-> NoRow]
  BY <1>1 DEF GoTo, AfterChunk, TypeOK, EmptyBatch
<1>7. batch'[i].rows = rows /\ batch'[i].expire = expire
  BY <1>1 DEF TypeOK
<1>8. \A k \in Instances : k # i => batch'[k] = batch[k] /\ pc'[k] = pc[k]
  BY <1>1, <1>5 DEF TypeOK
<1>9. TypeOK'
  <2>1. rows \in [Jobs -> Rows] /\ expire \in SUBSET Jobs
    BY <1>2, <1>4, BoundsAssumption DEF Rows, NoRow
  <2>2. batch' \in [Instances -> [rows : [Jobs -> Rows], expire : SUBSET Jobs]]
    BY <1>1, <2>1 DEF TypeOK
  <2>3. todo' \in [Instances -> SUBSET Jobs] /\ pc' \in [Instances -> Pcs]
    BY <1>1, <1>5 DEF TypeOK, Pcs
  <2>4. QED
    BY <1>3, <2>2, <2>3 DEF TypeOK, store, tables
<1>10. LockHeld'
  BY <1>3, <1>8 DEF LockHeld
<1>11. NothingLost'
  BY <1>3 DEF NothingLost, ResultKeys, Done, Released, store, tables
<1>12. BatchCurrent'
  <2> SUFFICES ASSUME NEW k \in Instances, NEW j \in Jobs
               PROVE  (/\ j \in todo[k] => written[j] > 0
                       /\ pc[k] = "upsert" =>
                           /\ batch[k].rows[j] <= written[j]
                           /\ batch[k].rows[j] > 0 => row[j] <= batch[k].rows[j]
                           /\ batch[k].rows[j] = Missing => j \in OldJobs
                           /\ j \in batch[k].expire
                                => batch[k].rows[j] # NoRow \/ Released(j)
                           /\ batch[k].rows[j] # NoRow => written[j] > 0
                       /\ pc[k] = "mark" =>
                           /\ batch[k].rows[j] # NoRow => Done(j) /\ written[j] > 0
                           /\ j \in batch[k].expire => Released(j))'
    BY DEF BatchCurrent
  <2>1. CASE k # i
    BY <1>1, <1>3, <1>8, <2>1 DEF BatchCurrent, TypeOK, Done, Released, store, tables
  <2>2. CASE k = i
    <3>1. j \in slice => written[j] > 0
      BY <1>2 DEF BatchCurrent
    <3>2. j \in slice /\ ~Released(j)' => new(j) = written[j]
      <4> SUFFICES ASSUME j \in slice, ~Released(j)' PROVE new(j) = written[j]
        OBVIOUS
      <4>1. ~Released(j) /\ j \notin unread'
        BY <1>3 DEF Released, Done, tables
      <4>2. j \in cached \cap meta /\ j \notin synced
        BY <3>1, <4>1 DEF NothingLost, Released
      <4>3. j \in metas /\ j \in results
        BY <1>1, <4>1, <4>2 DEF ResultKeys
      <4>4. QED
        BY <4>2, <4>3 DEF RowOf
    <3>3. /\ new(j) <= written[j]
          /\ new(j) > 0 => row[j] <= new(j)
          /\ new(j) = Missing => j \in OldJobs
      BY DEF NothingLost, TypeOK, RowOf, Rows, NoRow, Missing
    <3>4. rows[j] = IF j \in slice THEN new(j) ELSE NoRow
      OBVIOUS
    <3>5. j \in expire => rows[j] # NoRow \/ Released(j)'
      BY <3>1, <3>2, <3>4 DEF NoRow, TypeOK
    <3>6. /\ rows[j] <= written[j]
          /\ rows[j] > 0 => row[j] <= rows[j]
          /\ rows[j] = Missing => j \in OldJobs
          /\ rows[j] # NoRow => written[j] > 0
      BY <3>1, <3>3, <3>4 DEF TypeOK, NoRow, Missing
    <3>7. pc'[i] = "mark" => rows[j] = NoRow
      BY <1>6
    <3>8. j \in todo'[i] => written[j] > 0
      BY <1>1 DEF BatchCurrent, TypeOK
    <3>9. written' = written /\ row' = row
      BY <1>3 DEF store, tables
    <3> HIDE DEF rows, expire, new
    <3>10. QED
      BY <1>7, <2>2, <3>5, <3>6, <3>7, <3>8, <3>9
  <2>3. QED
    BY <2>1, <2>2
<1>13. QED
  BY <1>9, <1>10, <1>11, <1>12

LEMMA ReadStep ==
    ASSUME SyncInv, NEW i \in Instances, Read(i) \/ ReadLoses(i)
    PROVE  SyncInv'
<1>1. CASE Read(i)
  BY <1>1, ReadChunkStep DEF Read, SyncInv, TypeOK
<1>2. CASE ReadLoses(i)
  <2>1. faults' \in 0..MaxFaults
    BY <1>2, BoundsAssumption DEF ReadLoses, Fault, SyncInv, TypeOK
  <2>2. PICK metas \in SUBSET meta, results \in SUBSET ResultKeys :
            ReadChunk(i, metas, results)
    BY <1>2 DEF ReadLoses
  <2>3. QED
    BY <1>2, <2>1, <2>2, ReadChunkStep DEF ReadLoses
<1>3. QED
  BY <1>1, <1>2

\* The holder of the lock stores its rows, and stands at label next.
LEMMA StoreBatchStep ==
    ASSUME SyncInv, NEW i \in Instances, NEW next \in {"mark", "finally"},
           pc[i] = "upsert", StoreBatch(i), GoTo(i, next),
           UNCHANGED <<store, deleted, lock, todo, batch, unread>>, faults' \in 0..MaxFaults
    PROVE  SyncInv'
<1> USE DEF SyncInv
<1>1. \A k \in Instances : k # i => pc[k] = "idle" /\ pc'[k] = pc[k]
  BY LockAssumption DEF LockHeld, GoTo, TypeOK
<1>2. \A j \in Jobs :
        row'[j] = IF batch[i].rows[j] # NoRow THEN batch[i].rows[j] ELSE row[j]
  BY DEF StoreBatch, InBatch
<1>3. TypeOK'
  <2>1. row' \in [Jobs -> Rows]
    BY DEF StoreBatch, TypeOK
  <2>2. pc' \in [Instances -> Pcs]
    BY DEF GoTo, TypeOK, Pcs
  <2>3. QED
    BY <2>1, <2>2 DEF TypeOK, store
<1>4. LockHeld'
  BY DEF LockHeld, GoTo, TypeOK
<1>5. \A j \in Jobs : Done(j) \/ batch[i].rows[j] # NoRow => Done(j)'
  BY <1>2 DEF Done, Released
<1>6. NothingLost'
  <2> SUFFICES ASSUME NEW j \in Jobs
               PROVE  (/\ row[j] <= written[j]
                       /\ row[j] = Missing => j \in OldJobs
                       /\ j \in ResultKeys => written[j] > 0
                       /\ written[j] > 0 => j \in cached \cap meta \/ Released(j)
                       /\ j \in synced => Done(j)
                       /\ \A kind \in Kinds : <<kind, j>> \in expiring => Released(j))'
    BY DEF NothingLost
  <2>1. row'[j] <= written[j] /\ (row'[j] = Missing => j \in OldJobs)
    BY <1>2 DEF NothingLost, BatchCurrent
  <2>2. QED
    BY <2>1, <1>5 DEF NothingLost, ResultKeys, Released, store
<1>7. BatchCurrent'
  BY <1>1, <1>5 DEF BatchCurrent, Released, GoTo, TypeOK, store
<1>8. QED
  BY <1>3, <1>4, <1>6, <1>7

LEMMA UpsertStep ==
    ASSUME SyncInv, NEW i \in Instances, Upsert(i) \/ UpsertUnanswered(i)
    PROVE  SyncInv'
<1>1. CASE Upsert(i)
  BY <1>1, StoreBatchStep DEF Upsert, SyncInv, TypeOK
<1>2. CASE UpsertUnanswered(i)
  <2>1. faults' \in 0..MaxFaults
    BY <1>2, BoundsAssumption DEF UpsertUnanswered, Fault, SyncInv, TypeOK
  <2>2. QED
    BY <1>2, <2>1, StoreBatchStep DEF UpsertUnanswered
<1>3. QED
  BY <1>1, <1>2

\* The holder of the lock marks what it stored, or a part of it.
LEMMA MarkStep ==
    ASSUME SyncInv, NEW i \in Instances, Mark(i) \/ MarkLoses(i)
    PROVE  SyncInv'
<1> USE DEF SyncInv
<1>1. PICK stamped \in SUBSET ToStamp(i), keys \in SUBSET ToExpire(i, ToStamp(i)) :
        MarkChunk(i, stamped, keys)
  <2>1. ASSUME NEW stamped \in SUBSET ToStamp(i)
        PROVE  ToExpire(i, stamped) \subseteq ToExpire(i, ToStamp(i))
    BY DEF ToExpire
  <2>2. QED
    BY <2>1 DEF Mark, MarkLoses
<1>2. /\ pc[i] = "mark" /\ UNCHANGED <<written, cached, meta, tables, lock, todo, unread>>
      /\ faults' \in 0..MaxFaults
  BY BoundsAssumption DEF Mark, MarkLoses, Fault, TypeOK
<1>3. /\ synced' = synced \cup stamped /\ expiring' = expiring \cup keys
      /\ batch' = [batch EXCEPT ![i] = EmptyBatch]
      /\ pc' = [pc EXCEPT ![i] = AfterChunk(todo[i])]
  BY <1>1 DEF MarkChunk, GoTo
<1>4. EmptyBatch \in [rows : [Jobs -> Rows], expire : SUBSET Jobs]
  BY BoundsAssumption DEF EmptyBatch, Rows, NoRow
<1>5. \A j \in Jobs : j \in stamped => Done(j) /\ written[j] > 0
  BY <1>1, <1>2 DEF ToStamp, InBatch, BatchCurrent
<1>6. \A j \in Jobs, kind \in Kinds : <<kind, j>> \in keys => Released(j)
  <2> SUFFICES ASSUME NEW j \in Jobs, NEW kind \in Kinds, <<kind, j>> \in keys
               PROVE  Released(j)
    OBVIOUS
  <2>1. j \in batch[i].expire
    BY <1>1 DEF ToExpire
  <2>2. QED
    BY <1>2, <2>1 DEF BatchCurrent
<1>7. TypeOK'
  <2>1. stamped \subseteq Jobs /\ keys \subseteq Kinds \X Jobs
    BY <1>1 DEF ToStamp, InBatch, ToExpire, Kinds, TypeOK
  <2>2. AfterChunk(todo[i]) \in Pcs
    BY DEF AfterChunk, Pcs
  <2>3. /\ pc' \in [Instances -> Pcs] /\ synced' \subseteq Jobs
        /\ expiring' \subseteq Kinds \X Jobs
    BY <1>3, <2>1, <2>2 DEF TypeOK
  <2>4. batch' \in [Instances -> [rows : [Jobs -> Rows], expire : SUBSET Jobs]]
    BY <1>3, <1>4 DEF TypeOK
  <2>5. QED
    BY <1>2, <2>3, <2>4 DEF TypeOK, tables
<1>8. LockHeld'
  BY <1>2, <1>3 DEF LockHeld, TypeOK
<1>9. NothingLost'
  BY <1>2, <1>3, <1>5, <1>6 DEF NothingLost, TypeOK, ResultKeys, Done, Released, tables
<1>10. BatchCurrent'
  BY <1>2, <1>3 DEF BatchCurrent, TypeOK, Done, Released, AfterChunk, tables
<1>11. QED
  BY <1>7, <1>8, <1>9, <1>10

\* A run that ends without touching a key or a row.
LEMMA RunEndsStep ==
    ASSUME SyncInv, NEW i \in Instances,
           UpsertRefused(i) \/ RunFails(i) \/ Unlock(i) \/ Die(i)
    PROVE  SyncInv'
<1> USE DEF SyncInv, UpsertRefused, RunFails, Unlock, Die, Fault, GoTo, store, tables
<1>1. EmptyBatch \in [rows : [Jobs -> Rows], expire : SUBSET Jobs]
  BY BoundsAssumption DEF EmptyBatch, Rows, NoRow
<1>2. faults' \in 0..MaxFaults
  BY BoundsAssumption DEF TypeOK
<1>3. TypeOK'
  <2>1. CASE UpsertRefused(i) \/ RunFails(i)
    BY <1>2, <2>1 DEF TypeOK, Pcs
  <2>2. CASE Unlock(i) \/ Die(i)
    <3>1. batch' \in [Instances -> [rows : [Jobs -> Rows], expire : SUBSET Jobs]]
      BY <1>1, <2>2 DEF TypeOK
    <3>2. QED
      BY <1>2, <2>2, <3>1 DEF TypeOK, Pcs
  <2>3. QED
    BY <2>1, <2>2
<1>4. LockHeld'
  BY LockAssumption DEF LockHeld, TypeOK
<1>5. NothingLost'
  BY DEF NothingLost, ResultKeys, Done, Released
<1>6. BatchCurrent'
  <2>1. \A k \in Instances : todo'[k] \subseteq todo[k]
    BY DEF TypeOK
  <2>2. \A k \in Instances : pc'[k] \in {"upsert", "mark"} =>
            pc'[k] = pc[k] /\ batch'[k] = batch[k]
    BY DEF TypeOK
  <2>3. /\ written' = written /\ row' = row
        /\ \A j \in Jobs : Done(j)' = Done(j) /\ Released(j)' = Released(j)
    BY DEF Done, Released
  <2>4. QED
    BY <2>1, <2>2, <2>3 DEF BatchCurrent
<1>7. QED
  BY <1>3, <1>4, <1>5, <1>6

LEMMA LockExpiresStep ==
    ASSUME SyncInv, LockExpires
    PROVE  SyncInv'
<1> USE DEF SyncInv, LockExpires, store, tables
<1>1. TypeOK'
  BY DEF TypeOK
<1>2. LockHeld'
  BY DEF LockHeld, TypeOK
<1>3. NothingLost' /\ BatchCurrent'
  BY DEF NothingLost, BatchCurrent, ResultKeys, Done, Released
<1>4. QED
  BY <1>1, <1>2, <1>3

LEMMA SyncInvNext == SyncInv /\ [Next]_vars => SyncInv'
<1> SUFFICES ASSUME SyncInv, [Next]_vars PROVE SyncInv'
  OBVIOUS
<1>1. CASE UNCHANGED vars
  BY <1>1 DEF vars, store, tables, cronVars, SyncInv, TypeOK, LockHeld, NothingLost,
              BatchCurrent, ResultKeys, Done, Released
<1>2. CASE Outside
  BY <1>2, WriteResultStep, DeleteUserStep, ExpiryStep DEF Outside
<1>3. ASSUME NEW i \in Instances, TakeLock(i) \/ RunStep(i) \/ RunFault(i)
      PROVE  SyncInv'
  BY <1>3, TakeLockStep, ScanStep, ReadStep, UpsertStep, MarkStep, RunEndsStep
     DEF RunStep, RunFault
<1>4. CASE LockExpires
  BY <1>4, LockExpiresStep
<1>5. QED
  BY <1>1, <1>2, <1>3, <1>4 DEF Next

LEMMA SyncInvariant == Spec => []SyncInv
  BY SyncInvInit, SyncInvNext, PTL DEF Spec

\* What carries synced_at has a row, whatever fails between the statement and the
\* mark.
THEOREM MarkedAlwaysStored == Spec => []MarkedIsStored
<1>1. SyncInv => MarkedIsStored
  BY DEF SyncInv, NothingLost, TypeOK, MarkedIsStored, Done, Released
<1>2. QED
  BY <1>1, SyncInvariant, PTL

-----------------------------------------------------------------------------
(* Refinement: every step stores rows that catch up, drops a result that    *)
(* has a row or was not read, or leaves WriteBehind where it is.            *)

LEMMA StoreRefines ==
    ASSUME SyncInv, NEW i \in Instances, pc[i] = "upsert", StoreBatch(i),
           UNCHANGED <<store, deleted, unread>>
    PROVE  WB!Store
<1> USE DEF SyncInv
<1>1. \A j \in Jobs :
        row'[j] = IF batch[i].rows[j] # NoRow THEN batch[i].rows[j] ELSE row[j]
  BY DEF StoreBatch, InBatch
<1>2. \A j \in Fresh : row[j] \in 0..MaxWrites /\ row'[j] \in 0..MaxWrites
  BY <1>1, BoundsAssumption DEF Fresh, TypeOK, Rows, NothingLost, BatchCurrent
<1>3. \A j \in Fresh : row'[j] # row[j] =>
        row[j] < row'[j] /\ row'[j] <= written[j] /\ j \notin deleted
  <2> SUFFICES ASSUME NEW j \in Fresh, row'[j] # row[j]
               PROVE  row[j] < row'[j] /\ row'[j] <= written[j] /\ j \notin deleted
    OBVIOUS
  <2>1. j \in Jobs /\ row'[j] = batch[i].rows[j] /\ batch[i].rows[j] # NoRow
    BY <1>1 DEF Fresh
  <2>2. j \notin deleted
    BY <2>1 DEF StoreBatch, InBatch
  <2>3. row'[j] > 0
    BY <1>2, <2>1 DEF NoRow
  <2>4. QED
    BY <1>2, <2>1, <2>2, <2>3 DEF BatchCurrent
<1>4. QED
  BY <1>2, <1>3 DEF WB!Store, store, Fresh

LEMMA StepRefines ==
    ASSUME SyncInv, [Next]_vars
    PROVE  [WB!Next]_(WB!vars)
<1> USE DEF WB!vars
<1>1. CASE UNCHANGED vars
  BY <1>1 DEF vars, store, tables
<1>2. ASSUME NEW j \in Jobs, WriteResult(j) \/ DeleteUser(j) \/ ResultExpires(j)
      PROVE  [WB!Next]_(WB!vars)
  <2>1. CASE j \notin Fresh
    BY <1>2, <2>1 DEF WriteResult, DeleteUser, ResultExpires, store, tables, Fresh,
                      SyncInv, TypeOK
  <2>2. CASE j \in Fresh /\ WriteResult(j)
    <3>1. /\ [k \in Fresh |-> written'[k]]
                = [[k \in Fresh |-> written[k]] EXCEPT ![j] = @ + 1]
          /\ cached' \cap Fresh = (cached \cap Fresh) \cup {j}
      BY <2>2 DEF WriteResult, Fresh, SyncInv, TypeOK
    <3>2. row' = row /\ deleted' = deleted /\ unread' = unread /\ written[j] < MaxWrites
      BY <2>2 DEF WriteResult, tables
    <3>3. WB!Write(j)
      BY <2>2, <3>1, <3>2 DEF WB!Write
    <3>4. QED
      BY <2>2, <3>3 DEF WB!Next
  <2>3. CASE j \in Fresh /\ DeleteUser(j)
    <3>1. /\ [k \in Fresh |-> row'[k]] = [[k \in Fresh |-> row[k]] EXCEPT ![j] = 0]
          /\ deleted' \cap Fresh = (deleted \cap Fresh) \cup {j}
      BY <2>3 DEF DeleteUser, Fresh, SyncInv, TypeOK, NoRow
    <3>2. written' = written /\ cached' = cached /\ unread' = unread
      BY <2>3 DEF DeleteUser, store
    <3>3. WB!Delete(j)
      BY <3>1, <3>2 DEF WB!Delete
    <3>4. QED
      BY <2>3, <3>3 DEF WB!Next
  <2>4. CASE j \in Fresh /\ ResultExpires(j)
    <3>1. row[j] > 0 \/ j \in deleted \cup unread
      <4>1. Released(j)
        BY <2>4 DEF ResultExpires, SyncInv, NothingLost, Kinds
      <4>2. row[j] \in Rows /\ row[j] # Missing
        BY <2>4 DEF SyncInv, TypeOK, NothingLost, Fresh
      <4>3. QED
        BY <4>1, <4>2, BoundsAssumption DEF Released, Done, Rows, NoRow
    <3>2. QED
      BY <2>4, <3>1 DEF ResultExpires, WB!Next, WB!Drop, tables, Fresh
  <2>5. QED
    BY <1>2, <2>1, <2>2, <2>3, <2>4
<1>3. ASSUME NEW i \in Instances, Upsert(i) \/ UpsertUnanswered(i)
      PROVE  [WB!Next]_(WB!vars)
  BY <1>3, StoreRefines DEF Upsert, UpsertUnanswered, WB!Next
<1>4. ASSUME NEW i \in Instances,
             \/ TakeLock(i) \/ Scan(i) \/ UpsertRefused(i)
             \/ Mark(i) \/ MarkLoses(i) \/ Unlock(i) \/ RunFails(i) \/ Die(i)
      PROVE  UNCHANGED WB!vars
  BY <1>4 DEF TakeLock, Scan, UpsertRefused, Mark, MarkLoses, Unlock, RunFails, Die,
              store, tables
<1>5. CASE LockExpires \/ \E j \in Jobs : MetaExpires(j)
  BY <1>5 DEF LockExpires, MetaExpires, store, tables
<1>6. ASSUME NEW i \in Instances, Read(i) \/ ReadLoses(i)
      PROVE  [WB!Next]_(WB!vars)
  <2>1. UNCHANGED <<store, tables>> /\ unread \subseteq unread' /\ unread' \subseteq Jobs
    BY <1>6, ReadStep DEF Read, ReadLoses, ReadChunk, SyncInv, TypeOK
  <2>2. WB!Misread
    BY <2>1 DEF WB!Misread, store, tables, Fresh
  <2>3. QED
    BY <2>2 DEF WB!Next
<1>7. QED
  BY <1>1, <1>2, <1>3, <1>4, <1>5, <1>6 DEF Next, Outside, RunStep, RunFault

\* Whatever the number of instances, jobs and faults: a result leaves Redis only
\* once Postgres has one or after a run could not read one of its keys, and no run
\* replaces a row by an older outcome.
THEOREM SyncImplements == Spec => ImplementsWriteBehind
<1>1. Init => WB!Init
  BY DEF Init, WB!Init, NoRow, Fresh
<1>2. SyncInv /\ [Next]_vars => [WB!Next]_(WB!vars)
  BY StepRefines
<1>3. QED
  BY <1>1, <1>2, SyncInvariant, PTL DEF Spec, ImplementsWriteBehind, WB!Spec
=============================================================================

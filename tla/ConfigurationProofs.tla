------------------------- MODULE ConfigurationProofs -------------------------
(***************************************************************************)
(* What a submission may rely on when it reads the configuration from      *)
(* Redis, for any table of models, any limits and any number of edits,     *)
(* crashes and broken pipelines: the model it was given keeps its limits,  *)
(* the longest backlog of a model is worked off in time, the chain it got  *)
(* is complete, and the limits of its user are limits the user had.        *)
(***************************************************************************)
EXTENDS Configuration, RankingProofs, SequenceTheorems, TLAPS

-----------------------------------------------------------------------------
(* The models. A hash is written over and never deleted, and a reload      *)
(* writes rows only, those it found in the table.                          *)

MaybeRow == Rows \cup {NoRow}

ReloadRecord ==
  [at : {"idle", "del", "sadd", "hset", "unlock"}, rows : [Models -> MaybeRow],
   left : SUBSET Models]

ModelsTyped ==
  /\ table \in [Models -> MaybeRow] /\ hash \in [Models -> MaybeRow]
  /\ reload \in [Reloaders -> ReloadRecord]

\* What is still to be written are rows.
LeftAreRows == \A c \in Reloaders : reload[c].left \subseteq Listed(reload[c].rows)

PickIsRecord ==
  pick = [at |-> pick.at, type |-> pick.type, known |-> pick.known,
          chain |-> pick.chain, model |-> pick.model]

ChosenIsModel == pick.at = "chosen" => pick.model \in Models

ModelsInv ==
  ModelsTyped /\ LeftAreRows /\ PickIsRecord /\ ChosenIsModel /\ ChosenHasLimits

\* A reload that is over, in either way, has nothing left to write.
LEMMA EndedTyped ==
  ASSUME NEW c \in Reloaders
  PROVE  /\ Ended(c) \in ReloadRecord /\ Ended(c).left = {}
         /\ NoReload \in ReloadRecord /\ NoReload.left = {}
<1>1. NoReload \in ReloadRecord /\ NoReload.left = {}
  BY DEF NoReload, ReloadRecord, MaybeRow
<1>2. QED
  BY <1>1 DEF Ended, NoReload, ReloadRecord, MaybeRow

\* A reload takes one step: its own record changes and the others do not.
LEMMA ReloadChanges ==
  ASSUME ModelsTyped, LeftAreRows, NEW c \in Reloaders, NEW r \in ReloadRecord,
         reload' = [reload EXCEPT ![c] = r], r.left \subseteq Listed(r.rows)
  PROVE  reload' \in [Reloaders -> ReloadRecord] /\ LeftAreRows'
<1>1. reload' \in [Reloaders -> ReloadRecord]
  BY DEF ModelsTyped
<1>2. ASSUME NEW o \in Reloaders
      PROVE  reload'[o].left \subseteq Listed(reload'[o].rows)
  BY DEF ModelsTyped, LeftAreRows
<1>3. QED
  BY <1>1, <1>2 DEF LeftAreRows, Listed

\* The commands of a reload.
LEMMA ReloadStep ==
  ASSUME ModelsInv, NEW c \in Reloaders, Reload(c) \/ ReloadBreaks(c)
  PROVE  ModelsInv'
<1> DEFINE r == reload[c]
<1>1. /\ ModelsTyped /\ LeftAreRows /\ r \in ReloadRecord
      /\ r.left \subseteq Listed(r.rows)
  BY DEF ModelsInv, ModelsTyped, LeftAreRows
<1>2. table' = table /\ pick' = pick
  BY DEF Reload, DropIds, AddIds, PutHash, ReloadBreaks, ReloadFrame
<1>3. PICK n \in ReloadRecord :
        reload' = [reload EXCEPT ![c] = n] /\ n.left \subseteq Listed(n.rows)
  <2>1. CASE DropIds(c)
    <3>1. [r EXCEPT !.at = "sadd"] \in ReloadRecord
          /\ [r EXCEPT !.at = "sadd"].left \subseteq Listed([r EXCEPT !.at = "sadd"].rows)
      BY <1>1 DEF ReloadRecord
    <3>2. QED
      BY <2>1, <3>1, EndedTyped DEF DropIds
  <2>2. CASE AddIds(c)
    <3> DEFINE n == [r EXCEPT !.at = "hset", !.left = Listed(r.rows)]
    <3>1. n \in ReloadRecord /\ n.left = Listed(n.rows)
      BY <1>1 DEF ReloadRecord, Listed
    <3>2. reload' = [reload EXCEPT ![c] = n]
      BY <1>1, <2>2 DEF AddIds, ModelsTyped
    <3>3. QED
      BY <3>1, <3>2
  <2>3. ASSUME NEW m \in Models, PutHash(c, m)
        PROVE  \E n \in ReloadRecord :
                 reload' = [reload EXCEPT ![c] = n] /\ n.left \subseteq Listed(n.rows)
    <3> DEFINE n == [r EXCEPT !.left = r.left \ {m}]
    <3>1. n \in ReloadRecord /\ n.left \subseteq Listed(n.rows)
      BY <1>1 DEF ReloadRecord, Listed
    <3>2. reload' = [reload EXCEPT ![c] = IF r.left = {m} THEN Ended(c) ELSE n]
      BY <2>3 DEF PutHash
    <3> HIDE DEF n
    <3>3. QED
      BY <3>1, <3>2, EndedTyped
  <2>4. CASE ReloadBreaks(c)
    BY <2>4, EndedTyped DEF ReloadBreaks
  <2>5. QED
    BY <2>1, <2>2, <2>3, <2>4 DEF Reload
<1>4. reload' \in [Reloaders -> ReloadRecord] /\ LeftAreRows'
  BY <1>1, <1>3, ReloadChanges
<1>5. /\ hash' \in [Models -> MaybeRow]
      /\ \A m \in Models : hash[m] # NoRow => hash'[m] # NoRow
  <2>1. CASE hash' = hash
    BY <1>1, <2>1 DEF ModelsTyped
  <2>2. ASSUME NEW m \in Models, PutHash(c, m)
        PROVE  /\ hash' \in [Models -> MaybeRow]
               /\ \A o \in Models : hash[o] # NoRow => hash'[o] # NoRow
    <3>1. m \in r.left /\ hash' = [hash EXCEPT ![m] = r.rows[m]]
      BY <2>2 DEF PutHash
    <3>2. r.rows[m] # NoRow /\ r.rows[m] \in MaybeRow
      BY <1>1, <3>1 DEF Listed, ReloadRecord
    <3>3. QED
      BY <1>1, <3>1, <3>2 DEF ModelsTyped
  <2>3. QED
    BY <2>1, <2>2 DEF Reload, DropIds, AddIds, ReloadBreaks, redisVars
<1>6. QED
  BY <1>1, <1>2, <1>4, <1>5 DEF ModelsInv, ModelsTyped, PickIsRecord, ChosenIsModel,
     ChosenHasLimits

\* Everything that begins or cleans up a reload.
LEMMA ReloaderStep ==
  ASSUME ModelsInv,
         \/ BootReload \/ TimerReload \/ AdminReload \/ Unlock \/ WebCrash
  PROVE  ModelsInv'
<1>1. ModelsTyped /\ LeftAreRows
  BY DEF ModelsInv
<1>2. table' = table /\ hash' = hash
  BY DEF BootReload, TimerReload, AdminReload, Unlock, WebCrash, WebFrame, redisVars
<1>3. reload' \in [Reloaders -> ReloadRecord] /\ LeftAreRows'
  <2>1. CASE WebCrash
    <3>1. NoReload \in ReloadRecord /\ NoReload.left = {}
      BY EndedTyped DEF Reloaders
    <3>2. reload' = [c \in Reloaders |-> NoReload]
      BY <2>1 DEF WebCrash
    <3>3. QED
      BY <3>1, <3>2 DEF LeftAreRows
  <2>2. ASSUME NEW c \in Reloaders, QueryModels(c)
        PROVE  reload' \in [Reloaders -> ReloadRecord] /\ LeftAreRows'
    <3> DEFINE n == [at |-> "del", rows |-> table, left |-> {}]
    <3>1. n \in ReloadRecord /\ n.left \subseteq Listed(n.rows)
      BY <1>1 DEF ReloadRecord, ModelsTyped
    <3>2. reload' = [reload EXCEPT ![c] = n]
      BY <2>2 DEF QueryModels
    <3>3. QED
      BY <1>1, <3>1, <3>2, ReloadChanges
  <2>3. CASE Unlock
    <3>1. reload' = [reload EXCEPT ![Cron] = NoReload] /\ Cron \in Reloaders
      BY <2>3 DEF Unlock, Reloaders
    <3>2. NoReload \in ReloadRecord /\ NoReload.left \subseteq Listed(NoReload.rows)
      BY EndedTyped, <3>1
    <3>3. QED
      BY <1>1, <3>1, <3>2, ReloadChanges
  <2>4. QED
    BY <2>1, <2>2, <2>3 DEF BootReload, TimerReload, AdminReload, CronReload, Reloaders
<1>4. pick' = pick \/ pick' = NoPick
  BY DEF BootReload, TimerReload, AdminReload, Unlock, WebCrash
<1>5. PickIsRecord' /\ ChosenIsModel' /\ ChosenHasLimits'
  <2>1. CASE pick' = pick
    BY <1>2, <2>1 DEF ModelsInv, PickIsRecord, ChosenIsModel, ChosenHasLimits
  <2>2. CASE pick' = NoPick
    BY <2>2 DEF NoPick, PickIsRecord, ChosenIsModel, ChosenHasLimits
  <2>3. QED
    BY <1>4, <2>1, <2>2
<1>6. QED
  BY <1>1, <1>2, <1>3, <1>5 DEF ModelsInv, ModelsTyped

\* A submission: only the last step gives it a model, one whose hash is there.
LEMMA PickStep ==
  ASSUME ModelsInv, (\E type \in {"hard", "lite"} : Submit(type)) \/ Handler
  PROVE  ModelsInv'
<1>1. table' = table /\ hash' = hash /\ reload' = reload
  BY DEF Submit, Handler, ReadIds, ResolveChain, ChooseModel, RefuseSubmission, PickFrame,
     redisVars
<1>2. PickIsRecord /\ pick = [at |-> pick.at, type |-> pick.type, known |-> pick.known,
                              chain |-> pick.chain, model |-> pick.model]
  BY DEF ModelsInv, PickIsRecord
<1>3. PickIsRecord' /\ ChosenIsModel' /\ ChosenHasLimits'
  <2>1. CASE \E type \in {"hard", "lite"} : Submit(type)
    BY <2>1 DEF Submit, NoPick, PickIsRecord, ChosenIsModel, ChosenHasLimits
  <2>2. CASE ReadIds
    <3>1. pick' = [pick EXCEPT !.at = "hashes", !.known = ids]
      BY <2>2 DEF ReadIds
    <3>2. pick' = [at |-> "hashes", type |-> pick.type, known |-> ids,
                   chain |-> pick.chain, model |-> pick.model]
      BY <1>2, <3>1
    <3>3. QED
      BY <3>2 DEF PickIsRecord, ChosenIsModel, ChosenHasLimits
  <2>3. CASE ResolveChain
    <3> DEFINE chain == ModelChain(pick.type, pick.known, hash)
    <3>1. pick' = NoPick
          \/ pick' = [pick EXCEPT !.at = "choose", !.known = {}, !.chain = chain]
      BY <2>3 DEF ResolveChain
    <3> HIDE DEF chain
    <3>2. CASE pick' = NoPick
      BY <3>2 DEF NoPick, PickIsRecord, ChosenIsModel, ChosenHasLimits
    <3>3. CASE pick' = [pick EXCEPT !.at = "choose", !.known = {}, !.chain = chain]
      <4>1. pick' = [at |-> "choose", type |-> pick.type, known |-> {},
                     chain |-> chain, model |-> pick.model]
        BY <1>2, <3>3
      <4>2. QED
        BY <4>1 DEF PickIsRecord, ChosenIsModel, ChosenHasLimits
    <3>4. QED
      BY <3>1, <3>2, <3>3
  <2>4. ASSUME NEW m \in Models, ChooseModel(m)
        PROVE  PickIsRecord' /\ ChosenIsModel' /\ ChosenHasLimits'
    BY <1>1, <2>4 DEF ChooseModel, NoPick, PickIsRecord, ChosenIsModel, ChosenHasLimits
  <2>5. CASE RefuseSubmission
    BY <2>5 DEF RefuseSubmission, NoPick, PickIsRecord, ChosenIsModel, ChosenHasLimits
  <2>6. QED
    BY <2>1, <2>2, <2>3, <2>4, <2>5 DEF Handler
<1>4. QED
  BY <1>1, <1>3 DEF ModelsInv, ModelsTyped, LeftAreRows

\* The user's half and the preflight of a worker leave the models alone.
LEMMA ModelsStep == ModelsInv /\ [Next]_vars => ModelsInv'
<1> SUFFICES ASSUME ModelsInv, [Next]_vars PROVE ModelsInv'
  OBVIOUS
<1>1. CASE UNCHANGED catalogVars
  BY <1>1 DEF catalogVars, redisVars, ModelsInv, ModelsTyped, LeftAreRows, PickIsRecord,
     ChosenIsModel, ChosenHasLimits
<1>2. ASSUME NEW m \in Models, NEW row \in MaybeRow, EditTable(m, row)
      PROVE  ModelsInv'
  BY <1>2 DEF EditTable, redisVars, ModelsInv, ModelsTyped, LeftAreRows, PickIsRecord,
     ChosenIsModel, ChosenHasLimits
<1>3. CASE BootWithoutReload \/ Listen \/ LockExpires \/ PreflightIds \/ PreflightHashes
  BY <1>3 DEF BootWithoutReload, Listen, LockExpires, PreflightIds, PreflightHashes,
     WebFrame, WorkerFrame, redisVars, ModelsInv, ModelsTyped, LeftAreRows, PickIsRecord,
     ChosenIsModel, ChosenHasLimits
<1>4. CASE CatalogNext
  BY <1>2, <1>3, <1>4, ReloadStep, ReloaderStep, PickStep DEF CatalogNext, Web, MaybeRow
<1>5. QED
  BY <1>1, <1>4 DEF Next, Models_, Limits_, vars

\* So this holds of the models at any time.
LEMMA ModelsInvHolds == Spec => []ModelsInv
<1>1. Init => ModelsInv
  <2> SUFFICES ASSUME Init PROVE ModelsInv
    OBVIOUS
  <2>1. NoReload \in ReloadRecord /\ NoReload.left = {}
    BY EndedTyped DEF Reloaders
  <2>2. /\ table = SeedTable /\ hash = [m \in Models |-> NoRow]
        /\ reload = [c \in Reloaders |-> NoReload] /\ pick = NoPick
    BY DEF Init, CatalogInit
  <2>3. ModelsTyped /\ LeftAreRows
    BY <2>1, <2>2, SeedAssumption DEF ModelsTyped, LeftAreRows, MaybeRow
  <2>4. PickIsRecord /\ ChosenIsModel /\ ChosenHasLimits
    BY <2>2 DEF NoPick, PickIsRecord, ChosenIsModel, ChosenHasLimits
  <2>5. QED
    BY <2>3, <2>4 DEF ModelsInv
<1>2. QED
  BY <1>1, ModelsStep, PTL DEF Spec

\* However the reloads of the cron and of the admin route interleave, break or drop
\* models, the model a submission was given keeps its limits.
THEOREM ChosenKeepsLimits == Spec => []ChosenHasLimits
<1>1. ModelsInv => ChosenHasLimits
  BY DEF ModelsInv
<1>2. QED
  BY <1>1, ModelsInvHolds, PTL

-----------------------------------------------------------------------------
(* The longest backlog.                                                    *)

\* The smaller of two numbers.
LEMMA MinOfTwo ==
  ASSUME NEW a \in Int, NEW b \in Int
  PROVE  Min({a, b}) = IF a <= b THEN a ELSE b
<1> DEFINE x == IF a <= b THEN a ELSE b
<1>1. x \in {a, b} /\ \A y \in {a, b} : x <= y
  OBVIOUS
<1>2. \A z \in {a, b} : (\A y \in {a, b} : z <= y) => z = x
  OBVIOUS
<1>3. QED
  BY <1>1, <1>2 DEF Min

\* The larger of two numbers.
LEMMA MaxOfTwo ==
  ASSUME NEW a \in Int, NEW b \in Int
  PROVE  Max({a, b}) = IF a <= b THEN b ELSE a
<1> DEFINE x == IF a <= b THEN b ELSE a
<1>1. x \in {a, b} /\ \A y \in {a, b} : x >= y
  OBVIOUS
<1>2. \A z \in {a, b} : (\A y \in {a, b} : z >= y) => z = x
  OBVIOUS
<1>3. QED
  BY <1>1, <1>2 DEF Max

\* Nine tenths of half an hour, rounded up to a whole job, fit into half an hour.
LEMMA BacklogFits ==
  ASSUME NEW rpm \in Nat, NEW rpd \in Nat, NEW avg \in {15, 25}, rpm > 0
  PROVE  MaxQueueLength(rpm, rpd, avg) * avg <= MaxWaitMinutes * Pace(rpm, avg)
<1> DEFINE pace == Pace(rpm, avg)
           raw == CeilDiv(27 * pace, avg)
           least == Min({raw, IF rpd > 0 THEN rpd ELSE raw})
           length == MaxQueueLength(rpm, rpd, avg)
<1>1. pace \in Nat /\ pace >= 15 /\ (avg = 25 => pace >= 25)
  <2>1. rpm * avg \in Nat /\ rpm * avg >= avg
    BY SMT
  <2>2. pace = IF rpm * avg <= 60 THEN rpm * avg ELSE 60
    BY <2>1, MinOfTwo DEF Pace
  <2>3. QED
    BY <2>1, <2>2
<1> HIDE DEF pace
<1>2. raw \in Int /\ raw * avg <= 30 * pace
  <2>1. CASE avg = 15
    BY <1>1, <2>1 DEF CeilDiv
  <2>2. CASE avg = 25
    BY <1>1, <2>2 DEF CeilDiv
  <2>3. QED
    BY <2>1, <2>2
<1> HIDE DEF raw
<1>3. least \in Int /\ least <= raw
  BY <1>2, MinOfTwo
<1> HIDE DEF least
<1>4. length = 1 \/ length = least
  <2>1. length = Max({1, least})
    BY DEF MaxQueueLength, least, raw, pace
  <2>2. QED
    BY <1>3, <2>1, MaxOfTwo
<1> HIDE DEF length
<1>5. length * avg <= 30 * pace
  <2>1. CASE length = 1
    BY <1>1, <2>1
  <2>2. CASE length = least
    <3>1. least * avg <= raw * avg
      BY <1>2, <1>3
    <3>2. least * avg \in Int /\ raw * avg \in Int /\ 30 * pace \in Int
      BY <1>1, <1>2, <1>3
    <3>3. QED
      BY <1>2, <2>2, <3>1, <3>2
  <2>3. QED
    BY <1>4, <2>1, <2>2
<1>6. QED
  BY <1>5 DEF length, pace, MaxWaitMinutes

\* Whatever limits a reload has left in Redis, the longest backlog that a submission
\* may find is worked off before the cron expires its jobs.
THEOREM BacklogMeetsSla == Spec => []BacklogWithinSla
<1>1. ModelsInv => BacklogWithinSla
  <2> SUFFICES ASSUME ModelsInv, NEW m \in Models, NEW type \in {"hard", "lite"},
                      hash[m] # NoRow, hash[m].rpm > 0
               PROVE  MaxQueueLength(hash[m].rpm, hash[m].rpd, AvgSeconds(type))
                        * AvgSeconds(type)
                          <= MaxWaitMinutes * Pace(hash[m].rpm, AvgSeconds(type))
    BY DEF BacklogWithinSla
  <2>1. hash[m].rpm \in Nat /\ hash[m].rpd \in Nat
    BY RowsAssumption DEF ModelsInv, ModelsTyped, MaybeRow
  <2>2. AvgSeconds(type) \in {15, 25}
    BY DEF AvgSeconds
  <2>3. QED
    BY <2>1, <2>2, BacklogFits
<1>2. QED
  BY <1>1, ModelsInvHolds, PTL

-----------------------------------------------------------------------------
(* The chain of models.                                                    *)

\* A sequence that names every element of a set once.
Lists(s, S) ==
  /\ s \in Seq(S) /\ Len(s) = Cardinality(S)
  /\ \A e \in S : \E i \in 1..Len(s) : s[i] = e

\* So many numbers.
LEMMA Numbers ==
  ASSUME NEW n \in Nat
  PROVE  IsFiniteSet(1..n) /\ Cardinality(1..n) = n
<1>1. IsFiniteSet(1..n) /\ Cardinality(1..n) = IF 1 > n THEN 0 ELSE n - 1 + 1
  BY FS_Interval
<1>2. QED
  BY <1>1

\* SMEMBERS names every member once.
LEMMA MembersListed ==
  ASSUME NEW S, IsFiniteSet(S)
  PROVE  /\ Cardinality(S) \in Nat
         /\ SetToSeq(S) \in [1..Cardinality(S) -> S]
         /\ \A e \in S : \E i \in 1..Cardinality(S) : SetToSeq(S)[i] = e
<1> DEFINE N == 1..Cardinality(S)
           f == SetToSeq(S)
<1>1. Cardinality(S) \in Nat /\ ExistsBijection(N, S)
  BY FS_CardinalityType
<1>2. \E g \in [N -> S] : IsInjective(g)
  BY <1>1 DEF ExistsBijection, Bijection, Injection
<1>3. f \in [N -> S] /\ IsInjective(f)
  BY <1>2 DEF SetToSeq
<1> HIDE DEF f
<1>4. f \in Injection(N, S)
  BY <1>3 DEF Injection
<1>5. Cardinality(N) = Cardinality(S)
  BY <1>1, Numbers
<1>6. f \in Surjection(N, S)
  BY <1>4, <1>5, FS_Injection
<1>7. \A e \in S : \E i \in N : f[i] = e
  BY <1>6 DEF Surjection
<1>8. QED
  BY <1>1, <1>3, <1>7 DEF f

\* The models of a type are all listed, and a higher priority number comes later.
LEMMA RankedListed ==
  ASSUME NEW known, IsFiniteSet(known), NEW h, NEW type,
         \A m \in known : h[m] # NoRow => h[m].priority \in Int
  PROVE  LET s == RankedByPriority(known, h, type)
             S == {m \in known : h[m] # NoRow /\ h[m].type = type}
         IN  /\ IsFiniteSet(S) /\ Lists(s, S)
             /\ \A i, j \in 1..Len(s) : i <= j => h[s[i]].priority <= h[s[j]].priority
<1> DEFINE S == {m \in known : h[m] # NoRow /\ h[m].type = type}
           members == SetToSeq(S)
           D == 1..Cardinality(S)
           priority(i) == h[members[i]].priority
           sorted == {p \in D \X D : \/ priority(p[1]) < priority(p[2])
                                     \/ priority(p[1]) = priority(p[2]) /\ p[1] <= p[2]}
           order == InOrder(D, sorted)
           s == RankedByPriority(known, h, type)
<1>1. IsFiniteSet(S)
  BY FS_Subset
<1>2. /\ Cardinality(S) \in Nat /\ members \in [D -> S] /\ DOMAIN members = D
      /\ \A e \in S : \E i \in D : members[i] = e
  BY <1>1, MembersListed
<1>3. IsFiniteSet(D) /\ Cardinality(D) = Cardinality(S)
  <2> HIDE DEF S
  <2>1. QED
    BY <1>2, Numbers
<1>4. \A i \in D : i \in Int /\ priority(i) \in Int
  BY <1>2
<1>5. s = [n \in D |-> members[order[n]]]
  BY <1>2 DEF RankedByPriority
<1> HIDE DEF members
<1>6. IsTotalOrder(D, sorted)
  <2> HIDE DEF priority
  <2>1. \A i, j \in D : <<i, j>> \in sorted
                          <=> (\/ priority(i) < priority(j)
                               \/ priority(i) = priority(j) /\ i <= j)
    OBVIOUS
  <2> HIDE DEF D, sorted
  <2>2. ASSUME NEW i \in D, NEW j \in D
        PROVE  <<i, j>> \in sorted \/ <<j, i>> \in sorted
    <3>1. /\ i \in Int /\ j \in Int
          /\ priority(i) \in Int /\ priority(j) \in Int
      BY <1>4
    <3>2. \/ priority(i) < priority(j) \/ priority(j) < priority(i)
          \/ priority(i) = priority(j) /\ (i <= j \/ j <= i)
      BY <3>1
    <3>3. QED
      BY <2>1, <3>2
  <2>3. \A i, j \in D : <<i, j>> \in sorted /\ <<j, i>> \in sorted => i = j
    BY <1>4, <2>1
  <2>4. \A i, j, k \in D :
          <<i, j>> \in sorted /\ <<j, k>> \in sorted => <<i, k>> \in sorted
    BY <1>4, <2>1
  <2>5. QED
    BY <2>2, <2>3, <2>4 DEF IsTotalOrder
<1>7. /\ order \in [D -> D]
      /\ \A i \in D : Place(D, sorted, i) \in D /\ order[Place(D, sorted, i)] = i
  <2>1. D = 1..Cardinality(D)
    BY <1>3
  <2> HIDE DEF D, sorted
  <2>2. QED
    BY <1>3, <1>6, <2>1, InOrderLists, PlaceType
<1>8. \A i, j \in D : i <= j => priority(order[i]) <= priority(order[j])
  <2> SUFFICES ASSUME NEW i \in D, NEW j \in D, i <= j
               PROVE  priority(order[i]) <= priority(order[j])
    OBVIOUS
  <2>1. <<order[i], order[j]>> \in sorted
    BY <1>3, <1>6, InOrderMonotone
  <2>2. priority(order[i]) \in Int /\ priority(order[j]) \in Int
    BY <1>4, <1>7
  <2> HIDE DEF order, priority
  <2>3. QED
    BY <2>1, <2>2
<1> HIDE DEF order, sorted
<1>9. s \in [D -> S] /\ \A i \in D : s[i] = members[order[i]]
  BY <1>2, <1>5, <1>7
<1> HIDE DEF s
<1>10. s \in Seq(S) /\ Len(s) = Cardinality(S)
  <2>1. s \in UNION {[1..n -> S] : n \in Nat}
    BY <1>2, <1>9, Zenon
  <2>2. s \in Seq(S)
    BY <2>1, SeqDef, Zenon
  <2>3. Len(s) \in Nat /\ DOMAIN s = 1..Len(s)
    BY <2>2, LenProperties
  <2>4. 1..Len(s) = 1..Cardinality(S)
    BY <1>9, <2>3
  <2>5. QED
    BY <1>2, <2>2, <2>3, <2>4
<1>11. \A e \in S : \E i \in 1..Len(s) : s[i] = e
  <2> SUFFICES ASSUME NEW e \in S PROVE \E i \in D : s[i] = e
    BY <1>10
  <2>1. PICK i \in D : members[i] = e
    BY <1>2
  <2>2. Place(D, sorted, i) \in D /\ s[Place(D, sorted, i)] = e
    BY <1>7, <1>9, <2>1
  <2>3. QED
    BY <2>2
<1>12. \A i, j \in 1..Len(s) : i <= j => h[s[i]].priority <= h[s[j]].priority
  BY <1>8, <1>9, <1>10
<1>13. QED
  BY <1>1, <1>10, <1>11, <1>12 DEF Lists, s

\* A list of nothing is empty, and no other.
LEMMA EmptyLists ==
  ASSUME NEW S, IsFiniteSet(S), NEW s, Lists(s, S)
  PROVE  s = <<>> <=> S = {}
<1>1. Len(s) \in Nat /\ (s # <<>> => Len(s) # 0)
  BY EmptySeq, LenProperties DEF Lists
<1>2. Cardinality(S) = 0 <=> S = {}
  BY FS_EmptySet
<1>3. Len(<<>>) = 0
  BY EmptySeq
<1>4. QED
  BY <1>1, <1>2, <1>3 DEF Lists

\* The last one first, then the others in order: every one once.
LEMMA LastFirst ==
  ASSUME NEW S, NEW s, Lists(s, S), s # <<>>
  PROVE  LET r == <<Last(s)>> \o Front(s)
         IN  Lists(r, S) /\ r[1] = s[Len(s)] /\ Len(r) \in Nat \ {0}
<1> DEFINE n == Len(s)
           f == Front(s)
           r == <<Last(s)>> \o f
<1>1. s \in Seq(S) /\ n \in Nat \ {0} /\ \A i \in 1..n : s[i] \in S
  BY EmptySeq, ElementOfSeq DEF Lists
<1>2. <<Last(s)>> \in Seq(S) /\ Len(<<Last(s)>>) = 1 /\ <<Last(s)>>[1] = s[n]
  BY <1>1 DEF Last
<1>3. /\ f \in Seq(S) /\ Len(f) = n - 1
      /\ \A i \in 1..(n - 1) : f[i] = s[i]
  <2>1. \A i \in 1..(n - 1) : s[i] \in S
    BY <1>1
  <2>2. /\ SubSeq(s, 1, n - 1) \in Seq(S)
        /\ Len(SubSeq(s, 1, n - 1)) = IF 1 <= n - 1 THEN n - 1 - 1 + 1 ELSE 0
        /\ \A i \in 1..(n - 1 - 1 + 1) : SubSeq(s, 1, n - 1)[i] = s[1 + i - 1]
    <3>1. 1 \in Int /\ n - 1 \in Int
      BY <1>1
    <3> HIDE DEF n
    <3>2. QED
      BY <2>1, <3>1, SubSeqProperties
  <2>3. f = SubSeq(s, 1, n - 1)
    BY DEF Front
  <2> HIDE DEF f, n
  <2>4. QED
    BY <1>1, <2>2, <2>3
<1> HIDE DEF f, n
<1>4. /\ r \in Seq(S) /\ Len(r) = n
      /\ \A i \in 1..n : r[i] = IF i <= 1 THEN s[n] ELSE s[i - 1]
  <2> DEFINE l == <<Last(s)>>
  <2>1. l \in Seq(S) /\ Len(l) = 1 /\ l[1] = s[n]
    BY <1>2
  <2> HIDE DEF l
  <2>2. /\ l \o f \in Seq(S) /\ Len(l \o f) = Len(l) + Len(f)
        /\ \A i \in 1..(Len(l) + Len(f)) :
             (l \o f)[i] = IF i <= Len(l) THEN l[i] ELSE f[i - Len(l)]
    BY <1>3, <2>1, ConcatProperties
  <2>3. r = l \o f
    BY DEF l
  <2> HIDE DEF r
  <2>4. QED
    BY <1>1, <1>3, <2>1, <2>2, <2>3
<1> HIDE DEF r
<1>5. ASSUME NEW e \in S
      PROVE  \E i \in 1..Len(r) : r[i] = e
  <2>1. PICK i \in 1..n : s[i] = e
    BY DEF Lists, n
  <2>2. CASE i = n
    BY <1>1, <1>4, <2>1, <2>2
  <2>3. CASE i # n
    <3>1. i + 1 \in 1..n /\ i + 1 > 1 /\ (i + 1) - 1 = i
      BY <1>1, <2>3
    <3>2. r[i + 1] = e
      BY <1>4, <2>1, <3>1
    <3>3. QED
      BY <1>4, <3>1, <3>2
  <2>4. QED
    BY <2>2, <2>3
<1>6. r[1] = s[n]
  BY <1>1, <1>4
<1>7. Lists(r, S) /\ r[1] = s[Len(s)] /\ Len(r) \in Nat \ {0}
  BY <1>1, <1>4, <1>5, <1>6 DEF Lists, n
<1>8. QED
  BY <1>7 DEF r, f

\* Two lists of different things, one after the other.
LEMMA BothListed ==
  ASSUME NEW S, NEW T, IsFiniteSet(S), IsFiniteSet(T), S \cap T = {},
         NEW s, NEW t, Lists(s, S), Lists(t, T)
  PROVE  /\ Lists(s \o t, S \cup T)
         /\ Len(s) # 0 => (s \o t)[1] = s[1]
<1>1. s \in Seq(S \cup T) /\ t \in Seq(S \cup T)
  BY SeqMonotonic DEF Lists
<1>2. /\ s \o t \in Seq(S \cup T) /\ Len(s \o t) = Len(s) + Len(t)
      /\ \A i \in 1..(Len(s) + Len(t)) :
           (s \o t)[i] = IF i <= Len(s) THEN s[i] ELSE t[i - Len(s)]
  BY <1>1, ConcatProperties
<1>3. Len(s) \in Nat /\ Len(t) \in Nat
  BY LenProperties DEF Lists
<1>4. Len(s \o t) = Cardinality(S \cup T)
  <2>1. Cardinality(S \cup T) = Cardinality(S) + Cardinality(T) - Cardinality(S \cap T)
    BY FS_Union
  <2>2. Cardinality(S \cap T) = 0
    BY FS_EmptySet
  <2>3. QED
    BY <1>2, <1>3, <2>1, <2>2 DEF Lists
<1>5. ASSUME NEW e \in S \cup T
      PROVE  \E i \in 1..Len(s \o t) : (s \o t)[i] = e
  <2>1. CASE e \in S
    <3>1. PICK i \in 1..Len(s) : s[i] = e
      BY <2>1 DEF Lists
    <3>2. QED
      BY <1>2, <1>3, <3>1
  <2>2. CASE e \in T
    <3>1. PICK i \in 1..Len(t) : t[i] = e
      BY <2>2 DEF Lists
    <3>2. /\ i + Len(s) \in 1..(Len(s) + Len(t)) /\ ~(i + Len(s) <= Len(s))
          /\ i + Len(s) - Len(s) = i
      BY <1>3
    <3>3. (s \o t)[i + Len(s)] = e
      BY <1>2, <3>1, <3>2
    <3>4. QED
      BY <1>2, <3>2, <3>3
  <2>3. QED
    BY <2>1, <2>2
<1>6. Len(s) # 0 => (s \o t)[1] = s[1]
  BY <1>2, <1>3
<1>7. QED
  BY <1>2, <1>4, <1>5, <1>6 DEF Lists

\* The chain names the preferred and the secondary models, and begins with the last
\* of the preferred.
LEMMA ChainListed ==
  ASSUME NEW P, NEW Q, IsFiniteSet(P), IsFiniteSet(Q), P \cap Q = {},
         NEW p, NEW q, Lists(p, P), Lists(q, Q)
  PROVE  /\ Lists(RequestedAndFallback(p, q), P \cup Q)
         /\ P # {} => RequestedAndFallback(p, q)[1] = p[Len(p)] /\ Len(p) \in Nat \ {0}
<1> DEFINE r == RequestedAndFallback(p, q)
<1>1. (p = <<>> <=> P = {}) /\ (q = <<>> <=> Q = {})
  BY EmptyLists
<1>2. CASE p # <<>>
  <2> DEFINE l == <<Last(p)>> \o Front(p)
  <2>1. Lists(l, P) /\ l[1] = p[Len(p)] /\ Len(l) \in Nat \ {0}
    BY <1>2, LastFirst
  <2>2. r = l \o q
    BY <1>2 DEF RequestedAndFallback
  <2> HIDE DEF l, r
  <2>3. Lists(r, P \cup Q) /\ r[1] = p[Len(p)]
    BY <2>1, <2>2, BothListed
  <2>4. Len(p) \in Nat \ {0}
    BY <1>2, EmptySeq DEF Lists
  <2>5. QED
    BY <2>3, <2>4 DEF r
<1>3. CASE p = <<>> /\ q # <<>>
  <2>1. Lists(<<Last(q)>> \o Front(q), Q)
    BY <1>3, LastFirst
  <2>2. r = <<Last(q)>> \o Front(q) /\ P = {} /\ P \cup Q = Q
    BY <1>1, <1>3 DEF RequestedAndFallback
  <2>3. QED
    BY <2>1, <2>2
<1>4. CASE p = <<>> /\ q = <<>>
  <2>1. r = p /\ P = {} /\ P \cup Q = P
    BY <1>1, <1>4 DEF RequestedAndFallback
  <2>2. QED
    BY <2>1
<1>5. QED
  BY <1>2, <1>3, <1>4

\* The ids are models of the catalogue.
IdsAreModels == ids \subseteq Models

LEMMA IdsStep == IdsAreModels /\ [Next]_vars => IdsAreModels'
<1> SUFFICES ASSUME IdsAreModels, [Next]_vars PROVE IdsAreModels'
  OBVIOUS
<1>1. CASE ids' = ids
  BY <1>1 DEF IdsAreModels
<1>2. CASE \E c \in Reloaders : Reload(c) \/ ReloadBreaks(c)
  BY <1>2 DEF Reload, DropIds, AddIds, PutHash, ReloadBreaks, redisVars, Listed,
     IdsAreModels
<1>3. CASE CatalogNext
  BY <1>1, <1>2, <1>3 DEF CatalogNext, EditTable, Web, WebCrash, BootReload,
     BootWithoutReload, Listen, TimerReload, AdminReload, Unlock, LockExpires, Submit,
     Handler, ReadIds, ResolveChain, ChooseModel, RefuseSubmission, PreflightIds,
     PreflightHashes, WebFrame, PickFrame, WorkerFrame, redisVars
<1>4. CASE UNCHANGED catalogVars
  BY <1>1, <1>4 DEF catalogVars, redisVars
<1>5. QED
  BY <1>3, <1>4 DEF Next, Models_, Limits_, vars

\* Whatever a reload has left in Redis, the chain of a submission names every loaded
\* model of a type its mode allows, once, the best of the preferred ones first.
THEOREM ChainsAreComplete == Spec => []ChainIsComplete
<1>1. Init => IdsAreModels
  BY DEF Init, CatalogInit, IdsAreModels
<1>2. ModelsInv /\ IdsAreModels => ChainIsComplete
  <2> SUFFICES ASSUME ModelsInv, IdsAreModels, NEW type \in {"hard", "lite"}
               PROVE  LET chain == ModelChain(type, ids, hash)
                          loaded == {m \in ids : hash[m] # NoRow}
                          usable == {m \in loaded : type = "hard" \/ hash[m].type = "lite"}
                          preferred == {m \in loaded : hash[m].type = type}
                      IN  /\ ToSet(chain) = usable /\ Len(chain) = Cardinality(usable)
                          /\ preferred # {} =>
                               /\ chain[1] \in preferred
                               /\ \A m \in preferred :
                                    hash[m].priority <= hash[chain[1]].priority
    BY DEF ChainIsComplete
  <2> DEFINE chain == ModelChain(type, ids, hash)
             ofType(t) == {m \in ids : hash[m] # NoRow /\ hash[m].type = t}
             usable == {m \in {o \in ids : hash[o] # NoRow} :
                          type = "hard" \/ hash[m].type = "lite"}
             ranked(t) == RankedByPriority(ids, hash, t)
  <2>1. /\ IsFiniteSet(ids)
        /\ \A m \in ids : hash[m] # NoRow => /\ hash[m].priority \in Int
                                             /\ hash[m].type \in {"hard", "lite"}
    BY SeedAssumption, RowsAssumption, FS_Subset
       DEF IdsAreModels, ModelsInv, ModelsTyped, MaybeRow
  <2>2. ASSUME NEW t \in {"hard", "lite"}
        PROVE  /\ IsFiniteSet(ofType(t)) /\ Lists(ranked(t), ofType(t))
               /\ \A i, j \in 1..Len(ranked(t)) :
                    i <= j => hash[ranked(t)[i]].priority <= hash[ranked(t)[j]].priority
    BY <2>1, RankedListed
  <2> DEFINE secondary == IF type = "hard" THEN ranked("lite") ELSE <<>>
             others == IF type = "hard" THEN ofType("lite") ELSE {}
             best == ranked(type)[Len(ranked(type))]
  <2>3. chain = RequestedAndFallback(ranked(type), secondary)
    BY DEF ModelChain
  <2>4. usable = ofType(type) \cup others /\ ofType(type) \cap others = {}
    BY <2>1
  <2>5. IsFiniteSet(others) /\ Lists(secondary, others)
    <3>1. IsFiniteSet({}) /\ Lists(<<>>, {})
      BY FS_EmptySet, EmptySeq DEF Lists
    <3>2. QED
      BY <2>2, <3>1
  <2>6. /\ Lists(chain, usable)
        /\ ofType(type) # {} => chain[1] = best /\ Len(ranked(type)) \in Nat \ {0}
    <3>1. IsFiniteSet(ofType(type)) /\ Lists(ranked(type), ofType(type))
      BY <2>2
    <3> HIDE DEF ofType, ranked, secondary, others, chain, usable
    <3>2. QED
      BY <2>3, <2>4, <2>5, <3>1, ChainListed DEF best
  <2>7. ToSet(chain) = usable /\ Len(chain) = Cardinality(usable)
    <3> HIDE DEF chain, usable
    <3>1. \A i \in 1..Len(chain) : chain[i] \in usable
      BY <2>6, ElementOfSeq DEF Lists
    <3>2. DOMAIN chain = 1..Len(chain)
      BY <2>6, LenProperties DEF Lists
    <3>3. QED
      BY <2>6, <3>1, <3>2 DEF Lists, ToSet
  <2>8. ASSUME ofType(type) # {}
        PROVE  /\ chain[1] \in ofType(type)
               /\ \A m \in ofType(type) : hash[m].priority <= hash[chain[1]].priority
    <3> HIDE DEF ofType, ranked, chain
    <3>1. Lists(ranked(type), ofType(type)) /\ Len(ranked(type)) \in Nat \ {0}
          /\ chain[1] = best
      BY <2>2, <2>6, <2>8
    <3>2. Len(ranked(type)) \in 1..Len(ranked(type))
      BY <3>1
    <3>3. best \in ofType(type)
      BY <3>1, <3>2, ElementOfSeq DEF Lists
    <3>4. ASSUME NEW m \in ofType(type)
          PROVE  hash[m].priority <= hash[best].priority
      <4>1. PICK i \in 1..Len(ranked(type)) : ranked(type)[i] = m
        BY <3>1 DEF Lists
      <4>2. i <= Len(ranked(type))
        BY <3>1
      <4>3. QED
        BY <2>2, <3>2, <4>1, <4>2
    <3>5. QED
      BY <3>1, <3>3, <3>4
  <2>9. ofType(type) = {m \in {o \in ids : hash[o] # NoRow} : hash[m].type = type}
    OBVIOUS
  <2> HIDE DEF chain
  <2>10. QED
    BY <2>7, <2>8, <2>9 DEF chain
<1>3. QED
  BY <1>1, <1>2, IdsStep, ModelsInvHolds, PTL DEF Spec

-----------------------------------------------------------------------------
(* The limits of the user. Whatever is cached, read or about to be cached  *)
(* is something the user had, or the defaults with an excuse.              *)

Real == had \cup (IF excused THEN {DefaultLimits} ELSE {})

\* The history covers the row, and only a missing row needs an excuse.
RowIsReal ==
  /\ had \subseteq UserRows /\ excused \in BOOLEAN
  /\ IF userRow = NoLimits THEN excused ELSE userRow \in had

\* The row that the preloader read.
PreloadIsReal ==
  /\ boot = [at |-> boot.at, row |-> boot.row]
  /\ boot.at \in {"hset", "expire"} => boot.row \in had

\* What a hash holds when it is there.
CacheIsReal == cache = NoLimits \/ \E l \in Real : cache = Stored(l)

\* What a submission has learned, and knows before it caches it.
AskIsReal ==
  /\ ask = [at |-> ask.at, limits |-> ask.limits]
  /\ ask.at \in {"persist", "defaults"} => ask.limits \in Real

LimitsInv == RowIsReal /\ PreloadIsReal /\ CacheIsReal /\ AskIsReal /\ UsedAreReal

\* Strings and back: what was stored is what is loaded, null limits and the flag
\* included.
LEMMA LoadedAsStored ==
  ASSUME NEW l \in AnyLimits
  PROVE  Loaded(Stored(l)) = l
<1>1. l \in [number : Nat \cup {Null}, unlimited : BOOLEAN]
  <2>1. DefaultLimits \in [number : Nat \cup {Null}, unlimited : BOOLEAN]
    BY DEF DefaultLimits
  <2>2. UserRows \subseteq [number : Nat \cup {Null}, unlimited : BOOLEAN]
    BY LimitsAssumption
  <2>3. QED
    BY <2>1, <2>2 DEF AnyLimits
<1>2. Loaded(Stored(l)).number = l.number
  <2>1. CASE l.number = Null
    BY <2>1 DEF Loaded, Stored
  <2>2. CASE l.number # Null
    <3>1. <<l.number>> # <<>> /\ <<l.number>>[1] = l.number
      OBVIOUS
    <3>2. QED
      BY <2>2, <3>1 DEF Loaded, Stored
  <2>3. QED
    BY <2>1, <2>2
<1>3. Loaded(Stored(l)).unlimited = l.unlimited
  BY <1>1 DEF Loaded, Stored
<1>4. QED
  BY <1>1, <1>2, <1>3 DEF Loaded

\* The real limits are limits.
LEMMA RealAreLimits ==
  ASSUME RowIsReal
  PROVE  Real \subseteq AnyLimits
BY DEF RowIsReal, Real, AnyLimits

\* What was real stays so.
LEMMA RealGrows ==
  ASSUME LimitsNext
  PROVE  had \subseteq had' /\ (excused => excused') /\ Real \subseteq Real'
<1>1. had \subseteq had' /\ (excused => excused')
  <2>1. CASE \E row \in UserRows \cup {NoLimits} : EditRow(row)
    BY <2>1 DEF EditRow
  <2>2. CASE CacheExpires
    BY <2>2 DEF CacheExpires
  <2>3. CASE Preload \/ PreloadFails \/ Stop \/ Crash
    BY <2>3 DEF Preload, PreloadQuery, PreloadPut, PreloadExpire, PreloadFails, Stop,
       Crash, BootFrame
  <2>4. CASE Ask \/ GetLimits \/ QueryLimitsFails \/ PersistLimitsFails
    BY <2>4 DEF Ask, GetLimits, ReadCache, QueryLimits, PersistLimits, UseLimits,
       QueryLimitsFails, PersistLimitsFails, AskFrame
  <2>5. QED
    BY <2>1, <2>2, <2>3, <2>4 DEF LimitsNext
<1>2. QED
  BY <1>1 DEF Real

\* An edit of the row goes into the history.
LEMMA RowStep ==
  ASSUME LimitsInv, (\E row \in UserRows \cup {NoLimits} : EditRow(row)) \/ CacheExpires
  PROVE  LimitsInv'
<1>1. LimitsNext
  BY DEF LimitsNext
<1>2. Real \subseteq Real' /\ had \subseteq had'
  BY <1>1, RealGrows
<1>3. boot' = boot /\ ask' = ask /\ (cache' = cache \/ cache' = NoLimits)
  BY DEF EditRow, CacheExpires
<1>4. RowIsReal'
  BY LimitsAssumption DEF EditRow, CacheExpires, LimitsInv, RowIsReal
<1>5. PreloadIsReal' /\ CacheIsReal' /\ AskIsReal'
  BY <1>2, <1>3 DEF LimitsInv, PreloadIsReal, CacheIsReal, AskIsReal
<1>6. UsedAreReal'
  BY <1>2, <1>3 DEF LimitsInv, UsedAreReal, Real
<1>7. QED
  BY <1>4, <1>5, <1>6 DEF LimitsInv

\* The boot preloads the row it read, and an instance goes and comes.
LEMMA BootStep ==
  ASSUME LimitsInv, Preload \/ PreloadFails \/ Stop \/ Crash
  PROVE  LimitsInv'
<1>1. UNCHANGED <<userRow, had, excused>>
  BY DEF Preload, PreloadQuery, PreloadPut, PreloadExpire, PreloadFails, Stop, Crash,
     BootFrame
<1>2. RowIsReal' /\ Real' = Real
  BY <1>1 DEF LimitsInv, RowIsReal, Real
<1>3. ask' = ask \/ ask' = NoAsk
  BY DEF Preload, PreloadQuery, PreloadPut, PreloadExpire, PreloadFails, Stop, Crash,
     BootFrame
<1>4. AskIsReal' /\ UsedAreReal'
  BY <1>1, <1>2, <1>3 DEF LimitsInv, AskIsReal, UsedAreReal, NoAsk
<1>5. PreloadIsReal'
  <2>1. CASE PreloadQuery
    BY <1>1, <2>1 DEF PreloadQuery, LimitsInv, PreloadIsReal, RowIsReal, Serving
  <2>2. CASE PreloadPut
    <3>1. boot' = [at |-> "expire", row |-> boot.row] /\ boot.row \in had
      BY <2>2 DEF PreloadPut, LimitsInv, PreloadIsReal
    <3>2. QED
      BY <1>1, <3>1 DEF PreloadIsReal
  <2>3. CASE PreloadExpire \/ PreloadFails \/ Stop \/ Crash
    BY <2>3 DEF PreloadExpire, PreloadFails, Stop, Crash, PreloadIsReal, Serving, Down
  <2>4. QED
    BY <2>1, <2>2, <2>3 DEF Preload
<1>6. CacheIsReal'
  <2>1. CASE PreloadPut
    <3>1. cache' = Stored(boot.row) /\ boot.row \in Real'
      BY <1>2, <2>1 DEF PreloadPut, LimitsInv, PreloadIsReal, Real
    <3>2. QED
      BY <3>1 DEF CacheIsReal
  <2>2. CASE cache' = cache
    BY <1>2, <2>2 DEF LimitsInv, CacheIsReal
  <2>3. QED
    BY <2>1, <2>2 DEF Preload, PreloadQuery, PreloadExpire, PreloadFails, Stop, Crash
<1>7. QED
  BY <1>2, <1>4, <1>5, <1>6 DEF LimitsInv

\* getCachedUserLimits.
LEMMA AskStep ==
  ASSUME LimitsInv, Ask \/ GetLimits \/ QueryLimitsFails \/ PersistLimitsFails
  PROVE  LimitsInv'
<1>1. /\ UNCHANGED <<userRow, boot, had>>
      /\ excused' = excused \/ excused' = TRUE
  BY DEF Ask, GetLimits, ReadCache, QueryLimits, PersistLimits, UseLimits,
     QueryLimitsFails, PersistLimitsFails, AskFrame
<1>2. RowIsReal' /\ PreloadIsReal' /\ Real \subseteq Real'
  BY <1>1 DEF LimitsInv, RowIsReal, PreloadIsReal, Real
<1>3. CacheIsReal' /\ AskIsReal' /\ (ask'.limits # NoLimits => ask'.limits \in Real')
  <2>1. CASE Ask \/ UseLimits
    BY <1>2, <2>1 DEF Ask, UseLimits, NoAsk, LimitsInv, CacheIsReal, AskIsReal
  <2>2. CASE ReadCache
    <3>1. cache' = cache
      BY <2>2 DEF ReadCache
    <3>2. CASE cache = NoLimits
      BY <2>2, <3>1, <3>2 DEF ReadCache, CacheIsReal, AskIsReal
    <3>3. CASE cache # NoLimits
      <4>1. PICK l \in Real : cache = Stored(l)
        BY <3>3 DEF LimitsInv, CacheIsReal
      <4>2. Loaded(cache) = l
        BY <4>1, LoadedAsStored, RealAreLimits DEF LimitsInv
      <4>3. ask' = [at |-> "known", limits |-> l]
        BY <2>2, <3>3, <4>2 DEF ReadCache
      <4>4. QED
        BY <1>2, <3>1, <4>1, <4>3 DEF CacheIsReal, AskIsReal
    <3>4. QED
      BY <3>2, <3>3
  <2>3. CASE QueryLimits
    <3> DEFINE l == IF userRow = NoLimits THEN DefaultLimits ELSE userRow
    <3>1. l \in Real
      BY DEF LimitsInv, RowIsReal, Real
    <3>2. ask'.limits = l /\ cache' = cache /\ ask' = [at |-> ask'.at, limits |-> l]
      BY <2>3 DEF QueryLimits, Defaults
    <3> HIDE DEF l
    <3>3. QED
      BY <1>2, <3>1, <3>2 DEF LimitsInv, CacheIsReal, AskIsReal
  <2>4. CASE QueryLimitsFails
    BY <1>2, <2>4 DEF QueryLimitsFails, Defaults, LimitsInv, CacheIsReal,
       AskIsReal, Real
  <2>5. CASE PersistLimits
    <3>1. ask.limits \in Real
      BY <2>5 DEF PersistLimits, LimitsInv, AskIsReal
    <3>2. cache' = Stored(ask.limits) /\ ask' = [at |-> "known", limits |-> ask.limits]
      BY <2>5 DEF PersistLimits, LimitsInv, AskIsReal
    <3>3. QED
      BY <1>2, <3>1, <3>2 DEF CacheIsReal, AskIsReal
  <2>6. CASE PersistLimitsFails
    <3>1. ask.limits \in Real' /\ DefaultLimits \in Real'
      BY <1>2, <2>6 DEF PersistLimitsFails, LimitsInv, AskIsReal, Real
    <3>2. cache' = cache \/ cache' = Stored(ask.limits)
      BY <2>6 DEF PersistLimitsFails
    <3>3. CacheIsReal'
      BY <1>2, <3>1, <3>2 DEF LimitsInv, CacheIsReal
    <3>4. ask' = Defaults \/ ask' = NoAsk
      BY <2>6 DEF PersistLimitsFails
    <3>5. QED
      BY <3>1, <3>3, <3>4 DEF AskIsReal, Defaults, NoAsk
  <2>7. QED
    BY <2>1, <2>2, <2>3, <2>4, <2>5, <2>6 DEF GetLimits
<1>4. UsedAreReal'
  BY <1>3 DEF UsedAreReal, Real
<1>5. QED
  BY <1>2, <1>3, <1>4 DEF LimitsInv

\* The models' half leaves the limits alone.
LEMMA LimitsStep == LimitsInv /\ [Next]_vars => LimitsInv'
<1> SUFFICES ASSUME LimitsInv, [Next]_vars PROVE LimitsInv'
  OBVIOUS
<1>1. CASE UNCHANGED limitVars
  BY <1>1 DEF limitVars, LimitsInv, RowIsReal, PreloadIsReal, CacheIsReal, AskIsReal,
     UsedAreReal, Real
<1>2. CASE LimitsNext
  BY <1>2, RowStep, BootStep, AskStep DEF LimitsNext
<1>3. QED
  BY <1>1, <1>2 DEF Next, Models_, Limits_, vars

\* A submission is held to limits its user had, and to the defaults of the role only
\* when there was no row, or a query or the HSET of its row failed.
THEOREM LimitsAreReal == Spec => []UsedAreReal
<1>1. Init => LimitsInv
  <2> SUFFICES ASSUME Init PROVE LimitsInv
    OBVIOUS
  <2>1. RowIsReal
    BY LimitsAssumption DEF Init, LimitsInit, RowIsReal
  <2>2. PreloadIsReal /\ CacheIsReal /\ AskIsReal /\ UsedAreReal
    BY DEF Init, LimitsInit, PreloadIsReal, CacheIsReal, AskIsReal, UsedAreReal, Down,
       NoAsk
  <2>3. QED
    BY <2>1, <2>2 DEF LimitsInv
<1>2. LimitsInv => UsedAreReal
  BY DEF LimitsInv
<1>3. QED
  BY <1>1, <1>2, LimitsStep, PTL DEF Spec
=============================================================================

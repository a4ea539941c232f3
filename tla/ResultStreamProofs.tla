------------------------- MODULE ResultStreamProofs -------------------------
(***************************************************************************)
(* Nobody is told NOT_FOUND of a job that was accepted, no poll takes back *)
(* what an earlier one said, and no error is retried that should not be,   *)
(* for any answer, any number of runs and of lost connections.             *)
(*                                                                         *)
(* The job has metadata until it has a result, and the result stays until  *)
(* there is a row; so a handler that found no metadata will find the row,  *)
(* of the stream as of a poll.                                             *)
(*                                                                         *)
(* The second half is about the stream: what a client shows is the text of *)
(* the log up to its cursor, and the text of one run is the answer.        *)
(***************************************************************************)
EXTENDS ResultReads, RankingProofs, SequenceTheorems, TLAPS

\* The result has been written.
Settled == work \in {"recorded", "marked_failed", "over"}

\* Where the job can be found.
Found ==
    /\ work # "over" => meta # "none"
    /\ work \in {"recorded", "marked_failed"} => Job \in cached
    /\ ~Settled => written[Job] = 0 /\ cached = {}
    /\ Settled => written[Job] = 1 /\ (Job \in cached \/ row[Job] = 1)
    /\ meta = "none" => cached = {}
    /\ written \in [{Job} -> 0..1] /\ row \in [{Job} -> 0..1]
    /\ cached \subseteq {Job} /\ deleted = {}
    /\ outcome \in {"none", "completed", "failed"}

\* A handler that saw no metadata will find a row.
SeenFromRow == conn \in {"exists", "database"} /\ seen = "none" => row[Job] = 1

AtDatabase == conn = "database" => seen = "none"

FoundInv == Found /\ SeenFromRow /\ AtDatabase /\ NeverNotFound

\* The row stays once it is there.
LEMMA RowStays ==
    ASSUME Found, Results!Store
    PROVE  /\ row' \in [{Job} -> 0..1]
           /\ row[Job] = 1 => row'[Job] = 1
BY DEF Found, Results!Store

LEMMA WorkerStep ==
    ASSUME FoundInv, Worker \/ Stall
    PROVE  FoundInv'
<1> USE DEF FoundInv, SeenFromRow, AtDatabase, NeverNotFound, resultVars, connVars,
            clientVars, streamVars, workVars, Settled
<1>1. CASE MarkInProgress \/ TakeTokens \/ Delay
  BY <1>1 DEF MarkInProgress, TakeTokens, Delay, Found
<1>2. CASE EmitChunk \/ EmitDone \/ Execute
  BY <1>2 DEF EmitChunk, EmitDone, Execute, Found
<1>3. ASSUME NEW r, ProviderFails(r)
      PROVE  FoundInv'
  BY <1>3 DEF ProviderFails, AfterFailure, Found
<1>4. CASE Refused \/ Stall
  BY <1>4 DEF Refused, Stall, Found
<1>5. CASE StoreAnswer \/ WriteFailure
  <2>1. /\ ~Settled /\ Settled' /\ meta' = meta /\ meta # "none"
        /\ Results!Write(Job)
        /\ UNCHANGED <<conn, seen, told>>
        /\ outcome' \in {"completed", "failed"}
    BY <1>5 DEF StoreAnswer, WriteFailure, Found
  <2>2. written[Job] = 0 /\ written' = [written EXCEPT ![Job] = @ + 1]
    BY <2>1 DEF Found, Results!Write
  <2>3. cached' = {Job} /\ row' = row /\ deleted' = deleted
    BY <2>1 DEF Found, Results!Write
  <2>4. Found'
    BY <2>1, <2>2, <2>3 DEF Found
  <2>5. QED
    BY <2>1, <2>3, <2>4
<1>6. CASE FinalizeMeta \/ MarkFailure \/ PublishFailure
  BY <1>6 DEF FinalizeMeta, MarkFailure, PublishFailure, Found
<1>7. QED
  BY <1>1, <1>2, <1>3, <1>4, <1>5, <1>6 DEF Worker

LEMMA KeysStep ==
    ASSUME FoundInv, Keys
    PROVE  FoundInv'
<1> USE DEF FoundInv, SeenFromRow, AtDatabase, NeverNotFound, resultVars, connVars,
            clientVars, streamVars, workVars, Settled
<1>1. CASE StreamExpires
  BY <1>1 DEF StreamExpires, Found
<1>2. CASE SyncRow
  <2>1. /\ UNCHANGED <<written, cached, deleted, meta, work, conn, seen, told, outcome>>
        /\ Results!Store
    BY <1>2 DEF SyncRow, Results!Store
  <2>2. row' \in [{Job} -> 0..1] /\ (row[Job] = 1 => row'[Job] = 1)
    BY <2>1, RowStays
  <2>3. QED
    BY <2>1, <2>2 DEF Found
<1>3. CASE ResultExpires
  <2>1. /\ UNCHANGED <<written, row, deleted, meta, work, conn, seen, told, outcome>>
        /\ cached' = cached \ {Job}
        /\ row[Job] > 0 \/ Job \in deleted
        /\ Job \in cached /\ work = "over"
    BY <1>3 DEF ResultExpires, Results!Drop
  <2>2. row[Job] = 1 /\ cached' = {}
    BY <2>1 DEF Found
  <2>3. QED
    BY <2>1, <2>2 DEF Found
<1>4. CASE MetaExpires
  BY <1>4 DEF MetaExpires, Found
<1>5. QED
  BY <1>1, <1>2, <1>3, <1>4 DEF Keys

\* The handler and the client change nothing that is stored.
LEMMA ServerStep ==
    ASSUME FoundInv, Server \/ Connect \/ Drop \/ DropAfterJobId
    PROVE  FoundInv'
<1> USE DEF FoundInv, AtDatabase, NeverNotFound
<1>1. UNCHANGED <<written, cached, row, deleted, meta, work, outcome>>
  BY DEF Server, SendResult, NoResult, ReadMeta, SendStatus, ToHistory, ToDatabase,
         SendSnapshot, SendEntry, EndLive, AnswerFromDatabase, Connect,
         Drop, DropAfterJobId, ServerOnly, resultVars, workVars
<1>2. Found'
  BY <1>1 DEF Found, Settled
<1>3. conn = "database" => row[Job] = 1
  BY DEF SeenFromRow
<1>4. told' # "NOT_FOUND"
  <2>1. CASE SendResult \/ AnswerFromDatabase
    BY <1>3, <2>1 DEF SendResult, AnswerFromDatabase, Finish, Found, Settled
  <2>2. CASE SendSnapshot
    BY <2>2 DEF SendSnapshot, Verdict, Close, GoTo, clientVars
  <2>3. CASE SendEntry
    <3>1. told' \in {"completed", "failed", told}
      BY <2>3 DEF SendEntry, Close
    <3>2. QED
      BY <3>1
  <2>4. CASE NoResult \/ ReadMeta \/ SendStatus \/ ToHistory \/ ToDatabase \/ EndLive
    BY <2>4 DEF NoResult, ReadMeta, SendStatus, ToHistory, ToDatabase, EndLive, clientVars
  <2>5. CASE Connect \/ Drop \/ DropAfterJobId
    BY <2>5 DEF Connect, Drop, DropAfterJobId, clientVars
  <2>6. QED
    BY <2>1, <2>2, <2>3, <2>4, <2>5 DEF Server
<1>5. SeenFromRow' /\ AtDatabase'
  <2>1. CASE ReadMeta
    BY <1>1, <2>1 DEF ReadMeta, SeenFromRow, Found, Settled
  <2>2. CASE ToDatabase
    BY <1>1, <2>2 DEF ToDatabase, GoTo, SeenFromRow
  <2>3. CASE conn' \notin {"exists", "database"}
    BY <2>3 DEF SeenFromRow
  <2>4. conn' \notin {"exists", "database"} \/ ReadMeta \/ ToDatabase
        \/ UNCHANGED <<conn, seen>>
    BY DEF Server, SendResult, NoResult, ReadMeta, SendStatus, ToHistory, SendSnapshot,
           SendEntry, EndLive, AnswerFromDatabase, Connect, Drop, DropAfterJobId, Lose,
           Finish, Close, GoTo, connVars
  <2>5. CASE UNCHANGED <<conn, seen>>
    BY <1>1, <2>5 DEF SeenFromRow
  <2>6. QED
    BY <2>1, <2>2, <2>3, <2>4, <2>5
<1>6. QED
  BY <1>2, <1>4, <1>5

\* For every answer, number of runs and of lost connections: a handler that finds
\* neither result nor metadata nor stream finds a row.
THEOREM AlwaysFound == Spec => []NeverNotFound
<1>1. Init => FoundInv
  BY DEF Init, Results!Init, FoundInv, Found, Settled, SeenFromRow, AtDatabase,
         NeverNotFound
<1>2. FoundInv /\ [Next]_vars => FoundInv'
  <2> SUFFICES ASSUME FoundInv, [Next]_vars PROVE FoundInv'
    OBVIOUS
  <2>1. CASE UNCHANGED vars
    BY <2>1 DEF vars, resultVars, workVars, connVars, clientVars, FoundInv, Found,
                Settled, SeenFromRow, AtDatabase, NeverNotFound
  <2>2. CASE Next
    BY <2>2, WorkerStep, KeysStep, ServerStep DEF Next
  <2>3. QED
    BY <2>1, <2>2
<1>3. FoundInv => NeverNotFound
  BY DEF FoundInv
<1>4. QED
  BY <1>1, <1>2, <1>3, PTL DEF Spec

-----------------------------------------------------------------------------
(* Polls.                                                                  *)

\* A poll that found no metadata will find a row.
PollFromRow == poll = "database" => row[Job] = 1

PollInv == FoundInv /\ PollFromRow

\* A row is not deleted while its user is there.
LEMMA RowKept ==
    ASSUME FoundInv, Worker \/ Stall \/ Keys, row[Job] = 1
    PROVE  row'[Job] = 1
<1>1. CASE Worker \/ Stall
  BY <1>1 DEF Worker, Stall, MarkInProgress, TakeTokens, Delay, EmitChunk, EmitDone,
         Execute, ProviderFails, Refused, FinalizeMeta, StoreAnswer, WriteFailure,
         MarkFailure, PublishFailure, resultVars, Results!Write
<1>2. CASE SyncRow
  BY <1>2, RowStays DEF SyncRow, FoundInv
<1>3. CASE StreamExpires \/ ResultExpires \/ MetaExpires
  BY <1>3 DEF StreamExpires, ResultExpires, MetaExpires, resultVars, Results!Drop
<1>4. QED
  BY <1>1, <1>2, <1>3 DEF Keys

LEMMA PollStep ==
    ASSUME PollInv, Poll
    PROVE  PollInv'
<1> USE DEF PollInv, PollFromRow
<1>1. UNCHANGED <<written, cached, row, deleted, meta, work, outcome, conn, seen>>
  BY DEF Poll, Ask, PollResult, PollMeta, PollRow, PollFrame, ServerOnly, resultVars,
         workVars, connVars
<1>2. Found' /\ SeenFromRow' /\ AtDatabase'
  BY <1>1 DEF FoundInv, Found, Settled, SeenFromRow, AtDatabase
<1>3. told' # "NOT_FOUND" /\ PollFromRow'
  <2>1. CASE Ask
    BY <2>1 DEF Ask, FoundInv, NeverNotFound
  <2>2. CASE PollResult
    BY <2>2 DEF PollResult, Tell, FoundInv, NeverNotFound, Found
  <2>3. CASE PollMeta
    BY <1>1, <2>3 DEF PollMeta, FoundInv, NeverNotFound, Found, Settled
  <2>4. CASE PollRow
    BY <2>4 DEF PollRow, Tell, FoundInv, Found
  <2>5. QED
    BY <2>1, <2>2, <2>3, <2>4 DEF Poll
<1>4. QED
  BY <1>2, <1>3 DEF FoundInv, NeverNotFound

\* Every step keeps what a poll relies on.
LEMMA PollInvStep == PollInv /\ [ReadsNext]_readVars => PollInv'
<1> SUFFICES ASSUME PollInv, [ReadsNext]_readVars PROVE PollInv'
  OBVIOUS
<1> USE DEF PollInv, PollFromRow
<1>1. CASE UNCHANGED readVars
  BY <1>1 DEF readVars, pollVars, vars, resultVars, workVars, connVars, clientVars,
              FoundInv, Found, Settled, SeenFromRow, AtDatabase, NeverNotFound
<1>2. CASE (Worker \/ Stall \/ Keys) /\ UNCHANGED pollVars
  BY <1>2, WorkerStep, KeysStep, RowKept DEF pollVars
<1>3. CASE Stream /\ UNCHANGED pollVars
  <2>1. FoundInv'
    BY <1>3, ServerStep DEF Stream
  <2>2. UNCHANGED <<row, poll>>
    BY <1>3 DEF Stream, pollVars, Server, SendResult, NoResult, ReadMeta, SendStatus,
           ToHistory, ToDatabase, SendSnapshot, SendEntry, EndLive, AnswerFromDatabase,
           Connect, Drop, DropAfterJobId, ServerOnly, resultVars
  <2>3. QED
    BY <2>1, <2>2
<1>4. CASE Poll
  BY <1>4, PollStep
<1>5. QED
  BY <1>1, <1>2, <1>3, <1>4 DEF ReadsNext

\* The same for a client of either kind, over the stream and over polls: no lookup of
\* an accepted job ends in NOT_FOUND.
THEOREM AlwaysFoundByAll == ReadsSpec => []NeverNotFound
<1>1. ReadsInit => PollInv
  BY DEF ReadsInit, Init, Results!Init, PollInv, PollFromRow, FoundInv, Found, Settled,
         SeenFromRow, AtDatabase, NeverNotFound
<1>2. PollInv => NeverNotFound
  BY DEF PollInv, FoundInv
<1>3. QED
  BY <1>1, <1>2, PollInvStep, PTL DEF ReadsSpec

-----------------------------------------------------------------------------
(* Retries.                                                                *)

\* GEMINI_ERROR_MAP as a table.
LEMMA CodesOfNames ==
  /\ Names = {"INVALID_ARGUMENT", "FAILED_PRECONDITION", "PERMISSION_DENIED", "NOT_FOUND",
              "RESOURCE_EXHAUSTED", "INTERNAL", "UNAVAILABLE", "DEADLINE_EXCEEDED"}
  /\ HttpCode["INVALID_ARGUMENT"] = 400 /\ HttpCode["FAILED_PRECONDITION"] = 400
  /\ HttpCode["PERMISSION_DENIED"] = 403 /\ HttpCode["NOT_FOUND"] = 404
  /\ HttpCode["RESOURCE_EXHAUSTED"] = 429 /\ HttpCode["INTERNAL"] = 500
  /\ HttpCode["UNAVAILABLE"] = 503 /\ HttpCode["DEADLINE_EXCEEDED"] = 504
BY DEF Names, HttpCode

Network == [status: {0}, name: {"none"}, network: {TRUE}, tooLong: {FALSE}]

Service ==
  [status: {0, 400, 403, 404, 418, 429, 500, 502, 503, 504},
   name: Names \cup {"none"}, network: {FALSE}, tooLong: BOOLEAN]

\* What a service answered is not an error of the network.
LEMMA NotOfNetwork == \A e \in Service : e.network = FALSE
<1> DEFINE S == {0, 400, 403, 404, 418, 429, 500, 502, 503, 504}
           T == Names \cup {"none"}
<1>1. Service = [status: S, name: T, network: {FALSE}, tooLong: BOOLEAN]
  BY Zenon DEF Service
<1> HIDE DEF S, T
<1>2. QED
  BY <1>1, Zenon

\* Normalising an error keeps the verdict: what the worker is told is retryable is
\* what the documents call temporary, and a context that is too long under a 5xx
\* other than 500.
LEMMA VerdictKept ==
  ASSUME NEW e \in ProviderErrors
  PROVE  Retryable(e) <=> IsTemporary(e) \/ Overlong(e)
<1>1. \/ e \in Network
      \/ e \in Service /\ (e.name = "none" \/ e.status \in {0, HttpCode[e.name]})
  <2>1. ProviderErrors = Network \cup
          {x \in Service : x.name = "none" \/ x.status \in {0, HttpCode[x.name]}}
    BY DEF ProviderErrors, Unset, NoName, Network, Service
  <2>2. QED
    BY <2>1
<1>2. CASE e \in Network
  <2>1. e.status = 0 /\ e.name = "none" /\ e.network = TRUE
    BY <1>2 DEF Network
  <2>2. Normalize(e) = e
    BY <2>1 DEF Normalize, MappedStatus, Unset, NoName
  <2>3. QED
    BY <2>1, <2>2 DEF Retryable, IsRetryable, IsTemporary
<1>3. CASE e \in Service /\ (e.name = "none" \/ e.status \in {0, HttpCode[e.name]})
  <2> DEFINE mapped == MappedStatus(e)
  <2>1. /\ e.status \in {0, 400, 403, 404, 418, 429, 500, 502, 503, 504}
        /\ e.name \in Names \cup {"none"}
        /\ e.tooLong \in BOOLEAN /\ e.network = FALSE
        /\ e.name = "none" \/ e.status \in {0, HttpCode[e.name]}
    <3>1. e \in Service
      BY <1>3
    <3>2. /\ e.status \in {0, 400, 403, 404, 418, 429, 500, 502, 503, 504}
          /\ e.name \in Names \cup {"none"}
      BY <3>1 DEF Service
    <3>3. e.tooLong \in BOOLEAN
      BY <3>1 DEF Service
    <3>4. e.network = FALSE
      BY <3>1, NotOfNetwork
    <3>5. QED
      BY <1>3, <3>2, <3>3, <3>4
  <2>2. CASE e.name = "none"
    <3>1. mapped = e.status
      BY <2>2 DEF MappedStatus, NoName
    <3>2. CASE e.status = 0
      BY <2>1, <2>2, <3>1, <3>2 DEF Retryable, IsRetryable, Normalize, IsTemporary,
         Overlong, Unset, MappedStatus, NoName
    <3>3. CASE e.status # 0
      <4>1. Normalize(e) = [status |-> e.status, name |-> "none", network |-> FALSE,
                            tooLong |-> e.tooLong]
        BY <2>1, <2>2, <3>1, <3>3 DEF Normalize, Unset, NoName
      <4>2. MappedStatus(Normalize(e)) = e.status
        BY <4>1 DEF MappedStatus, NoName
      <4>3. Retryable(e) <=> e.status \notin 400..499 /\ ~(e.tooLong /\ e.status = 500)
        BY <2>1, <3>3, <4>1, <4>2 DEF Retryable, IsRetryable, Unset
      <4>4. IsTemporary(e) \/ Overlong(e)
              <=> (e.status = 500 /\ ~e.tooLong) \/ e.status \in 501..599
        BY <2>1, <3>1, <3>3 DEF IsTemporary, Overlong, Unset
      <4>5. QED
        BY <2>1, <3>3, <4>3, <4>4
    <3>4. QED
      BY <3>2, <3>3
  <2>3. CASE e.name # "none"
    <3>1. e.name \in Names /\ mapped = HttpCode[e.name]
      BY <2>1, <2>3 DEF MappedStatus, Unset, NoName
    <3>2. mapped \in {400, 403, 404, 429, 500, 503, 504}
          /\ (mapped = 500 <=> e.name = "INTERNAL")
      BY <3>1, CodesOfNames
    <3>3. Normalize(e) = [status |-> mapped, name |-> NoName, network |-> FALSE,
                          tooLong |-> e.tooLong /\ e.name \in {NoName, "INTERNAL"}]
      <4>1. MappedStatus(e) # Unset
        BY <3>2 DEF Unset
      <4>2. QED
        BY <4>1, Zenon DEF Normalize
    <3> HIDE DEF mapped
    <3> DEFINE n == Normalize(e)
    <3>4. /\ n.status = mapped /\ n.name = "none" /\ n.network = FALSE
          /\ n.tooLong = (e.tooLong /\ e.name \in {NoName, "INTERNAL"})
          /\ MappedStatus(n) = mapped
      BY <3>3 DEF MappedStatus, NoName
    <3> HIDE DEF n
    <3>5. Retryable(e) <=> mapped \notin 400..499
                           /\ ~((e.tooLong /\ e.name = "INTERNAL") /\ mapped = 500)
      <4>1. IsRetryable(n) <=> mapped \notin 400..499 /\ ~(n.tooLong /\ mapped = 500)
        BY <3>2, <3>4 DEF IsRetryable, Unset
      <4>2. n.tooLong <=> e.tooLong /\ e.name = "INTERNAL"
        BY <2>3, <3>4 DEF NoName
      <4>3. Retryable(e) <=> IsRetryable(n)
        BY DEF Retryable, n
      <4>4. QED
        BY <4>1, <4>2, <4>3
    <3>6. IsTemporary(e) \/ Overlong(e)
            <=> (mapped = 500 /\ ~e.tooLong) \/ mapped \in 501..599
      BY <2>1, <3>2 DEF IsTemporary, Overlong, Unset, mapped
    <3>7. QED
      BY <3>2, <3>5, <3>6
  <2>4. QED
    BY <2>2, <2>3
<1>4. QED
  BY <1>1, <1>2, <1>3

\* A run that goes on has not failed.
GoesOn ==
  /\ work \in {"marked", "running", "answered", "finalizing", "stalled"} => verdict = "none"
  /\ tries \in Nat

RetryInv == GoesOn /\ RetriedAsDocumented

\* The worker retries what is temporary while an attempt is left.
LEMMA RetryStep ==
  ASSUME RetryInv, Worker \/ Stall
  PROVE  RetryInv'
<1> USE DEF RetryInv, GoesOn, RetriedAsDocumented
<1>1. CASE MarkInProgress \/ TakeTokens \/ Delay
  BY <1>1 DEF MarkInProgress, TakeTokens, Delay, countVars
<1>2. CASE \/ EmitChunk \/ EmitDone \/ Execute \/ FinalizeMeta \/ StoreAnswer
           \/ WriteFailure \/ MarkFailure \/ PublishFailure
  <2>1. /\ tries' = tries
        /\ \/ UNCHANGED <<work, verdict>>
           \/ /\ work \in {"running", "answered"} /\ work' \in {"answered", "finalizing"}
              /\ verdict' = verdict
           \/ work' \in {"recorded", "marked_failed", "over"}
    BY <1>2 DEF EmitChunk, EmitDone, Execute, FinalizeMeta, StoreAnswer, WriteFailure,
       MarkFailure, PublishFailure, countVars
  <2>2. QED
    BY <2>1
<1>3. ASSUME NEW error \in Failures, ProviderFails(error)
      PROVE  RetryInv'
  <2>1. PICK e \in ProviderErrors :
          error = [retryable |-> Retryable(e), verdict |-> DocumentedVerdict(e)]
    BY DEF Failures
  <2>2. /\ work' = IF error.retryable /\ tries + 1 < Attempts THEN "backoff" ELSE "failed"
        /\ verdict' = error.verdict /\ tries' = tries + 1
    BY <1>3 DEF ProviderFails, AfterFailure
  <2>3. error.retryable = Retryable(e) /\ error.verdict = DocumentedVerdict(e)
    BY <2>1
  <2>4. Retryable(e) <=> IsTemporary(e) \/ Overlong(e)
    BY <2>1, VerdictKept
  <2> HIDE DEF RetryInv
  <2>5. /\ Retryable(e) /\ tries' < Attempts => work' = "backoff"
        /\ ~(Retryable(e) /\ tries' < Attempts) => work' = "failed"
    BY <2>2, <2>3
  <2>6. /\ IsTemporary(e) => verdict' = "temporary"
        /\ ~IsTemporary(e) /\ Overlong(e) => verdict' = "overlong"
        /\ ~IsTemporary(e) /\ ~Overlong(e) => verdict' = "fatal"
    BY <2>2, <2>3 DEF DocumentedVerdict
  <2>7. GoesOn'
    BY <2>2, <2>5 DEF RetryInv
  <2>8. RetriedAsDocumented'
    <3>1. tries' \in Nat /\ (tries' < Attempts \/ tries' >= Attempts)
      BY <2>2, StreamAssumption DEF RetryInv
    <3>2. QED
      BY <2>4, <2>5, <2>6, <3>1
  <2>9. QED
    BY <2>7, <2>8 DEF RetryInv
<1>4. CASE Refused \/ Stall
  BY <1>4 DEF Refused, Stall, countVars
<1>5. QED
  BY <1>1, <1>2, <1>3, <1>4 DEF Worker

\* Only the worker moves the job; only it and keys that expire change the metadata.
LEMMA ReadsKeepWork ==
  ASSUME [ReadsNext]_readVars
  PROVE  Worker \/ Stall \/ UNCHANGED workVars
<1>1. CASE UNCHANGED readVars
  BY <1>1 DEF readVars, vars
<1>2. CASE Keys
  BY <1>2 DEF Keys, StreamExpires, SyncRow, ResultExpires, MetaExpires
<1>3. CASE Stream
  BY <1>3 DEF Stream, Server, SendResult, NoResult, ReadMeta, SendStatus, ToHistory,
     ToDatabase, SendSnapshot, SendEntry, EndLive, AnswerFromDatabase, Connect, Drop,
     DropAfterJobId, ServerOnly
<1>4. CASE Poll
  BY <1>4 DEF Poll, Ask, PollResult, PollMeta, PollRow, PollFrame, ServerOnly
<1>5. QED
  BY <1>1, <1>2, <1>3, <1>4 DEF ReadsNext

\* Whatever error the provider answers with, while an attempt is left the job is tried
\* again when the documents call the error temporary, and not when they call it fatal;
\* left out is a context that is too long under a 5xx other than 500.
THEOREM RetriesAreDocumented == ReadsSpec => []RetriedAsDocumented
<1>1. ReadsInit => RetryInv
  BY DEF ReadsInit, Init, RetryInv, GoesOn, RetriedAsDocumented
<1>2. RetryInv /\ [ReadsNext]_readVars => RetryInv'
  <2> SUFFICES ASSUME RetryInv, [ReadsNext]_readVars PROVE RetryInv'
    OBVIOUS
  <2>1. CASE UNCHANGED workVars
    BY <2>1 DEF workVars, countVars, RetryInv, GoesOn, RetriedAsDocumented
  <2>2. CASE Worker \/ Stall
    BY <2>2, RetryStep
  <2>3. UNCHANGED workVars \/ Worker \/ Stall
    BY ReadsKeepWork
  <2>4. QED
    BY <2>1, <2>2, <2>3
<1>3. RetryInv => RetriedAsDocumented
  BY DEF RetryInv
<1>4. QED
  BY <1>1, <1>2, <1>3, PTL DEF ReadsSpec

-----------------------------------------------------------------------------
(* What a polling client is told.                                          *)

Final == {"completed", "failed"}

\* Before a pipeline settles the job nothing says that it is over. Between its
\* commands the metadata may say it before there is a result, or the result before
\* the metadata, and then the client that was told does not ask again. Afterwards
\* everything that still says something says the same.
AllAgree ==
    /\ answer \in {"nothing", "queued", "in_progress"} \cup Final
    /\ reader \in {"stream", "poll"} /\ (reader = "stream" => answer = "nothing")
    /\ poll # "idle" => reader = "poll" /\ told = "nothing"
    /\ ~Settled => row[Job] = 0 /\ outcome = "none"
    /\ ~Settled /\ work # "finalizing" =>
            answer \notin Final /\ meta \in {"queued", "in_progress"}
    /\ work = "finalizing" => answer # "failed" /\ meta = "completed"
    /\ Settled => outcome \in Final /\ (answer \in Final => answer = outcome)
    /\ work = "recorded" => /\ outcome = "failed" /\ meta \in {"queued", "in_progress"}
                            /\ answer \in Final => told # "nothing"
    /\ work = "marked_failed" => outcome = "failed" /\ meta = "failed"
    /\ work = "over" => meta \in {outcome, "none"}

SteadyInv == PollInv /\ AllAgree

\* No step but a poll changes what was answered; the outcome that is written is what
\* an answer before it said.
LEMMA WorkerAgrees ==
  ASSUME SteadyInv, Worker \/ Stall, UNCHANGED pollVars
  PROVE  AllAgree' /\ (outcome' # outcome /\ answer \in Final => answer = outcome')
<1> USE DEF SteadyInv, AllAgree, Final, Settled, pollVars, clientVars, resultVars
<1>1. CASE MarkInProgress \/ TakeTokens \/ Delay
  BY <1>1 DEF MarkInProgress, TakeTokens, Delay
<1>2. CASE EmitChunk \/ EmitDone \/ Execute
  BY <1>2 DEF EmitChunk, EmitDone, Execute
<1>3. ASSUME NEW r, ProviderFails(r)
      PROVE  AllAgree' /\ outcome' = outcome
  BY <1>3 DEF ProviderFails, AfterFailure
<1>4. CASE Refused \/ Stall
  BY <1>4 DEF Refused, Stall
<1>5. CASE FinalizeMeta
  BY <1>5 DEF FinalizeMeta
<1>6. CASE StoreAnswer
  BY <1>6 DEF StoreAnswer, Results!Write
<1>7. CASE WriteFailure
  BY <1>7 DEF WriteFailure, Results!Write
<1>8. CASE MarkFailure \/ PublishFailure
  BY <1>8 DEF MarkFailure, PublishFailure
<1>9. QED
  BY <1>1, <1>2, <1>3, <1>4, <1>5, <1>6, <1>7, <1>8 DEF Worker

\* The keys that expire say nothing, and the sync only copies what is written.
LEMMA KeysAgree ==
  ASSUME SteadyInv, Keys, UNCHANGED pollVars
  PROVE  AllAgree' /\ outcome' = outcome
<1> USE DEF SteadyInv, AllAgree, Final, Settled, pollVars, clientVars
<1>1. CASE StreamExpires \/ ResultExpires \/ MetaExpires
  BY <1>1 DEF StreamExpires, ResultExpires, MetaExpires, resultVars, workVars, Results!Drop
<1>2. CASE SyncRow
  <2>1. /\ UNCHANGED <<work, meta, outcome, told>>
        /\ row'[Job] # row[Job] => row[Job] < row'[Job] /\ row'[Job] <= written[Job]
        /\ row' \in [{Job} -> 0..1]
    BY <1>2 DEF SyncRow, Results!Store, workVars
  <2>2. ~Settled => written[Job] = 0 /\ row[Job] = 0
    BY DEF PollInv, FoundInv, Found
  <2>3. ~Settled => row'[Job] = 0
    BY <2>1, <2>2
  <2>4. QED
    BY <2>1, <2>3
<1>3. QED
  BY <1>1, <1>2 DEF Keys

\* A poll says what it finds, and that is never less than was said before.
LEMMA PollAgrees ==
  ASSUME SteadyInv, Poll
  PROVE  /\ AllAgree' /\ outcome' = outcome
         /\ Rank(answer') >= Rank(answer)
         /\ Rank(answer') = 2 => outcome' \in {"none", answer'}
<1>1. UNCHANGED <<work, meta, row, outcome, reader>>
  BY DEF Poll, Ask, PollResult, PollMeta, PollRow, PollFrame, ServerOnly, resultVars,
     workVars
<1>2. \/ answer' = answer /\ told' = told /\ (poll' # "idle" => reader = "poll" /\ told = "nothing")
      \/ answer' = outcome /\ told' = outcome /\ poll' = "idle" /\ Settled
      \/ /\ answer' = meta /\ told' = told /\ poll' = "idle" /\ meta # "none"
         /\ told = "nothing" /\ reader = "poll"
  <2>1. CASE Ask
    BY <2>1 DEF Ask
  <2>2. CASE PollResult
    BY <2>2 DEF PollResult, Tell, SteadyInv, AllAgree, PollInv, FoundInv, Found
  <2>3. CASE PollMeta
    BY <2>3 DEF PollMeta, SteadyInv, AllAgree
  <2>4. CASE PollRow
    <3>1. row[Job] = 1 /\ Settled
      BY <2>4 DEF PollRow, SteadyInv, AllAgree, PollInv, PollFromRow
    <3>2. QED
      BY <2>4, <3>1 DEF PollRow, Tell
  <2>5. QED
    BY <2>1, <2>2, <2>3, <2>4 DEF Poll
<1>3. poll # "idle" \/ UNCHANGED <<answer, told>>
  BY DEF Poll, Ask, PollResult, PollMeta, PollRow
<1>4. CASE UNCHANGED <<answer, told>> /\ (poll' # "idle" => reader = "poll" /\ told = "nothing")
  <2>1. AllAgree'
    BY <1>1, <1>4 DEF SteadyInv, AllAgree, Final, Settled
  <2>2. Rank(answer) \in Int /\ (Rank(answer) = 2 => outcome \in {"none", answer})
    BY DEF SteadyInv, AllAgree, Final, Rank
  <2>3. QED
    BY <1>1, <1>4, <2>1, <2>2
<1>5. CASE answer' = outcome /\ told' = outcome /\ poll' = "idle" /\ Settled
  <2>1. outcome \in Final
    BY <1>5 DEF SteadyInv, AllAgree
  <2>2. AllAgree'
    <3>1. reader = "poll"
      BY <1>3, <1>5, <2>1 DEF SteadyInv, AllAgree, Final
    <3>2. QED
      BY <1>1, <1>5, <2>1, <3>1 DEF SteadyInv, AllAgree, Final, Settled
  <2>3. Rank(answer') = 2 /\ Rank(answer) \in {0, 1, 2}
    BY <1>5, <2>1 DEF SteadyInv, AllAgree, Final, Rank
  <2>4. QED
    BY <1>1, <1>5, <2>2, <2>3
<1>6. CASE /\ answer' = meta /\ told' = told /\ poll' = "idle" /\ meta # "none"
           /\ told = "nothing" /\ reader = "poll"
  <2>1. work = "recorded" => answer \notin Final
    BY <1>6 DEF SteadyInv, AllAgree
  <2>2. /\ meta \in {"queued", "in_progress"} \cup Final
        /\ meta \in {"queued", "in_progress"} => answer \notin Final
        /\ meta \in Final => outcome \in {"none", meta}
    BY <1>6, <2>1 DEF SteadyInv, AllAgree, Final, Settled
  <2>3. AllAgree'
    BY <1>1, <1>6, <2>1, <2>2 DEF SteadyInv, AllAgree, Final, Settled
  <2>4. QED
    BY <1>1, <1>6, <2>2, <2>3 DEF SteadyInv, AllAgree, Final, Rank
<1>7. QED
  BY <1>2, <1>4, <1>5, <1>6

\* The route and its client touch nothing a poll tells.
LEMMA StreamAgrees ==
  ASSUME SteadyInv, reader = "stream", Stream, UNCHANGED pollVars
  PROVE  AllAgree' /\ outcome' = outcome
<1>1. UNCHANGED <<resultVars, meta, workVars>>
  BY DEF Stream, Server, SendResult, NoResult, ReadMeta, SendStatus, ToHistory, ToDatabase,
     SendSnapshot, SendEntry, EndLive, AnswerFromDatabase, Connect, Drop, DropAfterJobId,
     ServerOnly
<1>2. QED
  BY <1>1 DEF resultVars, workVars, pollVars, SteadyInv, AllAgree, Final, Settled

\* Polls never take back what they said, and a final status is how the job ends.
THEOREM PollsAreSteady == ReadsSpec => StatusNeverGoesBack
<1>1. ReadsInit => SteadyInv
  BY DEF ReadsInit, Init, Results!Init, SteadyInv, AllAgree, Final, PollInv, PollFromRow,
         FoundInv, Found, Settled, SeenFromRow, AtDatabase, NeverNotFound
<1>2. SteadyInv /\ [ReadsNext]_readVars =>
        /\ SteadyInv'
        /\ [/\ Rank(answer') >= Rank(answer)
            /\ Rank(answer') = 2 => outcome' \in {"none", answer'}]_<<answer, outcome>>
  <2> SUFFICES ASSUME SteadyInv, [ReadsNext]_readVars
               PROVE  /\ AllAgree'
                      /\ [/\ Rank(answer') >= Rank(answer)
                          /\ Rank(answer') = 2 => outcome' \in {"none", answer'}
                         ]_<<answer, outcome>>
    BY PollInvStep DEF SteadyInv
  <2>1. Rank(answer) \in Int /\ (Rank(answer) = 2 <=> answer \in Final)
    BY DEF SteadyInv, AllAgree, Final, Rank
  <2>2. CASE UNCHANGED readVars
    BY <2>2 DEF readVars, pollVars, vars, resultVars, workVars, clientVars, SteadyInv,
       AllAgree, Settled
  <2>3. CASE (Worker \/ Stall \/ Keys) /\ UNCHANGED pollVars
    <3>1. /\ AllAgree' /\ answer' = answer
          /\ outcome' = outcome \/ (answer \in Final => answer = outcome')
      BY <2>3, WorkerAgrees, KeysAgree DEF pollVars
    <3>2. QED
      BY <2>1, <3>1
  <2>4. CASE reader = "stream" /\ Stream /\ UNCHANGED pollVars
    BY <2>4, StreamAgrees DEF pollVars
  <2>5. CASE Poll
    BY <2>5, PollAgrees
  <2>6. QED
    BY <2>2, <2>3, <2>4, <2>5 DEF ReadsNext
<1>3. QED
  BY <1>1, <1>2, PTL DEF ReadsSpec, StatusNeverGoesBack

-----------------------------------------------------------------------------
(* The text of a stream.                                                   *)

Entries == {Chunk(n) : n \in 1..Chunks} \cup {DoneEntry, Error(TRUE), Error(FALSE)}

Places(entries) == {i \in DOMAIN entries : entries[i].type = "chunk"}

\* The chunks of a stream are finitely many, and the order of the ids is total.
LEMMA PlacesOrdered ==
    ASSUME NEW S, NEW entries \in Seq(S)
    PROVE  /\ Places(entries) \subseteq 1..Len(entries)
           /\ IsFiniteSet(Places(entries))
           /\ Cardinality(Places(entries)) \in Nat
           /\ IsTotalOrder(Places(entries), ByPlace(Places(entries)))
<1>1. DOMAIN entries = 1..Len(entries) /\ Len(entries) \in Nat
  OBVIOUS
<1>2. Places(entries) \in SUBSET (1..Len(entries))
  BY <1>1 DEF Places
<1>3. IsFiniteSet(1..Len(entries))
  BY <1>1, FS_Interval
<1>4. IsFiniteSet(Places(entries))
  BY <1>2, <1>3, FS_Subset
<1>5. Places(entries) \in SUBSET Int
  BY <1>1, <1>2
<1>6. QED
  BY <1>2, <1>4, <1>5, FS_CardinalityType, ByPlaceTotal

\* The text has a chunk for each place.
LEMMA TextByPlace ==
    ASSUME NEW S, NEW entries \in Seq(S)
    PROVE  LET k == Cardinality(Places(entries))
               order == InOrder(Places(entries), ByPlace(Places(entries)))
           IN  /\ order \in [1..k -> Places(entries)]
               /\ Text(entries) = [n \in 1..k |-> entries[order[n]].data]
<1> DEFINE P == Places(entries)
           order == InOrder(P, ByPlace(P))
<1>1. order \in [1..Cardinality(P) -> P]
  BY PlacesOrdered, InOrderLists
<1>2. DOMAIN order = 1..Cardinality(P)
  BY <1>1
<1>3. Text(entries) = [n \in DOMAIN order |-> entries[order[n]].data]
  BY DEF Text, Places
<1>4. QED
  BY <1>1, <1>2, <1>3

LEMMA ChunkData ==
    ASSUME NEW e \in Entries, e.type = "chunk"
    PROVE  e.data \in 1..Chunks
BY DEF Entries, Chunk, DoneEntry, Error

\* Every chunk is shown, and nothing else.
LEMMA TextType ==
    ASSUME NEW entries \in Seq(Entries)
    PROVE  Text(entries) \in Seq(1..Chunks)
<1> DEFINE P == Places(entries)
           k == Cardinality(P)
           order == InOrder(P, ByPlace(P))
<1>1. k \in Nat /\ P \subseteq 1..Len(entries) /\ order \in [1..k -> P]
      /\ Text(entries) = [n \in 1..k |-> entries[order[n]].data]
  BY PlacesOrdered, TextByPlace
<1>2. ASSUME NEW n \in 1..k
      PROVE  entries[order[n]].data \in 1..Chunks
  <2>1. order[n] \in P
    BY <1>1
  <2>2. order[n] \in 1..Len(entries) /\ entries[order[n]].type = "chunk"
    BY <1>1, <2>1 DEF Places
  <2>3. entries[order[n]] \in Entries
    BY <2>2
  <2>4. QED
    BY <2>2, <2>3, ChunkData
<1>3. k \in Nat /\ Text(entries) \in [1..k -> 1..Chunks]
  BY <1>1, <1>2
<1> HIDE DEF k
<1>4. Text(entries) \in UNION {[1..n -> 1..Chunks] : n \in Nat}
  BY <1>3
<1>5. Seq(1..Chunks) = UNION {[1..n -> 1..Chunks] : n \in Nat}
  BY SeqDef
<1>6. QED
  BY <1>4, <1>5, Zenon

LEMMA TextEmpty == Text(<<>>) = <<>>
<1>1. Places(<<>>) = {}
  BY DEF Places
<1>2. Cardinality(Places(<<>>)) = 0
  BY <1>1, FS_EmptySet
<1>3. Text(<<>>) = [n \in 1..0 |-> <<>>[InOrder(Places(<<>>), ByPlace(Places(<<>>)))[n]].data]
  BY <1>2, TextByPlace, EmptySeq
<1>4. QED
  BY <1>3

\* A new chunk comes last; another entry changes nothing.
LEMMA TextAppend ==
    ASSUME NEW S, NEW entries \in Seq(S), NEW x \in S
    PROVE  Text(Append(entries, x)) =
             IF x.type = "chunk" THEN Append(Text(entries), x.data) ELSE Text(entries)
<1> DEFINE longer == Append(entries, x)
           L == Len(entries)
           P == Places(entries)
           Q == Places(longer)
           k == Cardinality(P)
<1>1. /\ longer \in Seq(S) /\ Len(longer) = L + 1 /\ L \in Nat
      /\ longer[L + 1] = x
      /\ \A i \in 1..L : longer[i] = entries[i]
      /\ DOMAIN longer = 1..L+1 /\ DOMAIN entries = 1..L
  BY AppendProperties
<1>2. /\ P \subseteq 1..L /\ IsFiniteSet(P) /\ k \in Nat
      /\ IsTotalOrder(P, ByPlace(P))
      /\ InOrder(P, ByPlace(P)) \in [1..k -> P]
      /\ Text(entries) = [n \in 1..k |-> entries[InOrder(P, ByPlace(P))[n]].data]
  BY PlacesOrdered, TextByPlace
<1>3. CASE x.type # "chunk"
  <2>1. Q = P
    BY <1>1, <1>3 DEF Places
  <2>2. Text(longer) = [n \in 1..k |-> longer[InOrder(P, ByPlace(P))[n]].data]
    <3>1. Text(longer) = [n \in 1..Cardinality(Q) |-> longer[InOrder(Q, ByPlace(Q))[n]].data]
      BY <1>1, TextByPlace
    <3>2. QED
      BY <2>1, <3>1
  <2>3. \A n \in 1..k : longer[InOrder(P, ByPlace(P))[n]] = entries[InOrder(P, ByPlace(P))[n]]
    BY <1>1, <1>2
  <2>4. Text(longer) = Text(entries)
    BY <1>2, <2>2, <2>3
  <2>5. QED
    BY <1>3, <2>4
<1>4. CASE x.type = "chunk"
  <2>1. Q = P \cup {L + 1} /\ L + 1 \notin P
    BY <1>1, <1>2, <1>4 DEF Places
  <2>2. IsFiniteSet(Q) /\ Cardinality(Q) = k + 1
    BY <1>2, <2>1, FS_AddElement
  <2>3. IsTotalOrder(Q, ByPlace(Q))
        /\ Text(longer) = [n \in 1..k+1 |-> longer[InOrder(Q, ByPlace(Q))[n]].data]
    BY <1>1, <2>2, PlacesOrdered, TextByPlace
  <2>4. ASSUME NEW n \in 1..k
        PROVE  InOrder(Q, ByPlace(Q))[n] = InOrder(P, ByPlace(P))[n]
    <3> DEFINE e == InOrder(P, ByPlace(P))[n]
    <3>1. e \in P /\ Place(P, ByPlace(P), e) = n
      BY <1>2, InOrderLists
    <3>2. e \in Q /\ e \in 1..L
      BY <1>2, <2>1, <3>1
    <3>3. {d \in Q : <<d, e>> \in ByPlace(Q)} = {d \in P : <<d, e>> \in ByPlace(P)}
      <4>1. \A d \in Q : <<d, e>> \in ByPlace(Q) <=> d <= e
        BY <3>2 DEF ByPlace
      <4>2. \A d \in P : <<d, e>> \in ByPlace(P) <=> d <= e
        BY <3>1 DEF ByPlace
      <4>3. ~(L + 1 <= e)
        BY <1>1, <3>2
      <4>4. QED
        BY <2>1, <4>1, <4>2, <4>3
    <3>4. Place(Q, ByPlace(Q), e) = n
      BY <3>1, <3>3 DEF Place
    <3>5. QED
      BY <2>2, <2>3, <3>2, <3>4, InOrderLists
  <2>5. InOrder(Q, ByPlace(Q))[k + 1] = L + 1
    <3>1. {d \in Q : <<d, L + 1>> \in ByPlace(Q)} = Q
      BY <1>1, <1>2, <2>1 DEF ByPlace
    <3>2. Place(Q, ByPlace(Q), L + 1) = k + 1
      BY <2>2, <3>1 DEF Place
    <3>3. QED
      BY <2>1, <2>2, <2>3, <3>2, InOrderLists
  <2>6. \A n \in 1..k : longer[InOrder(Q, ByPlace(Q))[n]].data
                        = entries[InOrder(P, ByPlace(P))[n]].data
    BY <1>1, <1>2, <2>4
  <2>7. longer[InOrder(Q, ByPlace(Q))[k + 1]].data = x.data
    BY <1>1, <2>5
  <2>8. Append(Text(entries), x.data)
          = [n \in 1..k+1 |-> IF n = k + 1 THEN x.data ELSE Text(entries)[n]]
    BY <1>2
  <2>9. \A n \in 1..k+1 : longer[InOrder(Q, ByPlace(Q))[n]].data
                         = IF n = k + 1 THEN x.data ELSE Text(entries)[n]
    <3>1. \A n \in 1..k : Text(entries)[n] = entries[InOrder(P, ByPlace(P))[n]].data
      BY <1>2
    <3>2. \A n \in 1..k+1 : n = k + 1 \/ (n \in 1..k /\ n # k + 1)
      BY <1>2
    <3>3. QED
      BY <2>6, <2>7, <3>1, <3>2
  <2>10. Text(longer) = Append(Text(entries), x.data)
    BY <2>3, <2>8, <2>9
  <2>11. QED
    BY <1>4, <2>10
<1>5. QED
  BY <1>3, <1>4

\* The chunks of one run are the answer so far.
LEMMA TextOfRun ==
    ASSUME NEW entries \in Seq(Entries), NEW m \in 0..Len(entries),
           \A i \in 1..Len(entries) : /\ i <= m => entries[i] = Chunk(i)
                                      /\ i > m => entries[i].type # "chunk"
    PROVE  Text(entries) = [n \in 1..m |-> n]
<1> DEFINE P == Places(entries)
<1>1. Len(entries) \in Nat /\ DOMAIN entries = 1..Len(entries)
  OBVIOUS
<1>2. P = 1..m
  BY <1>1 DEF Places, Chunk
<1>3. Cardinality(P) = m /\ IsFiniteSet(P)
  BY <1>2, FS_Interval
<1>4. /\ IsTotalOrder(P, ByPlace(P))
      /\ Text(entries) = [n \in 1..m |-> entries[InOrder(P, ByPlace(P))[n]].data]
  BY <1>3, PlacesOrdered, TextByPlace
<1>5. ASSUME NEW n \in 1..m
      PROVE  entries[InOrder(P, ByPlace(P))[n]].data = n
  <2>1. {d \in P : <<d, n>> \in ByPlace(P)} = 1..n
    BY <1>2 DEF ByPlace
  <2>2. Cardinality(1..n) = n
    BY FS_Interval
  <2>3. Place(P, ByPlace(P), n) = n
    BY <2>1, <2>2 DEF Place
  <2>4. InOrder(P, ByPlace(P))[n] = n
    BY <1>2, <1>3, <1>4, <2>3, InOrderLists
  <2>5. n \in 1..Len(entries) /\ n <= m
    BY <1>1
  <2>6. entries[n] = Chunk(n)
    BY <2>5
  <2>7. QED
    BY <2>4, <2>6 DEF Chunk
<1>6. QED
  BY <1>4, <1>5

-----------------------------------------------------------------------------
(* Parts of the stream.                                                    *)

\* What XREAD returns after an id: what is left behind it, and of the stream.
LEMMA AfterEntries ==
    ASSUME log \in Seq(Entries), gone \in 0..Len(log), NEW id \in 0..Len(log)
    PROVE  LET from == IF id < gone THEN gone ELSE id
           IN  /\ After(id) \in Seq(Entries)
               /\ Len(After(id)) = Len(log) - from
               /\ After(id) # <<>> <=> from < Len(log)
               /\ \A i \in 1..Len(After(id)) : After(id)[i] = log[from + i]
<1> DEFINE from == IF id < gone THEN gone ELSE id
<1>1. Len(log) \in Nat /\ from \in 0..Len(log)
  OBVIOUS
<1>2. \A i \in from+1..Len(log) : log[i] \in Entries
  BY <1>1
<1>3. /\ After(id) \in Seq(Entries)
      /\ Len(After(id)) = IF from + 1 <= Len(log) THEN Len(log) - (from + 1) + 1 ELSE 0
      /\ \A i \in 1..(Len(log) - (from + 1) + 1) : After(id)[i] = log[from + 1 + i - 1]
  BY <1>1, <1>2, SubSeqProperties DEF After
<1>4. After(id) # <<>> <=> Len(After(id)) # 0
  BY <1>3, EmptySeq
<1> HIDE DEF from
<1>5. Len(After(id)) = Len(log) - from
  BY <1>1, <1>3
<1>6. \A i \in 1..Len(After(id)) : from + 1 + i - 1 = from + i
  BY <1>1, <1>5
<1>7. /\ After(id) \in Seq(Entries)
      /\ Len(After(id)) = Len(log) - from
      /\ After(id) # <<>> <=> from < Len(log)
      /\ \A i \in 1..Len(After(id)) : After(id)[i] = log[from + i]
  <2>1. Len(log) - (from + 1) + 1 = Len(log) - from
    BY <1>1
  <2>2. QED
    BY <1>1, <1>3, <1>4, <1>5, <1>6, <2>1
<1>8. QED
  BY <1>7 DEF from

\* An entry behind the cursor is not among those before it.
LEMMA PrefixGrows ==
    ASSUME NEW S, NEW s \in Seq(S), NEW x \in S, NEW c \in 0..Len(s)
    PROVE  SubSeq(Append(s, x), 1, c) = SubSeq(s, 1, c)
<1>1. Len(s) \in Nat /\ \A i \in 1..c : Append(s, x)[i] = s[i] /\ s[i] \in S
  OBVIOUS
<1>2. /\ SubSeq(s, 1, c) \in Seq(S) /\ SubSeq(Append(s, x), 1, c) \in Seq(S)
      /\ Len(SubSeq(s, 1, c)) = c /\ Len(SubSeq(Append(s, x), 1, c)) = c
      /\ \A i \in 1..c : SubSeq(Append(s, x), 1, c)[i] = SubSeq(s, 1, c)[i]
  BY <1>1, SubSeqProperties
<1>3. QED
  BY <1>2, SeqEqual

\* The cursor moves on by one entry.
LEMMA PrefixNext ==
    ASSUME NEW S, NEW s \in Seq(S), NEW c \in 0..Len(s), c < Len(s)
    PROVE  /\ SubSeq(s, 1, c) \in Seq(S)
           /\ SubSeq(s, 1, c + 1) = Append(SubSeq(s, 1, c), s[c + 1])
<1>1. Len(s) \in Nat /\ c + 1 \in 1..Len(s) /\ \A i \in 1..c+1 : s[i] \in S
  OBVIOUS
<1>2. /\ SubSeq(s, 1, c) \in Seq(S) /\ SubSeq(s, 1, c + 1) \in Seq(S)
      /\ Len(SubSeq(s, 1, c)) = c /\ Len(SubSeq(s, 1, c + 1)) = c + 1
      /\ \A i \in 1..c : SubSeq(s, 1, c)[i] = s[i]
      /\ \A i \in 1..c+1 : SubSeq(s, 1, c + 1)[i] = s[i]
  BY <1>1, SubSeqProperties
<1>3. /\ Append(SubSeq(s, 1, c), s[c + 1]) \in Seq(S)
      /\ Len(Append(SubSeq(s, 1, c), s[c + 1])) = c + 1
      /\ \A i \in 1..c : Append(SubSeq(s, 1, c), s[c + 1])[i] = s[i]
      /\ Append(SubSeq(s, 1, c), s[c + 1])[c + 1] = s[c + 1]
  BY <1>1, <1>2, AppendProperties
<1>4. \A i \in 1..c+1 : i \in 1..c \/ i = c + 1
  OBVIOUS
<1>5. QED
  BY <1>2, <1>3, <1>4, SeqEqual

-----------------------------------------------------------------------------
(* What holds of the stream and its client.                                *)

\* A run ended by a failed attempt or a stall, or is the present one; and the job goes
\* on only while there is an attempt and a stall left.
RunsLeft ==
    /\ work = "queued" <=> runs = 0
    /\ work \in {"queued", "backoff", "stalled"} => runs = tries + stalls
    /\ work \in {"marked", "delayed", "running", "answered", "finalizing"} =>
            runs = tries + stalls + 1
    /\ work \in {"queued", "marked", "delayed", "running", "answered", "backoff", "stalled",
                 "finalizing"} => tries < Attempts /\ stalls <= MaxStalled

\* A connected client waits, and the handler reads on where the client stands.
Connected ==
    /\ conn # "closed" => told = "nothing" /\ last = cursor
    /\ conn = "history" => last = 0
    /\ conn \in {"history", "live"} => streaming

\* One who polls has no connection, and does not ask again once he knows.
Polling ==
    /\ poll # "idle" => reader = "poll" /\ told = "nothing"
    /\ reader = "poll" => conn = "closed"

\* A result says how the job ended.
Ended ==
    /\ row[Job] > 0 => Settled
    /\ Settled => outcome # "none"

\* Without streaming only the failed handler writes to the stream.
NoChunks == ~streaming => \A i \in 1..Len(log) : log[i].type = "error"

\* The stream goes before the result, and the result before the metadata.
StreamFirst ==
    /\ work = "over" /\ cached = {} => gone = Len(log)
    /\ conn = "exists" /\ seen = "none" => meta = "none"

\* The stream of a job that ran once: its chunks, then its end.
Single ==
    /\ sent <= Len(log)
    /\ \A i \in 1..Len(log) :
        /\ i <= sent => log[i] = Chunk(i)
        /\ i > sent => log[i].type # "chunk"
        /\ log[i].type = "done" => i = sent + 1 /\ sent = Chunks
    /\ work \in {"queued", "marked", "delayed"} => sent = 0
    /\ work \in {"queued", "marked", "delayed", "running"} => Len(log) = sent
    /\ fading => sent < Len(log)
    /\ gone > 0 => sent < gone

OneRun == streaming /\ runs <= 1 => Single

StreamInv ==
    /\ PollInv /\ TypeOK
    /\ RunsLeft /\ Connected /\ Polling /\ Ended /\ NoChunks /\ StreamFirst /\ OneRun
    /\ NoGapNoRepeat /\ CompletedIsWhole

\* An error is retryable or not, and the documents know it.
LEMMA FailureTyped ==
    ASSUME NEW error \in Failures
    PROVE  error.retryable \in BOOLEAN /\ error.verdict \in Verdicts
<1>1. PICK e \in ProviderErrors :
        error = [retryable |-> Retryable(e), verdict |-> DocumentedVerdict(e)]
  BY Zenon DEF Failures
<1>2. Retryable(e) \in BOOLEAN
  BY Zenon DEF Retryable, IsRetryable
<1>3. DocumentedVerdict(e) \in Verdicts
  BY DEF DocumentedVerdict, Verdicts
<1> DEFINE r == Retryable(e)  v == DocumentedVerdict(e)
<1>4. error = [retryable |-> r, verdict |-> v] /\ r \in BOOLEAN /\ v \in Verdicts
  BY <1>1, <1>2, <1>3
<1> HIDE DEF r, v
<1>5. error.retryable = r /\ error.verdict = v
  BY <1>4
<1>6. QED
  BY <1>4, <1>5

\* Where a job can stand.
Stages == {"queued", "marked", "delayed", "running", "answered", "backoff", "stalled",
           "finalizing", "failed", "recorded", "marked_failed", "over"}

\* A run is counted when it begins, an attempt when it fails, a stall when it is found.
LEMMA RunsGrow ==
    ASSUME StreamInv, Worker \/ Stall
    PROVE  /\ RunsLeft' /\ runs' \in Nat /\ runs <= runs' /\ work # "over"
           /\ runs' \in 0..MaxRuns /\ tries' \in 0..Attempts /\ stalls' \in 0..MaxStalled + 1
           /\ work' = "over" => Job \in cached'
           /\ Ended'
<1>1. /\ runs \in 0..MaxRuns /\ tries \in 0..Attempts /\ stalls \in 0..MaxStalled + 1
      /\ RunsLeft /\ (row[Job] > 0 => Settled) /\ (Settled => outcome # "none")
      /\ work \in {"recorded", "marked_failed"} => Job \in cached
  BY DEF StreamInv, TypeOK, Ended, PollInv, FoundInv, Found
<1> USE <1>1, StreamAssumption DEF RunsLeft, workVars, countVars, Ended, Settled, resultVars,
        MaxRuns
<1>2. CASE MarkInProgress
  <2>1. work' \in {"running", "marked"} /\ work \in {"queued", "delayed", "backoff", "stalled"}
        /\ row' = row
    BY <1>2 DEF MarkInProgress
  <2>2. /\ tries' = tries /\ stalls' = stalls
        /\ runs' = IF work = "delayed" THEN runs ELSE runs + 1
    BY <1>2 DEF MarkInProgress
  <2>3. QED
    BY <2>1, <2>2
<1>3. CASE TakeTokens \/ Delay \/ EmitChunk \/ EmitDone \/ Execute \/ FinalizeMeta
  <2>1. /\ runs' = runs /\ tries' = tries /\ stalls' = stalls
        /\ work \in {"marked", "running", "answered"} /\ row' = row
    BY <1>3 DEF TakeTokens, Delay, EmitChunk, EmitDone, Execute, FinalizeMeta
  <2>2. work' \in {"running", "delayed", "answered", "finalizing"}
    BY <1>3 DEF TakeTokens, Delay, EmitChunk, EmitDone, Execute, FinalizeMeta
  <2>3. QED
    BY <2>1, <2>2
<1>4. ASSUME NEW error \in Failures, ProviderFails(error)
      PROVE  /\ RunsLeft' /\ runs' = runs /\ tries' \in 0..Attempts /\ stalls' = stalls
             /\ work = "running" /\ work' \in {"backoff", "failed"} /\ row' = row
  <2>1. /\ runs' = runs /\ tries' = tries + 1 /\ stalls' = stalls /\ row' = row
        /\ work = "running"
        /\ work' \in {"backoff", "failed"} /\ (work' = "backoff" => tries + 1 < Attempts)
    BY <1>4 DEF ProviderFails, AfterFailure
  <2>2. QED
    BY <2>1
<1>5. CASE Refused
  <2>1. /\ runs' = runs /\ tries' = tries /\ stalls' = stalls /\ row' = row
        /\ work \in {"marked", "running"} /\ work' = "failed"
    BY <1>5 DEF Refused
  <2>2. QED
    BY <2>1
<1>6. CASE Stall
  <2>1. /\ runs' = runs /\ tries' = tries /\ stalls' = stalls + 1 /\ row' = row
        /\ work \in {"marked", "running", "answered"}
        /\ work' = IF stalls < MaxStalled THEN "stalled" ELSE "failed"
    BY <1>6 DEF Stall
  <2>2. QED
    BY <2>1
<1>7. CASE StoreAnswer \/ WriteFailure
  <2>1. /\ runs' = runs /\ tries' = tries /\ stalls' = stalls
        /\ work \in {"finalizing", "failed"} /\ work' \in {"recorded", "over"}
        /\ outcome' # "none"
    BY <1>7 DEF StoreAnswer, WriteFailure
  <2>2. cached' = cached \cup {Job}
    BY <1>7 DEF StoreAnswer, WriteFailure, Results!Write
  <2>3. QED
    BY <2>1, <2>2
<1>8. CASE MarkFailure \/ PublishFailure
  <2>1. /\ runs' = runs /\ tries' = tries /\ stalls' = stalls
        /\ row' = row /\ outcome' = outcome /\ cached' = cached
        /\ work \in {"recorded", "marked_failed"} /\ work' \in {"marked_failed", "over"}
    BY <1>8 DEF MarkFailure, PublishFailure
  <2>2. QED
    BY <2>1
<1>9. QED
  BY <1>2, <1>3, <1>4, <1>5, <1>6, <1>7, <1>8 DEF Worker

\* What the worker writes is a status, and adds at most one entry.
LEMMA WorkerTyped ==
    ASSUME StreamInv, Worker \/ Stall, PollInv'
    PROVE  /\ TypeOK'
           /\ log' = log \/ \E entry \in Entries : log' = Append(log, entry)
           /\ UNCHANGED <<conn, last, seen, buffer, cursor, told, drops, gone, streaming>>
<1> USE StreamAssumption DEF StreamInv, PollInv, resultVars, streamVars, workVars, connVars,
        clientVars
<1>1. /\ log \in Seq(Entries) /\ gone \in 0..Len(log)
      /\ last \in 0..Len(log) /\ cursor \in JobId..Len(log)
      /\ sent \in 0..Chunks
  BY DEF TypeOK, Entries
<1>2. /\ log' = log \/ \E entry \in Entries : log' = Append(log, entry)
      /\ UNCHANGED <<conn, last, seen, buffer, cursor, told, drops, gone, streaming>>
  <2>1. /\ DoneEntry \in Entries /\ Error(TRUE) \in Entries /\ Error(FALSE) \in Entries
        /\ sent < Chunks => Chunk(sent + 1) \in Entries
    <3>1. sent < Chunks => sent + 1 \in 1..Chunks
      BY <1>1
    <3>2. QED
      BY <3>1, Zenon DEF Entries
  <2>2. CASE MarkInProgress \/ TakeTokens \/ Delay \/ Execute \/ Refused \/ Stall
    BY <2>2 DEF MarkInProgress, TakeTokens, Delay, Execute, Refused, Stall
  <2>3. CASE EmitChunk
    BY <2>1, <2>3 DEF EmitChunk, Add
  <2>4. CASE EmitDone
    BY <2>1, <2>4 DEF EmitDone, Add
  <2>5. ASSUME NEW error \in Failures, ProviderFails(error)
        PROVE  /\ log' = log \/ \E entry \in Entries : log' = Append(log, entry)
               /\ UNCHANGED <<conn, last, seen, buffer, cursor, told, drops, gone,
                              streaming>>
    <3>1. error.retryable \in BOOLEAN
      BY FailureTyped
    <3>2. Error(error.retryable) \in Entries
      BY <2>1, <3>1
    <3>3. QED
      BY <2>5, <3>2 DEF ProviderFails, Add
  <2>6. CASE FinalizeMeta \/ StoreAnswer \/ WriteFailure \/ MarkFailure \/ PublishFailure
    BY <2>1, <2>6 DEF FinalizeMeta, StoreAnswer, WriteFailure, MarkFailure, PublishFailure,
       Add
  <2>7. QED
    BY <2>2, <2>3, <2>4, <2>5, <2>6 DEF Worker
<1>3. log' \in Seq(Entries) /\ Len(log') \in Nat /\ Len(log) <= Len(log') /\ Len(log) \in Nat
  BY <1>1, <1>2, AppendProperties
<1>4. gone' \in 0..Len(log') /\ last' \in 0..Len(log') /\ cursor' \in JobId..Len(log')
  BY <1>1, <1>2, <1>3 DEF JobId
<1>5. /\ meta' \in Statuses /\ fading' \in BOOLEAN
      /\ work' \in Stages
      /\ taken' \in BOOLEAN /\ delays' \in 0..MaxDelays
      /\ sent' \in 0..Chunks /\ verdict' \in Verdicts \cup {"none"}
  <2>0. /\ meta \in Statuses /\ fading \in BOOLEAN /\ work \in Stages
        /\ taken \in BOOLEAN /\ delays \in 0..MaxDelays
        /\ verdict \in Verdicts \cup {"none"} /\ sent \in 0..Chunks
    BY DEF TypeOK, Stages
  <2> HIDE DEF StreamInv, PollInv
  <2> USE <2>0 DEF Statuses, Stages
  <2>1. CASE MarkInProgress
    <3>1. sent' \in 0..Chunks
      BY <2>1 DEF MarkInProgress
    <3>2. meta' \in Statuses /\ work' \in {"running", "marked"} /\ verdict' = "none"
      BY <2>1 DEF MarkInProgress
    <3>3. UNCHANGED <<fading, taken, delays>>
      BY <2>1 DEF MarkInProgress
    <3>4. QED
      BY <3>1, <3>2, <3>3
  <2>2. CASE TakeTokens \/ Execute \/ Refused \/ Stall
    <3>1. UNCHANGED <<meta, fading, delays, sent, verdict>>
      BY <2>2 DEF TakeTokens, Execute, Refused, Stall
    <3>2. /\ work' \in {"running", "answered", "failed", "stalled"}
          /\ taken' \in {taken, TRUE}
      BY <2>2 DEF TakeTokens, Execute, Refused, Stall
    <3>3. QED
      BY <3>1, <3>2
  <2>3. CASE Delay
    <3>1. /\ UNCHANGED <<fading, taken, sent, verdict>>
          /\ work' = "delayed" /\ meta' = "queued" /\ delays' \in 0..MaxDelays
      BY <2>3 DEF Delay
    <3>2. QED
      BY <3>1
  <2>4. CASE EmitChunk \/ EmitDone
    <3>1. /\ UNCHANGED <<meta, taken, delays, verdict>>
          /\ work' \in {"running", "answered"} /\ fading' \in {fading, FALSE, TRUE}
      BY <2>4 DEF EmitChunk, EmitDone
    <3>2. sent' = sent \/ (sent < Chunks /\ sent' = sent + 1)
      BY <2>4 DEF EmitChunk, EmitDone
    <3>3. sent' \in 0..Chunks
      BY <3>2
    <3>4. QED
      BY <3>1, <3>3
  <2>5. ASSUME NEW error \in Failures, ProviderFails(error)
        PROVE  /\ work' \in {"backoff", "failed"} /\ fading' \in BOOLEAN
               /\ verdict' \in Verdicts
               /\ UNCHANGED <<meta, taken, delays, sent>>
    <3>1. error.verdict \in Verdicts
      BY FailureTyped
    <3>2. QED
      BY <2>5, <3>1 DEF ProviderFails, AfterFailure
  <2>6. CASE FinalizeMeta \/ StoreAnswer \/ WriteFailure \/ MarkFailure \/ PublishFailure
    <3>1. /\ UNCHANGED <<taken, delays, sent>>
          /\ work' \in {"finalizing", "recorded", "marked_failed", "over"}
          /\ meta' \in {meta, "completed", "failed"}
          /\ fading' \in {fading, TRUE} /\ verdict' \in {verdict, "none"}
      BY <2>6 DEF FinalizeMeta, StoreAnswer, WriteFailure, MarkFailure, PublishFailure
    <3>2. QED
      BY <3>1
  <2>7. QED
    BY <2>1, <2>2, <2>3, <2>4, <2>5, <2>6 DEF Worker
<1>6. /\ written' \in [{Job} -> 0..1] /\ row' \in [{Job} -> 0..1]
      /\ cached' \subseteq {Job} /\ deleted' = {}
      /\ outcome' \in {"none", "completed", "failed"}
  BY DEF FoundInv, Found
<1>7. runs' \in 0..MaxRuns /\ tries' \in 0..Attempts /\ stalls' \in 0..MaxStalled + 1
  BY RunsGrow
<1>8. TypeOK'
  BY <1>2, <1>3, <1>4, <1>5, <1>6, <1>7 DEF TypeOK, Entries, Statuses, Stages
<1>9. QED
  BY <1>2, <1>8

\* The stream of a job that ran once takes its chunks and its end in order.
LEMMA WorkerOneRun ==
    ASSUME StreamInv, Worker \/ Stall
    PROVE  OneRun'
<1> SUFFICES ASSUME streaming', runs' <= 1 PROVE Single'
  BY DEF OneRun
<1>1. /\ log \in Seq(Entries) /\ Len(log) \in Nat /\ gone \in 0..Len(log)
      /\ sent \in 0..Chunks /\ runs \in Nat /\ fading \in BOOLEAN
      /\ Chunks \in Nat
  BY StreamAssumption DEF StreamInv, TypeOK, Entries
<1>2. runs' \in Nat /\ runs <= runs' /\ work # "over"
  BY RunsGrow
<1>3. streaming
  BY DEF Worker, Stall, MarkInProgress, TakeTokens, Delay, EmitChunk, EmitDone, Execute,
         ProviderFails, Refused, FinalizeMeta, StoreAnswer, WriteFailure, MarkFailure,
         PublishFailure
<1>4. Single /\ RunsLeft
  <2>1. runs <= 1
    BY <1>1, <1>2
  <2>2. QED
    BY <1>3, <2>1 DEF StreamInv, OneRun
<1>5. CASE MarkInProgress
  <2>1. UNCHANGED <<log, gone, fading>> /\ sent' = 0 /\ work' \in {"running", "marked"}
    BY <1>5 DEF MarkInProgress, streamVars
  <2>2. work \in {"queued", "delayed"}
    BY <1>1, <1>4, <1>5 DEF MarkInProgress, RunsLeft
  <2>3. sent = 0 /\ Len(log) = 0 /\ ~fading /\ gone = 0
    BY <1>1, <1>4, <2>2 DEF Single
  <2>4. QED
    BY <2>1, <2>3 DEF Single
<1>6. CASE TakeTokens \/ Delay \/ Execute \/ Stall
  <2>1. UNCHANGED <<log, gone, fading, sent>>
    BY <1>6 DEF TakeTokens, Delay, Execute, Stall, streamVars
  <2>2. work' \in {"queued", "marked", "delayed", "running"} => work = "marked"
    BY <1>6 DEF TakeTokens, Delay, Execute, Stall
  <2>3. QED
    BY <1>4, <2>1, <2>2 DEF Single
<1>7. CASE EmitChunk
  <2> DEFINE x == Chunk(sent + 1)
  <2>1. /\ log' = Append(log, x) /\ sent' = sent + 1 /\ sent < Chunks
        /\ UNCHANGED <<gone, work>> /\ work = "running"
        /\ fading' => fading
    BY <1>7 DEF EmitChunk, Add
  <2>2. x \in Entries /\ x.type = "chunk"
    <3>1. sent + 1 \in 1..Chunks
      BY <1>1, <2>1
    <3>2. QED
      BY <3>1, Zenon DEF Entries, Chunk
  <2>3. /\ Len(log') = Len(log) + 1 /\ log'[Len(log) + 1] = x
        /\ \A i \in 1..Len(log) : log'[i] = log[i]
    BY <1>1, <2>1, <2>2, AppendProperties
  <2>4. Len(log) = sent /\ ~fading /\ gone = 0
    BY <1>1, <1>4, <2>1 DEF Single
  <2>5. ASSUME NEW i \in 1..Len(log')
        PROVE  log'[i] = Chunk(i) /\ i <= sent'
    BY <1>1, <1>4, <2>1, <2>3, <2>4 DEF Single
  <2>6. QED
    BY <1>1, <2>1, <2>3, <2>4, <2>5 DEF Single, Chunk
<1>8. CASE EmitDone
  <2>1. /\ log' = Append(log, DoneEntry) /\ sent' = sent /\ sent = Chunks
        /\ gone' = gone /\ work = "running" /\ work' = "answered"
    BY <1>8 DEF EmitDone, Add
  <2>2. /\ Len(log') = Len(log) + 1 /\ log'[Len(log) + 1] = DoneEntry
        /\ \A i \in 1..Len(log) : log'[i] = log[i]
    BY <1>1, <2>1, AppendProperties DEF Entries
  <2>3. Len(log) = sent /\ gone = 0
    BY <1>1, <1>4, <2>1 DEF Single
  <2>4. ASSUME NEW i \in 1..Len(log')
        PROVE  \/ i <= sent /\ log'[i] = Chunk(i)
               \/ i = sent + 1 /\ log'[i] = DoneEntry
    BY <1>1, <1>4, <2>2, <2>3 DEF Single
  <2>5. QED
    BY <1>1, <2>1, <2>2, <2>3, <2>4 DEF Single, Chunk, DoneEntry
<1>9. ASSUME NEW r \in BOOLEAN, log' = Append(log, Error(r)), sent' = sent, gone' = gone,
             work' \in {"backoff", "failed", "over"}
      PROVE  Single'
  <2>1. Error(r) \in Entries
    BY DEF Entries
  <2>2. /\ Len(log') = Len(log) + 1 /\ log'[Len(log) + 1] = Error(r)
        /\ \A i \in 1..Len(log) : log'[i] = log[i]
    BY <1>1, <1>9, <2>1, AppendProperties
  <2>3. ASSUME NEW i \in 1..Len(log')
        PROVE  \/ i \in 1..Len(log) /\ log'[i] = log[i]
               \/ i > sent /\ log'[i] = Error(r)
    BY <1>1, <1>4, <2>2 DEF Single
  <2>4. QED
    BY <1>1, <1>4, <1>9, <2>2, <2>3 DEF Single, Error
<1>10. ASSUME NEW error \in Failures, ProviderFails(error)
       PROVE  Single'
  BY <1>3, <1>9, <1>10, FailureTyped DEF ProviderFails, AfterFailure, Add
<1>11. CASE Refused
  <2>1. UNCHANGED <<log, gone, fading, sent>> /\ work' = "failed"
    BY <1>11 DEF Refused, streamVars
  <2>2. QED
    BY <1>4, <2>1 DEF Single
<1>12. CASE FinalizeMeta \/ StoreAnswer \/ WriteFailure \/ MarkFailure
  <2>1. /\ UNCHANGED <<log, gone, fading, sent>>
        /\ work' \in {"finalizing", "recorded", "marked_failed", "over"}
    BY <1>12 DEF FinalizeMeta, StoreAnswer, WriteFailure, MarkFailure, streamVars
  <2>2. QED
    BY <1>4, <2>1 DEF Single
<1>13. CASE PublishFailure
  BY <1>9, <1>13 DEF PublishFailure, Add
<1>14. QED
  BY <1>5, <1>6, <1>7, <1>8, <1>10, <1>11, <1>12, <1>13 DEF Worker

\* Nothing the worker adds is behind a cursor.
LEMMA WorkerKeeps ==
    ASSUME StreamInv, Worker \/ Stall, PollInv', UNCHANGED pollVars
    PROVE  StreamInv'
<1>1. /\ TypeOK'
      /\ log' = log \/ \E entry \in Entries : log' = Append(log, entry)
      /\ UNCHANGED <<conn, last, seen, buffer, cursor, told, drops, gone, streaming>>
  BY WorkerTyped
<1>2. /\ log \in Seq(Entries) /\ Len(log) \in Nat /\ cursor \in JobId..Len(log)
      /\ runs \in Nat
  BY DEF StreamInv, TypeOK, Entries
<1>3. RunsLeft' /\ Ended' /\ runs' \in Nat /\ runs <= runs' /\ work # "over"
      /\ (work' = "over" => Job \in cached')
  BY RunsGrow
<1>4. Connected' /\ Polling'
  BY <1>1 DEF StreamInv, Connected, Polling, pollVars
<1>5. NoChunks'
  <2> SUFFICES ASSUME ~streaming PROVE \A i \in 1..Len(log') : log'[i].type = "error"
    BY <1>1 DEF NoChunks
  <2>1. log' = log \/ \E r \in BOOLEAN : log' = Append(log, Error(r))
    <3>1. ASSUME NEW error \in Failures, ProviderFails(error)
          PROVE  log' = log
      BY <3>1 DEF ProviderFails
    <3>2. CASE PublishFailure
      BY <3>2 DEF PublishFailure, Add
    <3>3. QED
      BY <3>1, <3>2 DEF Worker, Stall, MarkInProgress, TakeTokens, Delay, EmitChunk, EmitDone,
         Execute, Refused, FinalizeMeta, StoreAnswer, WriteFailure, MarkFailure, streamVars
  <2>2. \A i \in 1..Len(log) : log[i].type = "error"
    BY DEF StreamInv, NoChunks
  <2>3. CASE log' = log
    BY <2>2, <2>3
  <2>4. ASSUME NEW r \in BOOLEAN, log' = Append(log, Error(r))
        PROVE  \A i \in 1..Len(log') : log'[i].type = "error"
    <3>1. Error(r) \in Entries /\ Error(r).type = "error"
      BY DEF Entries, Error
    <3>2. /\ Len(log') = Len(log) + 1 /\ log'[Len(log) + 1] = Error(r)
          /\ \A i \in 1..Len(log) : log'[i] = log[i]
      BY <1>2, <2>4, <3>1, AppendProperties
    <3>3. \A i \in 1..Len(log') : i \in 1..Len(log) \/ i = Len(log) + 1
      BY <1>2, <3>2
    <3>4. QED
      BY <2>2, <3>1, <3>2, <3>3
  <2>5. QED
    BY <2>1, <2>3, <2>4
<1>6. StreamFirst'
  <2>1. meta # "none"
    BY <1>3 DEF StreamInv, PollInv, FoundInv, Found
  <2>2. ~(conn = "exists" /\ seen = "none")
    BY <2>1 DEF StreamInv, StreamFirst
  <2>3. QED
    BY <1>1, <1>3, <2>2 DEF StreamFirst
<1>7. NoGapNoRepeat'
  <2> SUFFICES ASSUME told = "nothing", gone = 0, cursor # JobId
               PROVE  buffer = Text(SubSeq(log', 1, cursor))
    BY <1>1 DEF NoGapNoRepeat, JobId
  <2>1. cursor \in 0..Len(log) /\ buffer = Text(SubSeq(log, 1, cursor))
    BY <1>2 DEF StreamInv, NoGapNoRepeat, JobId
  <2>2. SubSeq(log', 1, cursor) = SubSeq(log, 1, cursor)
    BY <1>1, <1>2, <2>1, PrefixGrows
  <2>3. QED
    BY <2>1, <2>2
<1>8. CompletedIsWhole'
  BY <1>1, <1>2, <1>3 DEF StreamInv, CompletedIsWhole, Answer
<1>9. QED
  BY <1>1, <1>3, <1>4, <1>5, <1>6, <1>7, <1>8, WorkerOneRun DEF StreamInv

\* The keys go in the order of their TTLs.
LEMMA KeysKeep ==
    ASSUME StreamInv, Keys, PollInv', UNCHANGED pollVars
    PROVE  StreamInv'
<1>1. /\ log \in Seq(Entries) /\ Len(log) \in Nat /\ gone \in 0..Len(log)
      /\ fading \in BOOLEAN /\ meta \in Statuses
  BY DEF StreamInv, TypeOK, Entries
<1>2. UNCHANGED <<streaming, log, workVars, connVars, clientVars>>
  BY DEF Keys, StreamExpires, SyncRow, ResultExpires, MetaExpires, streamVars
<1>3. \/ gone' = gone /\ fading' = fading
      \/ StreamExpires
  BY DEF Keys, SyncRow, ResultExpires, MetaExpires, streamVars
<1>4. gone' \in 0..Len(log) /\ fading' \in BOOLEAN /\ gone <= gone'
  <2>1. gone' = gone \/ gone' = Len(log)
    BY <1>3 DEF StreamExpires
  <2>2. gone' \in 0..Len(log) /\ gone <= gone'
    BY <1>1, <2>1
  <2>3. fading' = fading \/ fading' = FALSE
    BY <1>3 DEF StreamExpires
  <2>4. QED
    BY <1>1, <2>2, <2>3
<1>5. meta' \in Statuses /\ (meta = "none" => meta' = "none")
  BY <1>1 DEF Keys, StreamExpires, SyncRow, ResultExpires, MetaExpires, Statuses
<1>6. TypeOK'
  <2>1. /\ written' \in [{Job} -> 0..1] /\ row' \in [{Job} -> 0..1]
        /\ cached' \subseteq {Job} /\ deleted' = {}
        /\ outcome' \in {"none", "completed", "failed"}
    BY DEF PollInv, FoundInv, Found
  <2>2. /\ streaming' = streaming /\ log' = log
        /\ work' = work /\ runs' = runs /\ taken' = taken /\ delays' = delays
        /\ sent' = sent /\ verdict' = verdict /\ tries' = tries /\ stalls' = stalls
        /\ conn' = conn /\ last' = last /\ seen' = seen
        /\ buffer' = buffer /\ cursor' = cursor /\ told' = told /\ drops' = drops
    BY <1>2 DEF workVars, countVars, connVars, clientVars
  <2>3. QED
    BY <1>4, <1>5, <2>1, <2>2 DEF StreamInv, TypeOK
<1>7. RunsLeft' /\ Connected' /\ Polling' /\ NoChunks' /\ CompletedIsWhole'
  BY <1>2 DEF StreamInv, RunsLeft, Connected, Polling, NoChunks, CompletedIsWhole, workVars,
              countVars, connVars, clientVars, pollVars, Answer
<1>8. StreamFirst'
  <2>1. work = "over" /\ cached' = {} => gone' = Len(log)
    <3>1. CASE cached' = cached
      BY <1>1, <1>4, <3>1 DEF StreamInv, StreamFirst
    <3>2. CASE ResultExpires
      BY <1>1, <3>2 DEF ResultExpires, StreamExists, streamVars
    <3>3. QED
      BY <3>1, <3>2 DEF Keys, StreamExpires, SyncRow, MetaExpires, resultVars, Results!Store
  <2>2. QED
    BY <1>2, <1>5, <2>1 DEF StreamInv, StreamFirst, workVars, connVars
<1>9. OneRun'
  <2> SUFFICES ASSUME streaming, runs <= 1 PROVE Single'
    BY <1>2 DEF OneRun, workVars
  <2>1. Single
    BY DEF StreamInv, OneRun
  <2>2. CASE StreamExpires
    <3>1. fading /\ gone' = Len(log) /\ ~fading'
      BY <2>2 DEF StreamExpires
    <3>2. QED
      BY <1>2, <2>1, <3>1 DEF Single, workVars
  <2>3. CASE gone' = gone /\ fading' = fading
    BY <1>2, <2>1, <2>3 DEF Single, workVars
  <2>4. QED
    BY <1>3, <2>2, <2>3
<1>10. NoGapNoRepeat'
  <2> SUFFICES ASSUME told' = "nothing", gone' = 0, cursor' # JobId
               PROVE  (buffer = Text(SubSeq(log, 1, cursor)))'
    BY DEF NoGapNoRepeat
  <2>1. gone = 0
    BY <1>1, <1>4
  <2>2. told = "nothing" /\ cursor # JobId
    BY <1>2 DEF clientVars, JobId
  <2>3. buffer = Text(SubSeq(log, 1, cursor))
    BY <2>1, <2>2 DEF StreamInv, NoGapNoRepeat
  <2>4. QED
    BY <1>2, <2>3 DEF clientVars
<1>11. Ended'
  <2>1. row'[Job] > 0 => Settled
    <3>1. CASE row' = row
      BY <3>1 DEF StreamInv, Ended
    <3>2. CASE SyncRow
      <4>1. row'[Job] = row[Job] \/ row'[Job] <= written[Job]
        BY <3>2 DEF SyncRow, Results!Store
      <4>2. ~Settled => written[Job] = 0 /\ ~(row[Job] > 0)
        BY DEF StreamInv, PollInv, FoundInv, Found, Ended
      <4>3. row'[Job] \in 0..1
        BY DEF PollInv, FoundInv, Found
      <4>4. QED
        BY <4>1, <4>2, <4>3
    <3>3. QED
      BY <3>1, <3>2 DEF Keys, StreamExpires, ResultExpires, MetaExpires, resultVars,
         Results!Drop
  <2>2. outcome' = outcome
    BY DEF Keys, StreamExpires, SyncRow, ResultExpires, MetaExpires, resultVars
  <2>3. QED
    BY <1>2, <2>1, <2>2 DEF StreamInv, Ended, Settled, workVars
<1>12. QED
  BY <1>6, <1>7, <1>8, <1>9, <1>10, <1>11 DEF StreamInv

-----------------------------------------------------------------------------
(* The client.                                                             *)

ClientTyped ==
    /\ conn \in {"closed", "result", "meta", "exists", "history", "live", "database"}
    /\ last \in 0..Len(log) /\ cursor \in JobId..Len(log)
    /\ seen \in Statuses /\ drops \in 0..MaxDrops
    /\ buffer \in Seq(1..Chunks)
    /\ told \in {"nothing", "completed", "failed", "NOT_FOUND"}

SeenNone == conn = "exists" /\ seen = "none" => meta = "none"

ClientInv == ClientTyped /\ Connected /\ SeenNone /\ NoGapNoRepeat /\ CompletedIsWhole

\* The stored answer is the whole one.
LEMMA StoredWhole ==
    /\ StoredText \in Seq(1..Chunks)
    /\ outcome = "completed" => StoredText = Answer
<1>1. Answer \in [1..Chunks -> 1..Chunks] /\ Chunks \in Nat
  BY StreamAssumption DEF Answer
<1>2. Answer \in UNION {[1..n -> 1..Chunks] : n \in Nat}
  BY <1>1
<1>3. Seq(1..Chunks) = UNION {[1..n -> 1..Chunks] : n \in Nat}
  BY SeqDef
<1>4. Answer \in Seq(1..Chunks)
  BY <1>2, <1>3, Zenon
<1>5. <<>> \in Seq(1..Chunks)
  OBVIOUS
<1>6. QED
  BY <1>4, <1>5 DEF StoredText

\* A result in Redis or in the database says how the job ended.
LEMMA OutcomeKnown ==
    ASSUME StreamInv, Job \in cached \/ row[Job] > 0
    PROVE  outcome \in {"completed", "failed"}
<1>1. Settled
  BY DEF StreamInv, PollInv, FoundInv, Found, Ended
<1>2. QED
  BY <1>1 DEF StreamInv, Ended, TypeOK

\* An end is told with its text, and closes the connection.
LEMMA FinishStep ==
    ASSUME StreamInv, NEW text \in Seq(1..Chunks),
           NEW status \in {"completed", "failed", "NOT_FOUND"}, Finish(text, status),
           ServerOnly, status = "completed" => text = Answer
    PROVE  ClientInv'
<1>1. /\ conn' = "closed" /\ last' = 0 /\ seen' = "none" /\ buffer' = text
      /\ told' = status /\ cursor' = cursor /\ drops' = drops /\ log' = log
  BY DEF Finish, Close, ServerOnly, streamVars
<1>2. Len(log) \in Nat /\ cursor \in JobId..Len(log) /\ drops \in 0..MaxDrops
  BY DEF StreamInv, TypeOK
<1>3. ClientTyped'
  BY <1>1, <1>2 DEF ClientTyped, Statuses
<1>4. Connected' /\ SeenNone' /\ NoGapNoRepeat' /\ CompletedIsWhole'
  BY <1>1 DEF Connected, SeenNone, NoGapNoRepeat, CompletedIsWhole, Answer
<1>5. QED
  BY <1>3, <1>4 DEF ClientInv

\* What the client does on its own, and the lookups that send nothing.
LEMMA LookupsKeep ==
    ASSUME StreamInv, ServerOnly,
           NoResult \/ ReadMeta \/ ToHistory \/ ToDatabase \/ EndLive \/ Connect \/ Drop
             \/ DropAfterJobId
    PROVE  ClientInv'
<1>1. /\ Len(log) \in Nat /\ last \in 0..Len(log) /\ cursor \in JobId..Len(log)
      /\ seen \in Statuses /\ meta \in Statuses
      /\ conn \in {"closed", "result", "meta", "exists", "history", "live", "database"}
      /\ drops \in 0..MaxDrops /\ buffer \in Seq(1..Chunks) /\ MaxDrops \in Nat
      /\ told \in {"nothing", "completed", "failed", "NOT_FOUND"}
      /\ log' = log /\ gone' = gone /\ meta' = meta /\ streaming' = streaming /\ runs' = runs
  BY StreamAssumption DEF StreamInv, TypeOK, ServerOnly, streamVars, workVars
<1>2. Connected /\ SeenNone /\ NoGapNoRepeat /\ CompletedIsWhole
  BY DEF StreamInv, StreamFirst, SeenNone
<1> USE <1>1, <1>2 DEF ClientInv, ClientTyped, clientVars, connVars
<1>3. CASE NoResult \/ ReadMeta \/ ToHistory \/ ToDatabase
  <2>1. /\ UNCHANGED clientVars /\ last' = last
        /\ conn' \in {"meta", "exists", "history", "live", "database"} /\ conn # "closed"
        /\ seen' \in {seen, meta} /\ (conn' = "exists" => seen' = meta)
        /\ conn' \in {"history", "live"} => streaming /\ (conn' = "history" => last = 0)
    BY <1>3 DEF NoResult, ReadMeta, ToHistory, ToDatabase, GoTo, IsStreamingJob
  <2>2. ClientTyped'
    BY <2>1
  <2>3. Connected' /\ SeenNone'
    BY <2>1 DEF Connected, SeenNone
  <2>4. NoGapNoRepeat' /\ CompletedIsWhole'
    BY <2>1 DEF NoGapNoRepeat, CompletedIsWhole, Answer, JobId
  <2>5. QED
    BY <2>2, <2>3, <2>4
<1>4. CASE EndLive
  <2>1. UNCHANGED clientVars /\ conn' = "closed" /\ last' = 0 /\ seen' = "none"
    BY <1>4 DEF EndLive, Close
  <2>2. ClientTyped' /\ Connected' /\ SeenNone'
    BY <2>1 DEF Connected, SeenNone, Statuses
  <2>3. NoGapNoRepeat' /\ CompletedIsWhole'
    BY <2>1 DEF NoGapNoRepeat, CompletedIsWhole, Answer, JobId
  <2>4. QED
    BY <2>2, <2>3
<1>5. ASSUME told' = told, drops' \in 0..MaxDrops, buffer' = <<>>, cursor' = 0,
             conn' = "closed", last' = last \/ last' = 0, seen' \in Statuses,
             told # "completed"
      PROVE  ClientInv'
  <2>1. ClientTyped' /\ Connected' /\ SeenNone'
    BY <1>5 DEF Connected, SeenNone, JobId
  <2>2. SubSeq(log, 1, 0) = <<>>
    BY SubSeqEmpty
  <2>3. NoGapNoRepeat' /\ CompletedIsWhole'
    BY <1>5, <2>2, TextEmpty DEF NoGapNoRepeat, CompletedIsWhole
  <2>4. QED
    BY <2>1, <2>3
<1>6. CASE Connect
  <2>1. CASE cursor = JobId
    <3>1. /\ told' = told /\ drops' = drops /\ buffer' = <<>> /\ cursor' = 0
          /\ conn' = "closed" /\ last' = last /\ seen' = seen /\ told = "nothing"
      BY <1>6, <2>1 DEF Connect
    <3>2. QED
      BY <1>5, <3>1
  <2>2. CASE cursor # JobId
    <3>1. /\ UNCHANGED clientVars /\ conn' = "result" /\ last' = cursor /\ seen' = seen
          /\ told = "nothing"
      BY <1>6, <2>2 DEF Connect
    <3>2. cursor \in 0..Len(log)
      BY <2>2 DEF JobId
    <3>3. ClientTyped' /\ Connected' /\ SeenNone'
      BY <3>1, <3>2 DEF Connected, SeenNone
    <3>4. NoGapNoRepeat' /\ CompletedIsWhole'
      BY <3>1 DEF NoGapNoRepeat, CompletedIsWhole, Answer, JobId
    <3>5. QED
      BY <3>3, <3>4
  <2>3. QED
    BY <2>1, <2>2
<1>7. ASSUME Lose
      PROVE  /\ drops' \in 0..MaxDrops /\ told = "nothing"
             /\ conn' = "closed" /\ last' = 0 /\ seen' = "none"
  BY <1>7 DEF Lose, Close, Connected
<1>8. CASE Drop
  <2>1. Lose /\ told' = told
    BY <1>8 DEF Drop
  <2>2. CASE buffer' = <<>> /\ cursor' = 0
    BY <1>5, <1>7, <2>1, <2>2 DEF Statuses
  <2>3. CASE buffer' = buffer /\ cursor' = cursor
    <3>1. ClientTyped' /\ Connected' /\ SeenNone'
      BY <1>7, <2>1, <2>3 DEF Connected, SeenNone, Statuses
    <3>2. NoGapNoRepeat' /\ CompletedIsWhole'
      BY <2>1, <2>3 DEF NoGapNoRepeat, CompletedIsWhole, Answer, JobId
    <3>3. QED
      BY <3>1, <3>2
  <2>4. QED
    BY <1>8, <2>2, <2>3 DEF Drop
<1>9. CASE DropAfterJobId
  <2>1. Lose /\ told' = told /\ cursor' = JobId /\ buffer' \in {StoredText, buffer}
    BY <1>9 DEF DropAfterJobId
  <2>2. buffer' \in Seq(1..Chunks)
    BY <2>1, StoredWhole
  <2>3. ClientTyped' /\ Connected' /\ SeenNone'
    BY <1>7, <2>1, <2>2 DEF Connected, SeenNone, Statuses, JobId
  <2>4. NoGapNoRepeat' /\ CompletedIsWhole'
    BY <1>7, <2>1 DEF NoGapNoRepeat, CompletedIsWhole, JobId
  <2>5. QED
    BY <2>3, <2>4
<1>10. QED
  BY <1>3, <1>4, <1>6, <1>8, <1>9

\* A stored result ends the wait.
LEMMA ResultsKeep ==
    ASSUME StreamInv, ServerOnly, SendResult \/ AnswerFromDatabase
    PROVE  ClientInv'
<1>1. CASE Job \in cached \/ row[Job] > 0
  <2>1. outcome \in {"completed", "failed"}
    BY <1>1, OutcomeKnown
  <2>2. Finish(StoredText, outcome) \/ Finish(<<>>, "NOT_FOUND")
    BY DEF SendResult, AnswerFromDatabase
  <2>3. StoredText \in Seq(1..Chunks) /\ (outcome = "completed" => StoredText = Answer)
    BY StoredWhole
  <2>4. CASE Finish(StoredText, outcome)
    BY <2>1, <2>3, <2>4, FinishStep
  <2>5. CASE Finish(<<>>, "NOT_FOUND")
    <3>1. <<>> \in Seq(1..Chunks)
      OBVIOUS
    <3>2. QED
      BY <2>5, <3>1, FinishStep
  <2>6. QED
    BY <2>2, <2>4, <2>5
<1>2. CASE ~(Job \in cached \/ row[Job] > 0)
  <2>1. Finish(<<>>, "NOT_FOUND")
    BY <1>2 DEF SendResult, AnswerFromDatabase
  <2>2. <<>> \in Seq(1..Chunks)
    OBVIOUS
  <2>3. QED
    BY <2>1, <2>2, FinishStep
<1>3. QED
  BY <1>1, <1>2

\* A job that shows no text yet has none: it does not stream, or its stream is empty.
LEMMA StatusKeeps ==
    ASSUME StreamInv, ServerOnly, SendStatus
    PROVE  ClientInv'
<1>1. /\ log \in Seq(Entries) /\ Len(log) \in Nat /\ cursor \in JobId..Len(log)
      /\ gone \in 0..Len(log) /\ drops \in 0..MaxDrops
      /\ told \in {"nothing", "completed", "failed", "NOT_FOUND"}
  BY DEF StreamInv, TypeOK, Entries
<1>2. /\ conn = "exists" /\ (seen # "none" \/ StreamExists)
      /\ ~IsStreamingJob \/ ~StreamExists
      /\ conn' = "closed" /\ last' = 0 /\ seen' = "none" /\ buffer' = <<>>
      /\ UNCHANGED <<cursor, told, drops>>
      /\ log' = log /\ gone' = gone /\ meta' = meta
  BY DEF SendStatus, Close, ServerOnly, streamVars
<1>3. told = "nothing"
  BY <1>2 DEF StreamInv, Connected
<1>4. ClientTyped' /\ Connected' /\ SeenNone' /\ CompletedIsWhole'
  BY <1>1, <1>2, <1>3 DEF ClientTyped, Connected, SeenNone, CompletedIsWhole, Statuses
<1>5. NoGapNoRepeat'
  <2> SUFFICES ASSUME gone = 0, cursor # JobId PROVE Text(SubSeq(log, 1, cursor)) = <<>>
    BY <1>2 DEF NoGapNoRepeat, JobId
  <2>1. cursor \in 0..Len(log)
    BY <1>1 DEF JobId
  <2>2. CASE ~StreamExists
    <3>1. cursor = 0
      BY <1>1, <2>1, <2>2 DEF StreamExists
    <3>2. SubSeq(log, 1, cursor) = <<>>
      BY <3>1, SubSeqEmpty
    <3>3. QED
      BY <3>2, TextEmpty
  <2>3. CASE StreamExists
    <3>1. seen # "none"
      <4> SUFFICES ASSUME seen = "none" PROVE FALSE
        OBVIOUS
      <4>1. meta = "none"
        BY <1>2 DEF StreamInv, StreamFirst
      <4>2. cached = {} /\ work = "over"
        BY <4>1 DEF StreamInv, PollInv, FoundInv, Found
      <4>3. gone = Len(log)
        BY <4>2 DEF StreamInv, StreamFirst
      <4>4. QED
        BY <1>1, <2>3, <4>3 DEF StreamExists
    <3>2. ~streaming
      BY <1>2, <2>3, <3>1 DEF IsStreamingJob
    <3>3. \A i \in 1..Len(log) : log[i].type = "error"
      BY <3>2 DEF StreamInv, NoChunks
    <3> DEFINE s == SubSeq(log, 1, cursor)
    <3>4. s \in Seq(Entries) /\ Len(s) = cursor /\ \A i \in 1..cursor : s[i] = log[i]
      <4>1. \A i \in 1..cursor : log[i] \in Entries
        BY <1>1, <2>1
      <4>2. QED
        BY <1>1, <2>1, <4>1, SubSeqProperties
    <3>5. \A i \in 1..Len(s) : s[i].type # "chunk"
      BY <1>1, <2>1, <3>3, <3>4
    <3> HIDE DEF s
    <3>6. Text(s) = [n \in 1..0 |-> n]
      BY <2>1, <3>4, <3>5, TextOfRun
    <3>7. QED
      BY <3>6 DEF s
  <2>4. QED
    BY <2>2, <2>3
<1>6. QED
  BY <1>4, <1>5 DEF ClientInv

\* The stream of a job that ran once, as far as its done: the whole answer.
LEMMA DoneIsWhole ==
    ASSUME StreamInv, streaming, runs <= 1, NEW i \in 1..Len(log), i > gone,
           log[i].type = "done"
    PROVE  /\ gone = 0 /\ i = sent + 1
           /\ Text(log) = Answer /\ Text(SubSeq(log, 1, sent)) = Answer
<1>1. /\ log \in Seq(Entries) /\ Len(log) \in Nat /\ gone \in 0..Len(log) /\ sent \in 0..Chunks
      /\ Chunks \in Nat
  BY StreamAssumption DEF StreamInv, TypeOK, Entries
<1>2. Single
  BY DEF StreamInv, OneRun
<1>3. i = sent + 1 /\ sent = Chunks /\ sent <= Len(log)
  BY <1>2 DEF Single
<1>4. gone = 0
  BY <1>1, <1>2, <1>3 DEF Single
<1>5. \A k \in 1..Len(log) : /\ k <= sent => log[k] = Chunk(k)
                             /\ k > sent => log[k].type # "chunk"
  BY <1>2 DEF Single
<1>6. Text(log) = [n \in 1..sent |-> n]
  BY <1>1, <1>3, <1>5, TextOfRun
<1> DEFINE s == SubSeq(log, 1, sent)
<1>7. s \in Seq(Entries) /\ Len(s) = sent /\ \A k \in 1..sent : s[k] = log[k]
  <2>1. \A k \in 1..sent : log[k] \in Entries
    BY <1>1, <1>3
  <2>2. QED
    BY <1>1, <1>3, <2>1, SubSeqProperties
<1>8. \A k \in 1..Len(s) : /\ k <= sent => s[k] = Chunk(k)
                           /\ k > sent => s[k].type # "chunk"
  BY <1>1, <1>3, <1>5, <1>7
<1> HIDE DEF s
<1>9. Text(s) = [n \in 1..sent |-> n]
  <2>1. sent \in 0..Len(s)
    BY <1>1, <1>7
  <2>2. QED
    BY <1>7, <1>8, <2>1, TextOfRun
<1>10. QED
  BY <1>3, <1>4, <1>6, <1>9 DEF Answer, s

\* A snapshot is the text so far, and the whole one when it is final.
LEMMA SnapshotKeeps ==
    ASSUME StreamInv, ServerOnly, SendSnapshot
    PROVE  ClientInv'
<1>1. /\ log \in Seq(Entries) /\ Len(log) \in Nat /\ cursor \in JobId..Len(log)
      /\ gone \in 0..Len(log) /\ last \in 0..Len(log) /\ seen \in Statuses
      /\ drops \in 0..MaxDrops /\ runs \in Nat
      /\ buffer \in Seq(1..Chunks)
  BY DEF StreamInv, TypeOK, Entries
<1>2. /\ conn = "history" /\ log' = log /\ gone' = gone /\ meta' = meta
      /\ streaming' = streaming /\ runs' = runs
  BY DEF SendSnapshot, ServerOnly, streamVars, workVars
<1>3. /\ told = "nothing" /\ last = cursor /\ last = 0 /\ streaming
      /\ NoGapNoRepeat /\ CompletedIsWhole
  BY <1>2 DEF StreamInv, Connected
<1>4. CASE After(0) = <<>>
  <2>1. /\ conn' = "live"
        /\ UNCHANGED <<last, seen, buffer, cursor, told, drops>>
    BY <1>4 DEF SendSnapshot, GoTo, clientVars
  <2>2. ClientTyped' /\ Connected' /\ SeenNone'
    BY <1>1, <1>2, <1>3, <2>1 DEF ClientTyped, Connected, SeenNone
  <2>3. NoGapNoRepeat' /\ CompletedIsWhole'
    BY <1>2, <1>3, <2>1 DEF NoGapNoRepeat, CompletedIsWhole, JobId
  <2>4. QED
    BY <2>2, <2>3 DEF ClientInv
<1>5. CASE After(0) # <<>>
  <2>1. /\ buffer' = Text(After(0)) /\ cursor' = Len(log) /\ drops' = drops
        /\ IF Verdict(After(0)) = "in_progress"
           THEN conn' = "live" /\ last' = Len(log) /\ UNCHANGED <<seen, told>>
           ELSE /\ conn' = "closed" /\ last' = 0 /\ seen' = "none"
                /\ told' = Verdict(After(0))
    BY <1>5 DEF SendSnapshot, Close
  <2>2. Verdict(After(0)) \in {"in_progress", "completed", "failed"}
    BY DEF Verdict
  <2>3. /\ After(0) \in Seq(Entries) /\ Len(After(0)) = Len(log) - gone
        /\ \A i \in 1..Len(After(0)) : After(0)[i] = log[gone + i]
    <3>1. (IF 0 < gone THEN gone ELSE 0) = gone /\ 0 \in 0..Len(log)
      BY <1>1
    <3>2. QED
      BY <1>1, <3>1, AfterEntries
  <2>4. buffer' \in Seq(1..Chunks)
    BY <2>1, <2>3, TextType
  <2>5. ClientTyped' /\ Connected' /\ SeenNone'
    BY <1>1, <1>2, <1>3, <2>1, <2>2, <2>4
    DEF ClientTyped, Connected, SeenNone, JobId, Statuses
  <2>6. gone = 0 => After(0) = SubSeq(log, 1, Len(log))
    BY <1>1 DEF After
  <2>7. NoGapNoRepeat'
    BY <1>2, <2>1, <2>6 DEF NoGapNoRepeat
  <2>8. CompletedIsWhole'
    <3> SUFFICES ASSUME told' = "completed", ~(runs > 1) PROVE Text(After(0)) = Answer
      BY <1>2, <1>3, <2>1 DEF CompletedIsWhole, Answer
    <3>1. Verdict(After(0)) = "completed"
      BY <1>3, <2>1
    <3>2. \E i \in DOMAIN After(0) : After(0)[i].type = "done"
      BY <3>1 DEF Verdict
    <3>3. PICK i \in 1..Len(After(0)) : After(0)[i].type = "done"
      BY <2>3, <3>2
    <3>4. gone + i \in 1..Len(log) /\ gone + i > gone /\ log[gone + i].type = "done"
      BY <1>1, <2>3, <3>3
    <3>5. runs <= 1
      BY <1>1
    <3>6. gone = 0 /\ Text(log) = Answer
      BY <1>3, <3>4, <3>5, DoneIsWhole
    <3>7. SubSeq(log, 1, Len(log)) = log
      BY <1>1, SubSeqFull
    <3>8. QED
      BY <2>6, <3>6, <3>7
  <2>9. QED
    BY <2>5, <2>7, <2>8 DEF ClientInv
<1>6. QED
  BY <1>4, <1>5

\* The entry after the cursor goes to the end of what the client shows.
LEMMA EntryKeeps ==
    ASSUME StreamInv, ServerOnly, SendEntry
    PROVE  ClientInv'
<1>1. /\ log \in Seq(Entries) /\ Len(log) \in Nat /\ cursor \in JobId..Len(log)
      /\ gone \in 0..Len(log) /\ last \in 0..Len(log) /\ seen \in Statuses
      /\ drops \in 0..MaxDrops /\ runs \in Nat
      /\ buffer \in Seq(1..Chunks)
  BY DEF StreamInv, TypeOK, Entries
<1>2. /\ conn = "live" /\ log' = log /\ gone' = gone /\ meta' = meta /\ drops' = drops
      /\ streaming' = streaming /\ runs' = runs
  BY DEF SendEntry, ServerOnly, streamVars, workVars
<1>3. /\ told = "nothing" /\ last = cursor /\ streaming /\ NoGapNoRepeat /\ CompletedIsWhole
  BY <1>2 DEF StreamInv, Connected
<1> DEFINE from == IF last < gone THEN gone ELSE last
           id == from + 1
           entry == log[id]
<1>4. Len(After(last)) = Len(log) - from /\ from < Len(log)
  BY <1>1, AfterEntries DEF SendEntry
<1>5. /\ from \in Nat /\ id = Len(log) - Len(After(last)) + 1
      /\ id \in 1..Len(log) /\ id > gone /\ (gone = 0 => id = cursor + 1)
  BY <1>1, <1>3, <1>4
<1>6. /\ cursor' = id
      /\ buffer' = IF entry.type = "chunk" THEN Append(buffer, entry.data) ELSE buffer
      /\ IF entry.type = "chunk"
         THEN conn' = "live" /\ last' = id /\ UNCHANGED <<seen, told>>
         ELSE /\ conn' = "closed" /\ last' = 0 /\ seen' = "none"
              /\ told' = CASE entry.type = "done" -> "completed"
                           [] entry.retryable -> told
                           [] OTHER -> "failed"
  BY <1>5 DEF SendEntry, Close
<1>7. entry \in Entries
  BY <1>1, <1>5
<1> HIDE DEF entry, id, from
<1>8. buffer' \in Seq(1..Chunks)
  BY <1>1, <1>6, <1>7, ChunkData, AppendProperties
<1>9. told' \in {"nothing", "completed", "failed"} /\ (told' = "completed" => entry.type = "done")
  BY <1>3, <1>6
<1>10. ClientTyped' /\ Connected' /\ SeenNone'
  BY <1>1, <1>2, <1>3, <1>5, <1>6, <1>8, <1>9
  DEF ClientTyped, Connected, SeenNone, JobId, Statuses
<1>11. NoGapNoRepeat'
  <2> SUFFICES ASSUME gone = 0 PROVE buffer' = Text(SubSeq(log, 1, id))
    BY <1>2, <1>6 DEF NoGapNoRepeat
  <2>1. id = cursor + 1 /\ cursor \in 0..Len(log) /\ cursor < Len(log) /\ cursor # JobId
    BY <1>1, <1>3, <1>5 DEF JobId
  <2>2. buffer = Text(SubSeq(log, 1, cursor))
    BY <1>3, <2>1 DEF NoGapNoRepeat
  <2>3. /\ SubSeq(log, 1, cursor) \in Seq(Entries)
        /\ SubSeq(log, 1, id) = Append(SubSeq(log, 1, cursor), entry)
    BY <1>1, <2>1, PrefixNext DEF entry
  <2>4. Text(SubSeq(log, 1, id)) = IF entry.type = "chunk" THEN Append(buffer, entry.data)
                                   ELSE buffer
    BY <1>7, <2>2, <2>3, TextAppend
  <2>5. QED
    BY <1>6, <2>4
<1>12. CompletedIsWhole'
  <2> SUFFICES ASSUME told' = "completed", ~(runs > 1) PROVE buffer' = Answer
    BY <1>2, <1>3 DEF CompletedIsWhole, Answer
  <2>1. entry.type = "done" /\ runs <= 1
    BY <1>1, <1>9
  <2>2. gone = 0 /\ id = sent + 1 /\ Text(SubSeq(log, 1, sent)) = Answer
    BY <1>3, <1>5, <2>1, DoneIsWhole DEF entry
  <2>3. cursor = sent /\ cursor # JobId
    <3>1. sent \in Nat
      BY DEF StreamInv, TypeOK
    <3>2. QED
      BY <1>1, <1>5, <2>2, <3>1 DEF JobId
  <2>4. buffer = Answer
    BY <1>3, <2>2, <2>3 DEF NoGapNoRepeat
  <2>5. QED
    BY <1>6, <2>1, <2>4
<1>13. QED
  BY <1>10, <1>11, <1>12 DEF ClientInv

\* Server and client touch nothing that is stored.
LEMMA StreamClientKeeps ==
    ASSUME StreamInv, reader = "stream", Stream, PollInv', UNCHANGED pollVars
    PROVE  StreamInv'
<1>1. ServerOnly
  BY DEF Stream, Server, SendResult, NoResult, ReadMeta, SendStatus, ToHistory, ToDatabase,
         SendSnapshot, SendEntry, EndLive, AnswerFromDatabase, Connect, Drop, DropAfterJobId
<1>2. ClientInv'
  BY <1>1, ResultsKeep, StatusKeeps, SnapshotKeeps, EntryKeeps, LookupsKeep
  DEF Stream, Server
<1>3. /\ written' = written /\ cached' = cached /\ row' = row /\ deleted' = deleted
      /\ outcome' = outcome /\ meta' = meta /\ streaming' = streaming
      /\ log' = log /\ gone' = gone /\ fading' = fading
      /\ work' = work /\ runs' = runs /\ taken' = taken /\ delays' = delays /\ sent' = sent
      /\ verdict' = verdict /\ tries' = tries /\ stalls' = stalls
      /\ reader' = reader /\ poll' = poll
  BY <1>1 DEF ServerOnly, resultVars, streamVars, workVars, countVars, pollVars
<1>4. TypeOK'
  BY <1>2, <1>3 DEF StreamInv, TypeOK, ClientInv, ClientTyped
<1>5. RunsLeft' /\ Ended' /\ NoChunks' /\ OneRun'
  BY <1>3 DEF StreamInv, RunsLeft, Ended, Settled, NoChunks, OneRun, Single
<1>6. poll = "idle"
  BY DEF StreamInv, Polling
<1>7. Polling'
  BY <1>3, <1>6 DEF Polling
<1>8. StreamFirst'
  BY <1>2, <1>3 DEF StreamInv, StreamFirst, ClientInv, SeenNone
<1>9. QED
  BY <1>2, <1>4, <1>5, <1>7, <1>8 DEF StreamInv, ClientInv

\* A poll that tells the end brings its text.
LEMMA PollKeeps ==
    ASSUME StreamInv, Poll, PollInv'
    PROVE  StreamInv'
<1>1. /\ written' = written /\ cached' = cached /\ row' = row /\ deleted' = deleted
      /\ outcome' = outcome /\ meta' = meta /\ streaming' = streaming
      /\ log' = log /\ gone' = gone /\ fading' = fading
      /\ work' = work /\ runs' = runs /\ taken' = taken /\ delays' = delays /\ sent' = sent
      /\ verdict' = verdict /\ tries' = tries /\ stalls' = stalls
      /\ conn' = conn /\ last' = last /\ seen' = seen /\ cursor' = cursor /\ drops' = drops
      /\ reader' = reader
  BY DEF Poll, Ask, PollResult, PollMeta, PollRow, PollFrame, ServerOnly, resultVars,
         streamVars, workVars, countVars, connVars
<1>2. told = "nothing" /\ reader = "poll" /\ conn = "closed"
  BY DEF StreamInv, Polling, Poll, Ask, PollResult, PollMeta, PollRow
<1>3. \/ UNCHANGED <<buffer, told>>
      \/ /\ poll' = "idle"
         /\ \/ buffer' = StoredText /\ told' = outcome /\ outcome \in {"completed", "failed"}
            \/ buffer' = <<>> /\ told' = "NOT_FOUND"
  <2>1. CASE Ask
    BY <2>1 DEF Ask
  <2>2. CASE PollResult
    BY <2>2, OutcomeKnown DEF PollResult, Tell
  <2>3. CASE PollMeta
    BY <2>3 DEF PollMeta
  <2>4. CASE PollRow
    BY <2>4, OutcomeKnown DEF PollRow, Tell
  <2>5. QED
    BY <2>1, <2>2, <2>3, <2>4 DEF Poll
<1>4. buffer' \in Seq(1..Chunks) /\ told' \in {"nothing", "completed", "failed", "NOT_FOUND"}
  <2>1. buffer \in Seq(1..Chunks) /\ <<>> \in Seq(1..Chunks)
    BY DEF StreamInv, TypeOK
  <2>2. QED
    BY <1>2, <1>3, <2>1, StoredWhole
<1>5. TypeOK'
  BY <1>1, <1>4 DEF StreamInv, TypeOK
<1>6. RunsLeft' /\ Ended' /\ NoChunks' /\ OneRun' /\ StreamFirst' /\ Connected'
  BY <1>1, <1>2 DEF StreamInv, RunsLeft, Ended, Settled, NoChunks, OneRun, Single, StreamFirst, Connected
<1>7. Polling'
  BY <1>1, <1>2, <1>3 DEF Polling
<1>8. NoGapNoRepeat'
  BY <1>1, <1>2, <1>3 DEF StreamInv, NoGapNoRepeat, JobId
<1>9. CompletedIsWhole'
  BY <1>1, <1>2, <1>3, StoredWhole DEF StreamInv, CompletedIsWhole, Answer
<1>10. QED
  BY <1>5, <1>6, <1>7, <1>8, <1>9 DEF StreamInv

LEMMA StreamInvStep == StreamInv /\ [ReadsNext]_readVars => StreamInv'
<1> SUFFICES ASSUME StreamInv, [ReadsNext]_readVars PROVE StreamInv'
  OBVIOUS
<1>1. PollInv'
  BY PollInvStep DEF StreamInv
<1>2. CASE UNCHANGED readVars
  <2>1. /\ written' = written /\ cached' = cached /\ row' = row /\ deleted' = deleted
        /\ outcome' = outcome /\ meta' = meta /\ streaming' = streaming
        /\ log' = log /\ gone' = gone /\ fading' = fading
        /\ work' = work /\ runs' = runs /\ taken' = taken /\ delays' = delays /\ sent' = sent
        /\ verdict' = verdict /\ tries' = tries /\ stalls' = stalls
        /\ conn' = conn /\ last' = last /\ seen' = seen
        /\ buffer' = buffer /\ cursor' = cursor /\ told' = told /\ drops' = drops
        /\ reader' = reader /\ poll' = poll
    BY <1>2 DEF readVars, vars, resultVars, streamVars, workVars, countVars, connVars,
       clientVars, pollVars
  <2>2. TypeOK'
    BY <2>1 DEF StreamInv, TypeOK
  <2>3. /\ RunsLeft' /\ Connected' /\ Polling' /\ Ended' /\ NoChunks' /\ StreamFirst'
        /\ OneRun' /\ NoGapNoRepeat' /\ CompletedIsWhole'
    BY <2>1 DEF StreamInv, RunsLeft, Connected, Polling, Ended, Settled, NoChunks, StreamFirst, OneRun,
           Single, NoGapNoRepeat, CompletedIsWhole, Answer, JobId
  <2>4. QED
    BY <1>1, <2>2, <2>3 DEF StreamInv
<1>3. CASE (Worker \/ Stall \/ Keys) /\ UNCHANGED pollVars
  BY <1>1, <1>3, WorkerKeeps, KeysKeep
<1>4. CASE reader = "stream" /\ Stream /\ UNCHANGED pollVars
  BY <1>1, <1>4, StreamClientKeeps
<1>5. CASE Poll
  BY <1>1, <1>5, PollKeeps
<1>6. QED
  BY <1>2, <1>3, <1>4, <1>5 DEF ReadsNext

LEMMA StreamInvInit == ReadsInit => StreamInv
<1> SUFFICES ASSUME ReadsInit PROVE StreamInv
  OBVIOUS
<1>1. /\ written = [j \in {Job} |-> 0] /\ row = [j \in {Job} |-> 0]
      /\ cached = {} /\ deleted = {} /\ outcome = "none" /\ meta = "queued"
      /\ streaming \in BOOLEAN /\ log = <<>> /\ gone = 0 /\ fading = FALSE
      /\ work = "queued" /\ runs = 0 /\ tries = 0 /\ stalls = 0 /\ taken = FALSE
      /\ delays = 0 /\ sent = 0 /\ verdict = "none" /\ conn = "closed" /\ last = 0 /\ seen = "none"
      /\ buffer = <<>> /\ cursor = 0 /\ told = "nothing" /\ drops = 0
      /\ reader \in {"stream", "poll"} /\ poll = "idle"
  BY DEF ReadsInit, Init, Results!Init
<1>2. PollInv
  BY <1>1 DEF PollInv, PollFromRow, FoundInv, Found, Settled, SeenFromRow, AtDatabase,
              NeverNotFound
<1>3. Len(log) = 0 /\ log \in Seq(Entries) /\ buffer \in Seq(1..Chunks)
  BY <1>1
<1>4. TypeOK
  <2>1. written \in [{Job} -> 0..1] /\ row \in [{Job} -> 0..1]
    BY <1>1
  <2>2. /\ delays \in 0..MaxDelays /\ runs \in 0..MaxRuns /\ sent \in 0..Chunks
        /\ tries \in 0..Attempts /\ stalls \in 0..MaxStalled + 1
        /\ drops \in 0..MaxDrops /\ gone \in 0..Len(log) /\ last \in 0..Len(log)
        /\ cursor \in JobId..Len(log)
    BY <1>1, <1>3, StreamAssumption DEF JobId, MaxRuns
  <2>3. /\ cached \subseteq {Job} /\ deleted = {}
        /\ outcome \in {"none", "completed", "failed"}
        /\ meta \in Statuses /\ seen \in Statuses
        /\ fading \in BOOLEAN /\ taken \in BOOLEAN /\ verdict \in Verdicts \cup {"none"}
        /\ conn \in {"closed", "result", "meta", "exists", "history", "live", "database"}
        /\ work \in Stages
        /\ told \in {"nothing", "completed", "failed", "NOT_FOUND"}
    BY <1>1 DEF Statuses, Stages
  <2> DEFINE T == {Chunk(n) : n \in 1..Chunks} \cup {DoneEntry, Error(TRUE), Error(FALSE)}
  <2>4. log \in Seq(T)
    BY <1>3 DEF Entries
  <2>5. streaming \in BOOLEAN /\ buffer \in Seq(1..Chunks)
    BY <1>1, <1>3
  <2> HIDE <1>1, <1>3
  <2>6. QED
    BY <2>1, <2>2, <2>3, <2>4, <2>5 DEF TypeOK, Stages
<1>5. SubSeq(log, 1, cursor) = <<>>
  BY <1>1, SubSeqEmpty
<1>6. NoGapNoRepeat /\ CompletedIsWhole
  BY <1>1, <1>5, TextEmpty DEF NoGapNoRepeat, CompletedIsWhole
<1>7. RunsLeft /\ Connected /\ Polling /\ Ended /\ NoChunks /\ StreamFirst /\ OneRun
  BY <1>1, <1>3, StreamAssumption
  DEF RunsLeft, Connected, Polling, Ended, Settled, NoChunks, StreamFirst, OneRun, Single
<1>8. QED
  BY <1>2, <1>4, <1>6, <1>7 DEF StreamInv

\* What worker, route and client keep has its type, for any answer, any number of
\* runs and any number of lost connections.
THEOREM StreamTyped == ReadsSpec => []TypeOK
<1>1. StreamInv => TypeOK
  BY DEF StreamInv
<1>2. QED
  BY <1>1, StreamInvInit, StreamInvStep, PTL DEF ReadsSpec

\* The client shows every chunk up to its cursor once and in order, whatever it was
\* sent by, until a stream expires that it has not read.
THEOREM NothingLostOrTwice == ReadsSpec => []NoGapNoRepeat
<1>1. StreamInv => NoGapNoRepeat
  BY DEF StreamInv
<1>2. QED
  BY <1>1, StreamInvInit, StreamInvStep, PTL DEF ReadsSpec

\* "completed" comes with the whole answer, unless a streaming job ran twice.
THEOREM CompletedAnswers == ReadsSpec => []CompletedIsWhole
<1>1. StreamInv => CompletedIsWhole
  BY DEF StreamInv
<1>2. QED
  BY <1>1, StreamInvInit, StreamInvStep, PTL DEF ReadsSpec
=============================================================================

---------------------------- MODULE ResultStream ----------------------------
(***************************************************************************)
(* How the answer of one job reaches its user: the worker appends chunks   *)
(* to a Redis stream, POST /resume/:id/result-stream serves the stored     *)
(* result, the stream or the row, and a client reconnects with the last    *)
(* event it saw. What the sync does to the result is WriteBehind.          *)
(***************************************************************************)
EXTENDS ProviderErrors, Ranking, Sequences

CONSTANTS
    Job,
    Chunks,       \* pieces of a streamed answer
    Attempts,     \* attempts of the queue's default job options
    MaxStalled,   \* maxStalledCount of the workers
    MaxDelays,    \* bound: times the job waits for a per-minute limit
    MaxDrops      \* bound: connections lost

ASSUME StreamAssumption ==
    /\ Chunks \in Nat /\ Attempts \in Nat \ {0} /\ MaxStalled \in Nat
    /\ MaxDelays \in Nat /\ MaxDrops \in Nat

VARIABLES
    written, cached, row, deleted,   \* of WriteBehind
    outcome,   \* status of the result that was written
    meta,      \* status in job:*:meta, "none" without the key
    streaming, \* what the submission asked for
    log,       \* every entry ever added to job:stream:*, in the order of the ids
    gone,      \* how many of them went with a stream that expired
    fading,    \* the stream has the TTL of a completed one
    work,      \* where the job stands with the worker
    runs,      \* runs begun
    taken,     \* tokens_consumed
    delays,
    sent,      \* chunks of the present run
    tries,     \* attempts that have failed
    stalls,    \* stalls, which BullMQ counts apart from the attempts
    verdict,   \* history: what the documents say of the error the run failed with
    conn,      \* await the route handler stands at
    last,      \* lastId of the handler, 0 without one
    seen,      \* the status the handler read from the metadata
    buffer,    \* what the client shows: chunks, or the stored answer
    cursor,    \* id of the last event the client saved, 0 for none
    told,      \* how the job ended, as the client knows it
    drops

resultVars == <<written, cached, row, deleted, outcome>>
streamVars == <<log, gone, fading>>
countVars  == <<tries, stalls>>
workVars   == <<work, runs, taken, delays, sent, verdict, countVars>>
connVars   == <<conn, last, seen>>
clientVars == <<buffer, cursor, told, drops>>
vars == <<resultVars, meta, streaming, streamVars, workVars, connVars, clientVars>>

\* The runs a job can have.
MaxRuns == Attempts + MaxStalled

\* Every run of the sync is taken to read what is there.
Results == INSTANCE WriteBehind WITH Jobs <- {Job}, MaxWrites <- 1, unread <- {}

-----------------------------------------------------------------------------
(* The stream.                                                             *)

Chunk(n)  == [type |-> "chunk", data |-> n, retryable |-> FALSE]
DoneEntry == [type |-> "done", data |-> 0, retryable |-> FALSE]
Error(r)  == [type |-> "error", data |-> 0, retryable |-> r]

StreamExists == gone < Len(log)

\* Mutant: the range starts at the id.
From(id) == SubSeq(log, IF id <= gone THEN gone + 1 ELSE id, Len(log))

\* XREAD after an id.
After(id) == SubSeq(log, (IF id < gone THEN gone ELSE id) + 1, Len(log))

\* The data of the chunks, from the first to the last.
Text(entries) ==
    LET places == {i \in DOMAIN entries : entries[i].type = "chunk"}
        order == InOrder(places, ByPlace(places))
    IN  [n \in DOMAIN order |-> entries[order[n]].data]

\* The whole answer.
Answer == [n \in 1..Chunks |-> n]

Add(entry) == log' = Append(log, entry)

\* STREAM_TTL_COMPLETED has passed.
StreamExpires ==
    /\ StreamExists /\ fading
    /\ gone' = Len(log)
    /\ fading' = FALSE
    /\ UNCHANGED <<resultVars, meta, streaming, log, workVars, connVars, clientVars>>

-----------------------------------------------------------------------------
(* The worker.                                                             *)

\* BullMQ hands out the job, also after a backoff or a stall. A job that comes back
\* from a limit has not used up an attempt.
MarkInProgress ==
    /\ work \in {"queued", "delayed", "backoff", "stalled"}
    /\ work' = IF taken THEN "running" ELSE "marked"
    /\ runs' = IF work = "delayed" THEN runs ELSE runs + 1
    /\ sent' = 0 /\ verdict' = "none"
    /\ meta' = "in_progress"
    /\ UNCHANGED <<resultVars, streaming, streamVars, taken, delays, countVars, connVars,
                   clientVars>>

\* consumeLimitsIfNeeded; a later run skips it.
TakeTokens ==
    /\ work = "marked"
    /\ work' = "running" /\ taken' = TRUE
    /\ UNCHANGED <<resultVars, meta, streaming, streamVars, runs, delays, sent, verdict,
                   countVars, connVars, clientVars>>

\* The per-minute limit of the model: the job is queued again.
Delay ==
    /\ work = "marked"
    /\ delays < MaxDelays /\ delays' = delays + 1
    /\ work' = "delayed"
    /\ meta' = "queued"
    /\ UNCHANGED <<resultVars, streaming, streamVars, runs, taken, sent, verdict,
                   countVars, connVars, clientVars>>

\* Mutant: one chunk too many.
EmitChunkTooMany ==
    /\ work = "running" /\ streaming
    /\ sent <= Chunks
    /\ sent' = sent + 1
    /\ Add(Chunk(sent + 1))
    /\ fading' = IF sent = 0 THEN FALSE ELSE fading
    /\ UNCHANGED <<resultVars, meta, streaming, gone, work, runs, taken, delays, verdict,
                   countVars, connVars, clientVars>>

\* The first chunk of a run gives the stream 15 minutes, more than a run takes.
EmitChunk ==
    /\ work = "running" /\ streaming
    /\ sent < Chunks
    /\ sent' = sent + 1
    /\ Add(Chunk(sent + 1))
    /\ fading' = IF sent = 0 THEN FALSE ELSE fading
    /\ UNCHANGED <<resultVars, meta, streaming, gone, work, runs, taken, delays, verdict,
                   countVars, connVars, clientVars>>

EmitDone ==
    /\ work = "running" /\ streaming
    /\ sent = Chunks
    /\ work' = "answered"
    /\ Add(DoneEntry)
    /\ fading' = TRUE
    /\ UNCHANGED <<resultVars, meta, streaming, gone, runs, taken, delays, sent, verdict,
                   countVars, connVars, clientVars>>

\* Without streaming the provider answers in one piece.
Execute ==
    /\ work = "running" /\ ~streaming
    /\ work' = "answered"
    /\ UNCHANGED <<resultVars, meta, streaming, streamVars, runs, taken, delays, sent,
                   verdict, countVars, connVars, clientVars>>

\* Where a failed attempt leaves the job.
AfterFailure(error) ==
    IF error.retryable /\ tries + 1 < Attempts THEN "backoff" ELSE "failed"

\* Mutant: the failed handler does not ask whether the attempt was the last.
ProviderFailsForGood(error) ==
    /\ work = "running"
    /\ work' = AfterFailure(error)
    /\ tries' = tries + 1
    /\ verdict' = error.verdict
    /\ meta' = "failed"
    /\ IF streaming
       THEN Add(Error(error.retryable)) /\ fading' = TRUE
       ELSE UNCHANGED <<log, fading>>
    /\ UNCHANGED <<resultVars, streaming, gone, runs, taken, delays, sent, stalls, connVars,
                   clientVars>>

\* The provider fails; a streaming run says so in the stream. BullMQ retries
\* unless the error is final, which ProviderErrors decides.
ProviderFails(error) ==
    /\ work = "running"
    /\ work' = AfterFailure(error)
    /\ tries' = tries + 1
    /\ verdict' = error.verdict
    /\ IF streaming
       THEN Add(Error(error.retryable)) /\ fading' = TRUE
       ELSE UNCHANGED <<log, fading>>
    /\ UNCHANGED <<resultVars, meta, streaming, gone, runs, taken, delays, sent, stalls,
                   connVars, clientVars>>

\* The daily limit, or a model without an api_name, ends the job before the provider
\* is called.
Refused ==
    /\ work = "marked" \/ (work = "running" /\ sent = 0)
    /\ work' = "failed"
    /\ UNCHANGED <<resultVars, meta, streaming, streamVars, runs, taken, delays, sent,
                   verdict, countVars, connVars, clientVars>>

\* The worker process dies, BullMQ finds the job stalled, and once too often is a
\* failure.
Stall ==
    /\ work \in {"marked", "running", "answered"}
    /\ work' = IF stalls < MaxStalled THEN "stalled" ELSE "failed"
    /\ stalls' = stalls + 1
    /\ UNCHANGED <<resultVars, meta, streaming, streamVars, runs, taken, delays, sent,
                   verdict, tries, connVars, clientVars>>

\* The two pipelines that settle a job reach Redis as a whole, and others look between
\* their commands. First that of finalizeSuccess.
FinalizeMeta ==
    /\ work = "answered"
    /\ work' = "finalizing"
    /\ meta' = "completed"
    /\ UNCHANGED <<resultVars, streaming, streamVars, runs, taken, delays, sent, verdict,
                   countVars, connVars, clientVars>>

StoreAnswer ==
    /\ work = "finalizing"
    /\ work' = "over"
    /\ Results!Write(Job)
    /\ outcome' = "completed"
    /\ UNCHANGED <<meta, streaming, streamVars, runs, taken, delays, sent, verdict,
                   countVars, connVars, clientVars>>

\* That of the failed handler.
WriteFailure ==
    /\ work = "failed"
    /\ work' = "recorded"
    /\ verdict' = "none"
    /\ Results!Write(Job)
    /\ outcome' = "failed"
    /\ UNCHANGED <<meta, streaming, streamVars, runs, taken, delays, sent, countVars,
                   connVars, clientVars>>

MarkFailure ==
    /\ work = "recorded"
    /\ work' = "marked_failed"
    /\ meta' = "failed"
    /\ UNCHANGED <<resultVars, streaming, streamVars, runs, taken, delays, sent, verdict,
                   countVars, connVars, clientVars>>

\* The entry makes a stream even for a job without one.
PublishFailure ==
    /\ work = "marked_failed"
    /\ work' = "over"
    /\ Add(Error(FALSE))
    /\ fading' = TRUE
    /\ UNCHANGED <<resultVars, meta, streaming, gone, runs, taken, delays, sent, verdict,
                   countVars, connVars, clientVars>>

-----------------------------------------------------------------------------
(* The sync, and the keys that expire after it. The stream had its five    *)
(* minutes no later than the result was written, so it goes first.         *)

SyncRow ==
    /\ Results!Store
    /\ UNCHANGED <<outcome, meta, streaming, streamVars, workVars, connVars, clientVars>>

ResultExpires ==
    /\ work = "over" /\ Job \in cached /\ ~StreamExists
    /\ Results!Drop(Job)
    /\ UNCHANGED <<outcome, meta, streaming, streamVars, workVars, connVars, clientVars>>

\* Mutant: metadata does not keep until the job is over.
MetaExpiresEarly ==
    /\ cached = {} /\ meta # "none"
    /\ meta' = "none"
    /\ UNCHANGED <<resultVars, streaming, streamVars, workVars, connVars, clientVars>>

MetaExpires ==
    /\ work = "over" /\ cached = {} /\ meta # "none"
    /\ meta' = "none"
    /\ UNCHANGED <<resultVars, streaming, streamVars, workVars, connVars, clientVars>>

-----------------------------------------------------------------------------
(* The route handler. An event reaches the client with the step that sends *)
(* it, or not at all when the connection drops first.                      *)

\* Saved when an event carries the id of the job: not an id the schema accepts.
JobId == -1

GoTo(await) == conn' = await /\ UNCHANGED <<last, seen>>
Close == conn' = "closed" /\ last' = 0 /\ seen' = "none"

ServerOnly == UNCHANGED <<resultVars, meta, streaming, streamVars, workVars>>

\* The client shows text and knows how the job ended.
Finish(text, status) ==
    /\ Close
    /\ buffer' = text
    /\ told' = status
    /\ UNCHANGED <<cursor, drops>>

StoredText == IF outcome = "completed" THEN Answer ELSE <<>>

\* Fast path: a snapshot and done.
SendResult ==
    /\ conn = "result" /\ Job \in cached
    /\ Finish(StoredText, outcome)
    /\ ServerOnly

NoResult ==
    /\ conn = "result" /\ cached = {}
    /\ GoTo("meta")
    /\ ServerOnly /\ UNCHANGED clientVars

ReadMeta ==
    /\ conn = "meta"
    /\ conn' = "exists"
    /\ seen' = meta
    /\ UNCHANGED last
    /\ ServerOnly /\ UNCHANGED clientVars

\* Only the metadata says that a job streams.
IsStreamingJob == streaming /\ seen # "none"

\* Mutant: the status of the metadata ends the client's wait.
SendStatusAsEnd ==
    /\ conn = "exists"
    /\ seen # "none" \/ StreamExists
    /\ ~IsStreamingJob \/ (seen = "queued" /\ ~StreamExists)
    /\ Close
    /\ buffer' = <<>>
    /\ told' = IF seen = "completed" THEN "completed" ELSE told
    /\ UNCHANGED <<cursor, drops>>
    /\ ServerOnly

\* Not streaming or still queued: a snapshot without content, then the end.
SendStatus ==
    /\ conn = "exists"
    /\ seen # "none" \/ StreamExists
    /\ ~IsStreamingJob \/ (seen = "queued" /\ ~StreamExists)
    /\ Close
    /\ buffer' = <<>>
    /\ UNCHANGED <<cursor, told, drops>>
    /\ ServerOnly

ToHistory ==
    /\ conn = "exists"
    /\ IsStreamingJob /\ (seen = "queued" => StreamExists)
    /\ GoTo(IF last = 0 THEN "history" ELSE "live")
    /\ ServerOnly /\ UNCHANGED clientVars

ToDatabase ==
    /\ conn = "exists"
    /\ seen = "none" /\ ~StreamExists
    /\ GoTo("database")
    /\ ServerOnly /\ UNCHANGED clientVars

\* A done or an error, whichever comes last.
Verdict(entries) ==
    LET ends == {i \in DOMAIN entries : entries[i].type # "chunk"}
    IN  IF ends = {} THEN "in_progress"
        ELSE IF \E i \in ends : entries[i].type = "done" /\ \A k \in ends : k <= i
        THEN "completed" ELSE "failed"

\* All of the stream as one snapshot, final when it holds a done or an error.
SendSnapshot ==
    /\ conn = "history"
    /\ IF After(0) = <<>>
       THEN GoTo("live") /\ UNCHANGED clientVars
       ELSE /\ buffer' = Text(After(0))
            /\ cursor' = Len(log)
            /\ UNCHANGED drops
            /\ IF Verdict(After(0)) = "in_progress"
               THEN /\ conn' = "live"
                    /\ last' = Len(log)
                    /\ UNCHANGED <<seen, told>>
               ELSE Close /\ told' = Verdict(After(0))
    /\ ServerOnly

\* The entry after lastId, in a replay as in the live loop. A retryable error
\* ends the connection and not the client.
SendEntry ==
    /\ conn = "live"
    /\ After(last) # <<>>
    /\ LET id == Len(log) - Len(After(last)) + 1
           entry == log[id]
       IN  /\ cursor' = id
           /\ buffer' = IF entry.type = "chunk" THEN Append(buffer, entry.data)
                                                ELSE buffer
           /\ IF entry.type = "chunk"
              THEN conn' = "live" /\ last' = id /\ UNCHANGED <<seen, told>>
              ELSE /\ Close
                   /\ told' = CASE entry.type = "done" -> "completed"
                                [] entry.retryable -> told
                                [] OTHER -> "failed"
    /\ UNCHANGED drops
    /\ ServerOnly

\* Mutant: the handler keeps a connection alive without a stream.
KeepAlive ==
    /\ conn = "live"
    /\ After(last) = <<>> /\ StreamExists
    /\ UNCHANGED vars

\* Ten seconds without an entry, and no stream: the handler ends the response.
EndLive ==
    /\ conn = "live"
    /\ After(last) = <<>> /\ ~StreamExists
    /\ Close
    /\ ServerOnly /\ UNCHANGED clientVars

\* The row, or NOT_FOUND when neither Redis nor the database has the job.
AnswerFromDatabase ==
    /\ conn = "database"
    /\ IF row[Job] > 0 THEN Finish(StoredText, outcome) ELSE Finish(<<>>, "NOT_FOUND")
    /\ ServerOnly

-----------------------------------------------------------------------------
(* The client, as the integration guide describes it, except that it keeps *)
(* or loses its buffer and its cursor together.                            *)

Connect ==
    /\ conn = "closed" /\ told = "nothing"
    /\ IF cursor = JobId
       THEN buffer' = <<>> /\ cursor' = 0 /\ UNCHANGED connVars  \* 400
       ELSE /\ conn' = "result"
            /\ last' = cursor
            /\ UNCHANGED <<seen, buffer, cursor>>
    /\ UNCHANGED <<told, drops>>
    /\ ServerOnly

Lose == conn # "closed" /\ drops < MaxDrops /\ drops' = drops + 1 /\ Close

\* The connection is lost, and with a reload of the page what was shown.
Drop ==
    /\ Lose
    /\ \/ UNCHANGED <<buffer, cursor>>
       \/ buffer' = <<>> /\ cursor' = 0
    /\ UNCHANGED told
    /\ ServerOnly

\* The connection is lost between snapshot and done of a stored result, or the
\* handler fails and says so under the id of the job.
DropAfterJobId ==
    /\ Lose
    /\ cursor' = JobId
    /\ IF conn = "result" /\ Job \in cached
       THEN buffer' = StoredText
       ELSE UNCHANGED buffer
    /\ UNCHANGED told
    /\ ServerOnly

-----------------------------------------------------------------------------

Init ==
    /\ Results!Init
    /\ outcome = "none"
    /\ meta = "queued"
    /\ streaming \in BOOLEAN
    /\ log = <<>> /\ gone = 0 /\ fading = FALSE
    /\ work = "queued" /\ runs = 0 /\ tries = 0 /\ stalls = 0 /\ taken = FALSE /\ delays = 0
    /\ sent = 0 /\ verdict = "none"
    /\ conn = "closed" /\ last = 0 /\ seen = "none"
    /\ buffer = <<>> /\ cursor = 0 /\ told = "nothing" /\ drops = 0

Worker ==
    \/ MarkInProgress \/ TakeTokens \/ Delay \/ EmitChunk \/ EmitDone \/ Execute
    \/ \E error \in Failures : ProviderFails(error)
    \/ Refused \/ FinalizeMeta \/ StoreAnswer
    \/ WriteFailure \/ MarkFailure \/ PublishFailure

Server ==
    \/ SendResult \/ NoResult \/ ReadMeta \/ SendStatus \/ ToHistory \/ ToDatabase
    \/ SendSnapshot \/ SendEntry \/ EndLive \/ AnswerFromDatabase

Keys == StreamExpires \/ SyncRow \/ ResultExpires \/ MetaExpires

Next == Worker \/ Stall \/ Keys \/ Server \/ Connect \/ Drop \/ DropAfterJobId

Spec == Init /\ [][Next]_vars

\* The job comes to an end, the handler goes on, the client connects again, and
\* metadata expires with its result.
FairSpec ==
    /\ Spec
    /\ WF_vars(Worker)
    /\ WF_vars(Server)
    /\ WF_vars(Connect)
    /\ WF_vars(MetaExpires)

-----------------------------------------------------------------------------
(* Properties.                                                             *)

Statuses == {"none", "queued", "in_progress", "completed", "failed"}

TypeOK ==
    /\ written \in [{Job} -> 0..1] /\ row \in [{Job} -> 0..1]
    /\ cached \subseteq {Job} /\ deleted = {}
    /\ outcome \in {"none", "completed", "failed"}
    /\ meta \in Statuses /\ seen \in Statuses
    /\ streaming \in BOOLEAN /\ fading \in BOOLEAN
    /\ log \in Seq({Chunk(n) : n \in 1..Chunks} \cup {DoneEntry, Error(TRUE), Error(FALSE)})
    /\ gone \in 0..Len(log)
    /\ work \in {"queued", "marked", "delayed", "running", "answered", "backoff",
                "stalled", "finalizing", "failed", "recorded", "marked_failed", "over"}
    /\ taken \in BOOLEAN /\ delays \in 0..MaxDelays
    /\ runs \in 0..MaxRuns /\ tries \in 0..Attempts /\ stalls \in 0..MaxStalled + 1
    /\ sent \in 0..Chunks /\ verdict \in Verdicts \cup {"none"}
    /\ conn \in {"closed", "result", "meta", "exists", "history", "live", "database"}
    /\ last \in 0..Len(log) /\ cursor \in JobId..Len(log)
    /\ buffer \in Seq(1..Chunks)
    /\ told \in {"nothing", "completed", "failed", "NOT_FOUND"}
    /\ drops \in 0..MaxDrops

\* The client shows every chunk up to its cursor once and in order, over any
\* drops, reloads, retries and switches between snapshot, replay and live loop,
\* until a stream expires that it has not read (streamingLogic.ts:73-211).
NoGapNoRepeat ==
    told = "nothing" /\ gone = 0 /\ cursor # JobId
        => buffer = Text(SubSeq(log, 1, cursor))

\* A client told "completed" shows the whole answer, unless a streaming job ran
\* twice: a retry appends to the chunks of the run before
\* (streamingLogic.ts:20-30, 99-118, 195-206; executeModel.ts:38-59).
CompletedIsWhole ==
    told = "completed" => buffer = Answer \/ (streaming /\ runs > 1)

\* Nobody is told NOT_FOUND of a job that was accepted: at every moment of the
\* three lookups one of them has it (resume.ts:74-94, streamingLogic.ts:153).
NeverNotFound == told # "NOT_FOUND"

\* While an attempt is left, an error the documents call temporary is tried again and
\* one they call fatal is not: normalising the error throws away its name and its
\* message, and must not change the verdict. Left out is a context that is too long
\* under a 5xx other than 500, which the code tries again (errorMapping.ts:72-99,
\* GeminiProvider.ts:135-179; README.md:239-240, Frontend-Streaming-Retry.md:11-56).
RetriedAsDocumented ==
    /\ work = "failed" => verdict # "temporary" \/ tries >= Attempts
    /\ work = "backoff" => verdict # "fatal" /\ tries < Attempts

\* A client that keeps reconnecting learns how the job ended, wherever the
\* result is by then.
ToldInTheEnd == <>(told # "nothing")
=============================================================================

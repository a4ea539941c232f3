----------------------------- MODULE ResultReads -----------------------------
(***************************************************************************)
(* The two ways to learn of a result: the stream of ResultStream, and      *)
(* polling GET /resume/:id/result or /status, which look in the result,    *)
(* the metadata and the row, one after the other. A behaviour has a client *)
(* of one kind; clients of both kinds change nothing that is stored.       *)
(***************************************************************************)
EXTENDS ResultStream

VARIABLES
    reader,   \* the kind of the client: "stream" or "poll"
    poll,     \* where the handler of a poll looks next
    answer    \* the last status the polling client was given

pollVars == <<reader, poll, answer>>
readVars == <<vars, pollVars>>

ReadsInit ==
    /\ Init
    /\ reader \in {"stream", "poll"}
    /\ poll = "idle" /\ answer = "nothing"

PollFrame ==
    /\ ServerOnly
    /\ UNCHANGED <<connVars, cursor, drops, reader>>

\* A client that has no final answer asks again.
Ask ==
    /\ reader = "poll" /\ poll = "idle" /\ told = "nothing"
    /\ poll' = "result"
    /\ UNCHANGED <<answer, buffer, told>> /\ PollFrame

\* A final answer with its data.
Tell(status, text) ==
    /\ poll' = "idle"
    /\ answer' = status /\ told' = status /\ buffer' = text

PollResult ==
    /\ poll = "result"
    /\ IF Job \in cached
       THEN Tell(outcome, StoredText)
       ELSE poll' = "meta" /\ UNCHANGED <<answer, buffer, told>>
    /\ PollFrame

\* The status of the metadata comes without data. It is final when the result was
\* written after the handler had looked for it, or is about to be, and the client has
\* to ask again for the data.
PollMeta ==
    /\ poll = "meta"
    /\ IF meta # "none"
       THEN poll' = "idle" /\ answer' = meta
       ELSE poll' = "database" /\ UNCHANGED answer
    /\ UNCHANGED <<buffer, told>> /\ PollFrame

PollRow ==
    /\ poll = "database"
    /\ IF row[Job] > 0 THEN Tell(outcome, StoredText) ELSE Tell("NOT_FOUND", <<>>)
    /\ PollFrame

Poll == Ask \/ PollResult \/ PollMeta \/ PollRow

Stream == Server \/ Connect \/ Drop \/ DropAfterJobId

ReadsNext ==
    \/ (Worker \/ Stall \/ Keys) /\ UNCHANGED pollVars
    \/ reader = "stream" /\ Stream /\ UNCHANGED pollVars
    \/ Poll

ReadsSpec == ReadsInit /\ [][ReadsNext]_readVars

\* As in ResultStream; a client that polls goes on until it has the result.
ReadsFairSpec ==
    /\ ReadsSpec
    /\ WF_readVars(Worker /\ UNCHANGED pollVars)
    /\ WF_readVars(MetaExpires /\ UNCHANGED pollVars)
    /\ WF_readVars(reader = "stream" /\ Server /\ UNCHANGED pollVars)
    /\ WF_readVars(reader = "stream" /\ Connect /\ UNCHANGED pollVars)
    /\ WF_readVars(Poll)

-----------------------------------------------------------------------------

Rank(status) == CASE status = "NOT_FOUND" -> -1
                  [] status = "nothing" -> 0
                  [] status \in {"queued", "in_progress"} -> 1
                  [] OTHER -> 2

\* Polls never take back what they said, over retries, the sync and the keys that
\* expire between the lookups: a final status is how the job ends, given before its
\* result can be read or after, and the last one that is given. Before it the status
\* may go from in_progress to queued, when a limit delays the job (resume.ts:107-183).
StatusNeverGoesBack ==
    [][/\ Rank(answer') >= Rank(answer)
       /\ Rank(answer') = 2 => outcome' \in {"none", answer'}]_<<answer, outcome>>
=============================================================================

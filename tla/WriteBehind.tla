---------------------------- MODULE WriteBehind ----------------------------
(***************************************************************************)
(* What the copy of finished jobs from Redis to Postgres promises: a       *)
(* result leaves Redis only once Postgres has one or after a run of the    *)
(* copy could not read it, and the row of a job is never replaced by an    *)
(* older outcome of that job.                                              *)
(***************************************************************************)
EXTENDS Naturals

CONSTANTS
    Jobs,
    MaxWrites  \* outcomes written per job, a bound

VARIABLES
    written,  \* written[j]: outcomes written so far, the last is the current one
    cached,   \* jobs whose result is in Redis
    row,      \* row[j]: the outcome Postgres holds, 0 for none
    deleted,  \* jobs whose user deleted the account
    unread    \* jobs of which a command of a run's read has failed

vars == <<written, cached, row, deleted, unread>>

Init ==
    /\ written = [j \in Jobs |-> 0]
    /\ row = [j \in Jobs |-> 0]
    /\ cached = {}
    /\ deleted = {}
    /\ unread = {}

\* A worker, a failed handler or the expiry cron writes an outcome.
Write(j) ==
    /\ written[j] < MaxWrites
    /\ written' = [written EXCEPT ![j] = @ + 1]
    /\ cached' = cached \cup {j}
    /\ UNCHANGED <<row, deleted, unread>>

\* Some rows catch up, each with an outcome no older than the one it holds.
Store ==
    /\ row' \in [Jobs -> 0..MaxWrites]
    /\ \A j \in Jobs : row'[j] # row[j] =>
            row[j] < row'[j] /\ row'[j] <= written[j] /\ j \notin deleted
    /\ UNCHANGED <<written, cached, deleted, unread>>

\* The result leaves Redis.
Drop(j) ==
    /\ row[j] > 0 \/ j \in deleted \cup unread
    /\ cached' = cached \ {j}
    /\ UNCHANGED <<written, row, deleted, unread>>

\* A run could not read the job and takes what it misses for empty.
Misread ==
    /\ unread \subseteq unread' /\ unread' \subseteq Jobs
    /\ UNCHANGED <<written, cached, row, deleted>>

\* ON DELETE CASCADE.
Delete(j) ==
    /\ row' = [row EXCEPT ![j] = 0]
    /\ deleted' = deleted \cup {j}
    /\ UNCHANGED <<written, cached, unread>>

Next ==
    \/ \E j \in Jobs : Write(j) \/ Drop(j) \/ Delete(j)
    \/ Store \/ Misread

Spec == Init /\ [][Next]_vars
=============================================================================

---------------------------- MODULE SlotLease -----------------------------
(***************************************************************************)
(* What max_concurrency promises: a semaphore per user whose units are     *)
(* leases.  A job takes one only below the limit and only once, and gives  *)
(* it back when it is settled or later, or when the lease lapses, in no    *)
(* other way: a job without an outcome keeps its lease.                    *)
(***************************************************************************)
EXTENDS Naturals, FiniteSets

CONSTANTS
    Jobs, Users,
    UserOf,   \* job -> user
    Limit     \* user -> units of the semaphore, 0 for as many as wanted

VARIABLES
    asked,    \* jobs the semaphore was asked for and let through
    held,     \* user -> jobs that hold a lease
    lapsed,   \* jobs whose lease is over, or would be
    outcome   \* job -> how it was settled, "none" before

vars == <<asked, held, lapsed, outcome>>

Outcomes == {"completed", "failed", "expired"}

Init ==
    /\ asked = {}
    /\ held = [u \in Users |-> {}]
    /\ lapsed = {}
    /\ outcome = [j \in Jobs |-> "none"]

\* A job is let through; where there is a limit it holds a unit from then on.
Take(j) ==
    LET u == UserOf[j]
        lease == IF Limit[u] > 0 THEN {j} \ lapsed ELSE {}
    IN  /\ j \notin asked
        /\ Limit[u] > 0 => Cardinality(held[u]) < Limit[u]
        /\ asked' = asked \cup {j}
        /\ held' = [held EXCEPT ![u] = @ \cup lease]
        /\ UNCHANGED <<lapsed, outcome>>

GiveBack(j) == held' = [held EXCEPT ![UserOf[j]] = @ \ {j}]

\* A job that was let through is settled.  The lease is given back at once, later,
\* or not at all, and lapses then.
Settle(j, o) ==
    /\ j \in asked
    /\ outcome' = [outcome EXCEPT ![j] = o]
    /\ GiveBack(j) \/ UNCHANGED held
    /\ UNCHANGED <<asked, lapsed>>

\* A settled job gives its lease back.
Return(j) ==
    /\ outcome[j] # "none"
    /\ GiveBack(j)
    /\ UNCHANGED <<asked, lapsed, outcome>>

\* CONCURRENCY_TTL_SECONDS have passed.
Lapse(j) ==
    /\ lapsed' = lapsed \cup {j}
    /\ GiveBack(j)
    /\ UNCHANGED <<asked, outcome>>

Next ==
    \E j \in Jobs :
        \/ Take(j) \/ Return(j) \/ Lapse(j)
        \/ \E o \in Outcomes : Settle(j, o)

Spec == Init /\ [][Next]_vars
=============================================================================

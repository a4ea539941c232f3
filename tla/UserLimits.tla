----------------------------- MODULE UserLimits -----------------------------
(***************************************************************************)
(* The limits of a user: the row of user_limits, the hash user:*:limits    *)
(* that caches it, getCachedUserLimits of a submission                     *)
(* (services/limitsCache.ts) and the preloader of a web instance that      *)
(* boots (services/userLimitsPreloader.ts, server/app.ts). One number      *)
(* stands for hard_rpd, lite_rpd and max_concurrency, handled alike.       *)
(***************************************************************************)
EXTENDS Integers, Sequences

CONSTANTS
    Role,           \* the role in the user's token
    UserRows,       \* limits a row may have: a number or Null, and unlimited
    Null,
    NoLimits,       \* no row, or no hash
    MaxRowEdits,
    MaxFailures     \* bound: crashes of the instance and failed commands

ASSUME LimitsAssumption ==
    /\ UserRows \subseteq [number: Nat \cup {Null}, unlimited: BOOLEAN]
    /\ NoLimits \notin UserRows /\ Null \notin Nat
    /\ Role \in {"user", "admin"}
    /\ MaxRowEdits \in Nat /\ MaxFailures \in Nat

VARIABLES
    userRow,    \* the row of user_limits
    cache,      \* user:*:limits, with the strings it holds
    expires,    \* the hash has a TTL
    boot,       \* the web instance: how far its boot is, and the row it read
    ask,        \* a submission that wants the limits
    had,        \* history: the rows the user had
    excused,    \* history: there was no row, or a query or the caching of its row failed
    rowEdits, failures

limitVars == <<userRow, cache, expires, boot, ask, had, excused, rowEdits, failures>>

\* defaultUserLimits and defaultAdminLimits.
DefaultLimits ==
    IF Role = "admin" THEN [number |-> Null, unlimited |-> TRUE]
                      ELSE [number |-> 2, unlimited |-> FALSE]

AnyLimits == UserRows \cup {DefaultLimits}

\* persistLimits, and the HSET of the preloader: Null becomes the empty string.
Stored(limits) ==
    [number |-> IF limits.number = Null THEN <<>> ELSE <<limits.number>>,
     unlimited |-> IF limits.unlimited THEN "true" ELSE "false"]

\* Mutant: any string counts as true.
LoadedTruthy(h) ==
    [number |-> IF h.number = <<>> THEN Null ELSE h.number[1],
     unlimited |-> h.unlimited # ""]

\* The hash as getCachedUserLimits reads it.
Loaded(h) ==
    [number |-> IF h.number = <<>> THEN Null ELSE h.number[1],
     unlimited |-> h.unlimited = "true"]

Down     == [at |-> "down", row |-> NoLimits]
Serving  == [at |-> "listening", row |-> NoLimits]
NoAsk    == [at |-> "none", limits |-> NoLimits]

LimitsInit ==
    /\ userRow \in UserRows \cup {NoLimits}
    /\ cache = NoLimits /\ expires = FALSE
    /\ boot = Down /\ ask = NoAsk
    /\ had = {userRow} \ {NoLimits}
    /\ excused = (userRow = NoLimits)
    /\ rowEdits = 0 /\ failures = 0

Fails == failures < MaxFailures /\ failures' = failures + 1

\* The row is inserted, changed or deleted.
EditRow(row) ==
    /\ rowEdits < MaxRowEdits /\ rowEdits' = rowEdits + 1
    /\ userRow' = row
    /\ had' = had \cup ({row} \ {NoLimits})
    /\ excused' = (excused \/ row = NoLimits)
    /\ UNCHANGED <<cache, expires, boot, ask, failures>>

\* Two days after a preload.
CacheExpires ==
    /\ cache # NoLimits /\ expires
    /\ cache' = NoLimits /\ expires' = FALSE
    /\ UNCHANGED <<userRow, boot, ask, had, excused, rowEdits, failures>>

-----------------------------------------------------------------------------
(* The boot: syncUserLimitsFromDB, whose errors are logged, then listen.   *)

BootFrame == UNCHANGED <<userRow, ask, had, excused, rowEdits>>

\* The SELECT; the user is taken to be among the thousand newest rows.
PreloadQuery ==
    /\ boot.at = "down"
    /\ boot' = IF userRow = NoLimits THEN Serving ELSE [at |-> "hset", row |-> userRow]
    /\ UNCHANGED <<cache, expires, failures>> /\ BootFrame

\* Mutant: a user who is cached already is passed over.
PreloadPutIfNew ==
    /\ boot.at = "hset"
    /\ cache' = IF cache = NoLimits THEN Stored(boot.row) ELSE cache
    /\ boot' = [boot EXCEPT !.at = "expire"]
    /\ UNCHANGED <<expires, failures>> /\ BootFrame

PreloadPut ==
    /\ boot.at = "hset"
    /\ cache' = Stored(boot.row)
    /\ boot' = [boot EXCEPT !.at = "expire"]
    /\ UNCHANGED <<expires, failures>> /\ BootFrame

PreloadExpire ==
    /\ boot.at = "expire"
    /\ expires' = (cache # NoLimits)
    /\ boot' = Serving
    /\ UNCHANGED <<cache, failures>> /\ BootFrame

PreloadFails ==
    /\ boot.at \in {"down", "hset", "expire"} /\ Fails
    /\ boot' = Serving
    /\ UNCHANGED <<cache, expires>> /\ BootFrame

\* auto_stop_machines: an instance without a request is stopped.
Stop ==
    /\ boot.at = "listening" /\ ask.at = "none"
    /\ boot' = Down
    /\ UNCHANGED <<cache, expires, failures>> /\ BootFrame

\* The instance dies with its request.
Crash ==
    /\ boot.at # "down" /\ Fails
    /\ boot' = Down /\ ask' = NoAsk
    /\ UNCHANGED <<userRow, cache, expires, had, excused, rowEdits>>

-----------------------------------------------------------------------------
(* getCachedUserLimits.                                                    *)

AskFrame == UNCHANGED <<userRow, boot, had, rowEdits>>

Ask ==
    /\ boot.at = "listening" /\ ask.at = "none"
    /\ ask' = [at |-> "cache", limits |-> NoLimits]
    /\ UNCHANGED <<cache, expires, excused, failures>> /\ AskFrame

ReadCache ==
    /\ ask.at = "cache"
    /\ ask' = IF cache = NoLimits THEN [at |-> "query", limits |-> NoLimits]
                                  ELSE [at |-> "known", limits |-> Loaded(cache)]
    /\ UNCHANGED <<cache, expires, excused, failures>> /\ AskFrame

Defaults == [at |-> "defaults", limits |-> DefaultLimits]

\* toUserLimits, or the defaults of the role without a row.
QueryLimits ==
    /\ ask.at = "query"
    /\ ask' = IF userRow = NoLimits THEN Defaults ELSE [at |-> "persist", limits |-> userRow]
    /\ UNCHANGED <<cache, expires, excused, failures>> /\ AskFrame

\* A failed query is answered with the defaults, which are cached as well.
QueryLimitsFails ==
    /\ ask.at = "query" /\ Fails
    /\ ask' = Defaults
    /\ excused' = TRUE
    /\ UNCHANGED <<cache, expires>> /\ AskFrame

\* persistLimits: HSET sets no TTL, and one that is there stays.
PersistLimits ==
    /\ ask.at \in {"persist", "defaults"}
    /\ cache' = Stored(ask.limits)
    /\ ask' = [ask EXCEPT !.at = "known"]
    /\ UNCHANGED <<expires, excused, failures>> /\ AskFrame

\* The HSET fails, executed or not. For a row it stands inside the try, and the
\* defaults follow; for the defaults the request fails.
PersistLimitsFails ==
    /\ ask.at \in {"persist", "defaults"} /\ Fails
    /\ cache' \in {cache, Stored(ask.limits)}
    /\ ask' = IF ask.at = "persist" THEN Defaults ELSE NoAsk
    /\ excused' = TRUE
    /\ UNCHANGED expires /\ AskFrame

\* The submission goes on with its limits.
UseLimits ==
    /\ ask.at = "known"
    /\ ask' = NoAsk
    /\ UNCHANGED <<cache, expires, excused, failures>> /\ AskFrame

-----------------------------------------------------------------------------

Preload == PreloadQuery \/ PreloadPut \/ PreloadExpire
GetLimits == ReadCache \/ QueryLimits \/ PersistLimits \/ UseLimits

LimitsNext ==
    \/ (\E row \in UserRows \cup {NoLimits} : EditRow(row)) \/ CacheExpires
    \/ Preload \/ PreloadFails \/ Stop \/ Crash
    \/ Ask \/ GetLimits \/ QueryLimitsFails \/ PersistLimitsFails

-----------------------------------------------------------------------------
(* Properties.                                                             *)

LimitsTypeOK ==
    /\ userRow \in UserRows \cup {NoLimits} /\ boot.row \in UserRows \cup {NoLimits}
    /\ cache \in {NoLimits} \cup {Stored(limits) : limits \in AnyLimits}
    /\ boot.at \in {"down", "hset", "expire", "listening"}
    /\ ask.at \in {"none", "cache", "query", "persist", "defaults", "known"}
    /\ ask.limits \in AnyLimits \cup {NoLimits}
    /\ expires \in BOOLEAN /\ excused \in BOOLEAN /\ had \subseteq UserRows
    /\ rowEdits \in 0..MaxRowEdits /\ failures \in 0..MaxFailures

\* A submission is held to limits its user had at some time, and to the defaults
\* of the role only when there was no row, or a query or the HSET of its row failed:
\* that HSET stands in the try of the query (limitsCache.ts:55-98).
UsedAreReal ==
    ask.limits # NoLimits
        => ask.limits \in had \cup (IF excused THEN {DefaultLimits} ELSE {})
=============================================================================

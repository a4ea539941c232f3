--------------------------- MODULE LimitScripts ---------------------------
(***************************************************************************)
(* The decisions of the Redis Lua scripts under redis/luaScripts, as pure  *)
(* operators.  A script runs atomically in Redis, so the modules that call *)
(* these operators apply each script's effect in one step.  A limit of 0   *)
(* means "no limit" in every script.                                       *)
(***************************************************************************)
EXTENDS Integers

\* One more unit does not fit under the limit.
Exhausted(limit, used) == limit > 0 /\ used + 1 > limit

\* Mutant: the clamp is forgotten.
DecrUnclamped(n) == n - 1

\* decrAndClampToZero.lua, and the local helper of the same name in
\* returnTokensAtomic.lua and expireStaleJob.lua.
DecrAndClamp(n) == IF n - 1 < 0 THEN 0 ELSE n - 1

\* Mutant: a concurrency gate that compares with > instead of >=.
AcquireCodeOffByOne(concurrency, held, userDay, userUsed, modelDay, modelUsed) ==
    IF concurrency > 0 /\ held > concurrency THEN "concurrency"
    ELSE IF Exhausted(userDay, userUsed) THEN "userRpd"
    ELSE IF Exhausted(modelDay, modelUsed) THEN "modelRpd"
    ELSE "ok"

\* combinedCheckAndAcquire.lua, steps 2 to 4: which check fails first.  held is
\* the number of slots left after the script's cleanup of expired ones.
AcquireCode(concurrency, held, userDay, userUsed, modelDay, modelUsed) ==
    IF concurrency > 0 /\ held >= concurrency THEN "concurrency"
    ELSE IF Exhausted(userDay, userUsed) THEN "userRpd"
    ELSE IF Exhausted(modelDay, modelUsed) THEN "modelRpd"
    ELSE "ok"

\* Mutant: the daily limit is not consulted before execution.
ConsumeCodeNoDay(minute, minuteUsed, modelDay, modelUsed) ==
    IF Exhausted(minute, minuteUsed) THEN "modelRpm" ELSE "ok"

\* consumeExecutionLimits.lua: which check fails first.
ConsumeCode(minute, minuteUsed, modelDay, modelUsed) ==
    IF Exhausted(minute, minuteUsed) THEN "modelRpm"
    ELSE IF Exhausted(modelDay, modelUsed) THEN "modelRpd"
    ELSE "ok"
=============================================================================

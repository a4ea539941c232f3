---------------------------- MODULE Configuration ----------------------------
(***************************************************************************)
(* The configuration in Redis as a whole. The two halves share no state:   *)
(* prepareJobSubmission reads the limits of the user and then the models,  *)
(* and buildApp preloads the limits and then the models, but no step of    *)
(* one half depends on the other. So a behaviour follows the half that     *)
(* part names, and the states of the two add up and do not multiply.       *)
(***************************************************************************)
EXTENDS ModelCatalog, UserLimits

VARIABLE part

vars == <<catalogVars, limitVars, part>>

Init ==
    /\ part \in {"models", "limits"}
    /\ CatalogInit /\ LimitsInit
    /\ part = "models" => userRow = NoLimits

Models_(A) == part = "models" /\ A /\ UNCHANGED <<limitVars, part>>
Limits_(A) == part = "limits" /\ A /\ UNCHANGED <<catalogVars, part>>

Next == Models_(CatalogNext) \/ Limits_(LimitsNext)

Spec == Init /\ [][Next]_vars

\* An instance boots, its code runs on and its timer fires; a worker keeps trying;
\* a machine without traffic is stopped.
FairSpec ==
    /\ Spec
    /\ WF_vars(Models_(Web \/ TimerReload))
    /\ WF_vars(Models_(Reload(Cron) \/ Unlock)) /\ WF_vars(Models_(Reload(Admin)))
    /\ WF_vars(Models_(LockExpires))
    /\ SF_vars(Models_(PreflightIds \/ PreflightHashes))
    /\ WF_vars(Limits_(Preload)) /\ WF_vars(Limits_(GetLimits))
    /\ SF_vars(Limits_(Stop))

-----------------------------------------------------------------------------
(* Properties.                                                             *)

\* When the table is no longer edited, Redis lists its models with their limits,
\* except while a reload is running: no stale snapshot of the other reloader, no
\* pipeline that broke off and no lock that was left behind lasts
\* (reloadModelLimits.ts:11-43, runWithLock.ts:10-24).
ReloadsCatchUp ==
    part = "models" => <>[]((\A c \in Reloaders : ~Reloading(c)) => InStep)

\* A worker passes its preflight, unless the models are gone from the table.
WorkerStarts ==
    part = "models" => (<>[](Listed(table) # {}) => <>(worker.at = "started"))

\* Instances that come and go bring the cached limits of a user with a row up to
\* date, over defaults cached on an error and over a request that caches an old
\* row late (userLimitsPreloader.ts:16-65).
LimitsCatchUp ==
    part = "limits"
        => <>[](userRow # NoLimits /\ cache # NoLimits => Loaded(cache) = userRow)
=============================================================================

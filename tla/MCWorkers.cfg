\* One process with two queues of three jobs: a change before and one during the
\* start, a crash or Redis error, and a SIGTERM. Once every job has run and the
\* bounds are used up the process rests.
SPECIFICATION FairSpec
CONSTANTS
    Processes = {p1}
    Types = {"hard", "lite"}
    Values = {1, 2}
    Default <- MCDefault
    Backlog = 3
    MaxChanges = 2
    MaxFaults = 1
    MaxSignals = 1
INVARIANTS
    TypeOK
    WithinConcurrency
    UpToDateWhenSubscribed
    CleanExit
PROPERTIES
    EveryJobRuns
CHECK_DEADLOCK FALSE

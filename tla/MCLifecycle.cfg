\* Three submissions, one worker process, no faults: the normal life of jobs,
\* with rate limits, fallback, retries and final failures.
SPECIFICATION Spec
CONSTANTS
    j1 = j1  j2 = j2  j3 = j3
    u1 = u1  u2 = u2  hard = hard  lite = lite
    pro = pro  gone = gone  flash = flash  w1 = w1  w2 = w2
    NoProc = NoProc  NoModel = NoModel  NoJob = NoJob
    Jobs = {j1, j2, j3}
    Users = {u1, u2}
    Types = {hard, lite}
    Models = {pro, gone, flash}
    Procs = {w1}
    UserOf <- TwoUsers
    TypeOf <- HardTwice
    StreamingJobs = {j1}
    Chain <- Fallback
    LoadedModels <- Loaded
    ConcurrencyLimit <- OneUnlimited
    UserDayLimit <- DayTwo
    ModelRpm <- ModelsOne
    ModelRpd <- ModelsOne
    MaxQueueLength <- ModelsOne
    Attempts = 2
    MaxStalled = 1
    MaxDay = 1
    MaxFaults = 0
    Environment = {"minute"}
INVARIANTS
    TypeOK
    ConcurrencyWithinLimit
    BacklogWithinCap
    WaitingCoversBacklog
    RefundsWithinConsumption
    CompletedWithinModelDay
    RestIsClean
PROPERTIES
    ImplementsSlotLease

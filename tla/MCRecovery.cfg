\* One job, two worker processes, midnight, a request that fails or dies, and lost
\* locks: the job settles all the same.
SPECIFICATION FairSpec
CONSTANTS
    j1 = j1  j2 = j2  j3 = j3
    u1 = u1  u2 = u2  hard = hard  lite = lite
    pro = pro  gone = gone  flash = flash  w1 = w1  w2 = w2
    NoProc = NoProc  NoModel = NoModel  NoJob = NoJob
    Jobs = {j1}
    Users = {u1}
    Types = {lite}
    Models = {flash}
    Procs = {w1, w2}
    UserOf <- OneUser
    TypeOf <- AllLite
    StreamingJobs = {}
    Chain <- OnlyFlash
    LoadedModels <- Loaded
    ConcurrencyLimit <- UsersOne
    UserDayLimit <- DayOne
    ModelRpm <- ModelsOne
    ModelRpd <- ModelsTwo
    MaxQueueLength <- ModelsOne
    Attempts = 2
    MaxStalled = 1
    MaxDay = 2
    MaxFaults = 1
    Environment = {"lockLost", "addFails", "webDies", "minute", "midnight"}
INVARIANTS
    SettledHoldsNoSlot
PROPERTIES
    QueuedJobSettles

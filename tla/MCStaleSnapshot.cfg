\* One job that passes the SLA, one worker process and the cron, no faults.
SPECIFICATION Spec
CONSTANTS
    j1 = j1  j2 = j2  j3 = j3
    u1 = u1  u2 = u2  hard = hard  lite = lite
    pro = pro  gone = gone  flash = flash  w1 = w1  w2 = w2
    NoProc = NoProc  NoModel = NoModel  NoJob = NoJob
    Jobs = {j1}
    Users = {u1}
    Types = {lite}
    Models = {flash}
    Procs = {w1}
    UserOf <- OneUser
    TypeOf <- AllLite
    StreamingJobs = {}
    Chain <- OnlyFlash
    LoadedModels <- Loaded
    ConcurrencyLimit <- UsersOne
    UserDayLimit <- DayOne
    ModelRpm <- ModelsOne
    ModelRpd <- ModelsTwo
    MaxQueueLength <- ModelsOne
    Attempts = 2
    MaxStalled = 1
    MaxDay = 1
    MaxFaults = 0
    Environment = {"aging"}
PROPERTIES
    CompletedIsFinal

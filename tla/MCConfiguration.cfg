\* Two models, an edit of the table and a crash or a broken pipeline; a user with
\* three different rows or none, two edits and two failures. The timer and the
\* requests go on for ever: there is no deadlock.
SPECIFICATION FairSpec
CONSTANTS
    h1 = h1  l1 = l1
    Models = {h1, l1}
    Rows <- MCRows
    NoRow = NoRow
    SeedTable <- MCSeed
    Cron = Cron
    Admin = Admin
    MaxTableEdits = 1
    MaxBreaks = 1
    Role = "user"
    UserRows <- MCUserRows
    Null = Null
    NoLimits = NoLimits
    MaxRowEdits = 2
    MaxFailures = 2
INVARIANTS
    ChosenHasLimits
    ChainIsComplete
    BacklogWithinSla
    UsedAreReal
PROPERTIES
    ReloadsCatchUp
    WorkerStarts
    LimitsCatchUp

\* One job, with and without streaming: an answer of two chunks, a second attempt, a
\* stall that is a failure, a per-minute limit and two lost connections; or a client that
\* polls.
SPECIFICATION ReadsFairSpec
CONSTANTS
    j1 = j1
    Job = j1
    Chunks = 2
    Attempts = 2
    MaxStalled = 0
    MaxDelays = 1
    MaxDrops = 2
INVARIANTS
    TypeOK
    NoGapNoRepeat
    CompletedIsWhole
    NeverNotFound
    RetriedAsDocumented
PROPERTIES
    ToldInTheEnd
    StatusNeverGoesBack
CHECK_DEADLOCK FALSE

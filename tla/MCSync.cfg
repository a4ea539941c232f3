\* Two web instances, two jobs in chunks of one, a second outcome for a job,
\* and two faults.
SPECIFICATION FairSpec
CONSTANTS
    j1 = j1  j2 = j2  i1 = i1  i2 = i2
    Free = Free
    Instances = {i1, i2}
    Jobs = {j1, j2}
    OldJobs = {j2}
    ChunkSize = 1
    MaxWrites = 2
    MaxFaults = 2
INVARIANTS
    MarkedIsStored
PROPERTIES
    ImplementsWriteBehind
    EveryResultStored

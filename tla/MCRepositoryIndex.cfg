CONSTANTS
    Files <- MCFiles
    Present = {1}
    Runners = {p1, p2}
    BatchSize = 1
    None = None
    MaxEvents = 2
SPECIFICATION IndexFairSpec
INVARIANTS
    IndexTypeOK
    SnapshotFaithful
PROPERTIES
    CompletedJobsImmutable
    IndexCatchesUp
CHECK_DEADLOCK FALSE

CONSTANTS
    Events <- MCEvents
    Workers = {w1, w2}
    BatchSize = 1
    MaxAttempts = 1
    MaxFaults = 0
    Memories = {m1}
    Contents = {a, b}
    GlobalContents = {b}
    Clients = {c1}
    Operations <- MCOperations
    MaxClock = 3
SPECIFICATION ProjectionSpec
PROPERTY
    ProjectionNeverRegresses
CHECK_DEADLOCK FALSE

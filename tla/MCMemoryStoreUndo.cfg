CONSTANTS
    Events <- MCEvents
    Workers = {}
    BatchSize = 1
    MaxAttempts = 1
    MaxFaults = 0
    Memories = {m1}
    Contents = {a, b}
    Clients = {c1}
    Operations <- AllOperations
    MaxClock = 4
SPECIFICATION StoreSpec
INVARIANT
    UndoneIsUnlabelled
CHECK_DEADLOCK FALSE

CONSTANTS
    Events <- MCEvents
    Workers = {}
    BatchSize = 1
    MaxAttempts = 1
    MaxFaults = 0
    Memories = {m1}
    Contents = {a, b}
    Clients = {c1, c2}
    Operations <- AllOperations
    MaxClock = 3
SPECIFICATION StoreSpec
PROPERTY
    ChangeQueuesEvent
CHECK_DEADLOCK FALSE

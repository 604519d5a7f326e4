CONSTANTS
    Events <- MCEvents
    Workers = {w1}
    BatchSize = 1
    MaxAttempts = 1
    MaxFaults = 0
    Memories = {m1}
    Contents = {a, b}
    GlobalContents = {b}
    Clients = {c1}
    Operations <- MCOperations
    MaxClock = 3
SPECIFICATION ProjectionSpec
INVARIANT
    ForgottenHasNoPoint
CHECK_DEADLOCK FALSE

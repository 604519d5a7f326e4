CONSTANTS
    Events <- MCEvents
    Workers = {w1}
    BatchSize = 2
    MaxAttempts = 1
    MaxFaults = 1
    Memories = {m1}
    Contents = {a, b}
    GlobalContents = {b}
    Clients = {c1}
    Operations <- MCOperations
    MaxClock = 3
SPECIFICATION ProjectionSpec
INVARIANTS
    ProjectionTypeOK
    AcknowledgedIsProjected
    VectorEmbedsPayload
PROPERTIES
    ProjectionNeverRegresses
    ProjectionCatchesUp
CHECK_DEADLOCK FALSE

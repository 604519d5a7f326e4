CONSTANTS
    Events <- MCEvents
    Workers = {}
    BatchSize = 1
    MaxAttempts = 1
    MaxFaults = 0
    Memories = {m1, m2}
    Contents = {a, b}
    Clients = {c1, c2}
    Operations <- AllOperations
    MaxClock = 4
SYMMETRY Symmetry
SPECIFICATION StoreSpec
INVARIANTS
    StoreTypeOK
    CurrentStateRecorded
PROPERTIES
    LifecycleStepKeepsContent
    
    NewStateQueuesEvent
CHECK_DEADLOCK FALSE

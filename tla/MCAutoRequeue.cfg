CONSTANTS
    Events <- MCEvents
    Workers = {w1}
    BatchSize = 2
    MaxAttempts = 1
    MaxFaults = 1
    Enabled = TRUE
    AutoLimit = 2
SPECIFICATION AutoSpec
INVARIANTS
    AutoTypeOK
    RequeuesBounded
PROPERTIES
    PermanentErrorsStay
    TransientErrorsRecover
CHECK_DEADLOCK FALSE

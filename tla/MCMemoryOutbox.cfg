CONSTANTS
    Events <- MCEvents
    Workers = {w1, w2}
    BatchSize = 2
    MaxAttempts = 2
    MaxFaults = 2
SPECIFICATION OutboxSpec
INVARIANTS
    OutboxTypeOK
    TokenOnlyWhileProcessing
    OneOwner
    AttemptsAreStrikes
    DeadLettersAreExhausted
PROPERTIES
    OnlyOwnerSettles
    ImplementsEventQueue
CHECK_DEADLOCK FALSE

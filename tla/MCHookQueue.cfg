CONSTANTS
    Events <- MCEvents
    c1 = c1
    c2 = c2
    i1 = i1
    kc = kc
    ki = ki
    Workers = {c1, c2, i1}
    Payloads = {kc}
    KindOf <- MCKindOf
    Serves <- MCServes
    None = None
    Capacity = 2
    MaxAttempts = 2
    MaxFaults = 2
SPECIFICATION HookFairSpec
INVARIANTS
    HookTypeOK
    AttemptsAccounted
    AttemptBudget
    UndisturbedRunsOnce
PROPERTIES
    OnlyHolderSettles
    ImplementsJobQueue
    EveryJobEnds
CHECK_DEADLOCK FALSE

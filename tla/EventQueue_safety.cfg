\* Two workers race for two events; one event can never be processed.
CONSTANTS
    e1 = e1
    e2 = e2
    w1 = w1
    w2 = w2
    Events <- TwoEvents
    Malformed <- Second
    Workers <- TwoWorkers
    MaxAttempts = 2
    Lease = 1
    MaxDelay = 1
    MaxCrashes = 1
    MaxStalls = 1
    MaxRevivals = 1
SPECIFICATION SafeSpec
SYMMETRY WorkerSymmetry
INVARIANTS
    TypeOK
    ExactlyOnce
    FenceInv
    RetryBudget
PROPERTIES
    SettledIsStable
    OnlyTheHolderFinishes

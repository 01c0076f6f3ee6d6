\* Two workers under fairness: a crash, failing attempts and a revival.
CONSTANTS
    e1 = e1
    e2 = e2
    w1 = w1
    w2 = w2
    Events <- TwoEvents
    Malformed <- Second
    Workers <- TwoWorkers
    MaxAttempts = 2
    Lease = 1
    MaxDelay = 1
    MaxCrashes = 1
    MaxStalls = 0
    MaxRevivals = 1
SPECIFICATION Spec
PROPERTIES
    EventuallySettled
    ImplementsInbox

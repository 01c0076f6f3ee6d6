\* Purchase orders: a commit per batch, then a pass over everything open, and a
\* window that moves once.  No symmetry, since two properties are temporal.
CONSTANTS
    p1 = p1
    p2 = p2
    r1 = r1
    r2 = r2
    Processes <- TwoProcesses
    Runs <- TwoRuns
    Tokens <- FourTokens
    Resource = "purchase_order"
    Lookback = 1
    FirstToday = 1
    LastToday = 2
    MaxEdits = 1
    MaxErrors = 1
    MaxCrashes = 1
    MaxStalls = 0
SPECIFICATION Spec
INVARIANTS
    CheckpointIsHonest
PROPERTIES
    RunsEnd
    EventuallyFresh

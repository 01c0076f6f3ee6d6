\* Invoices: one commit per day, behind a row lock.  The window moves once.
CONSTANTS
    p1 = p1
    p2 = p2
    r1 = r1
    r2 = r2
    Processes <- TwoProcesses
    Runs <- TwoRuns
    Tokens <- FourTokens
    Resource = "invoice"
    Lookback = 2
    FirstToday = 2
    LastToday = 3
    MaxEdits = 1
    MaxErrors = 1
    MaxCrashes = 1
    MaxStalls = 1
SPECIFICATION SafeSpec
SYMMETRY Symmetry
INVARIANTS
    LeaseIsExclusive
    CheckpointIsHonest
PROPERTIES
    NothingGoesBack

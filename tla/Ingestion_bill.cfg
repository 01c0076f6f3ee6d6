\* Bills: two workers and a reconciler that all use persist_resource_batch.
CONSTANTS
    w1 = w1
    w2 = w2
    status = status
    total = total
    Resource = "bill"
    Columns <- TwoColumns
    Workers <- TwoWorkers
    MaxChanges = 3
    MaxAttempts = 2
    MaxLost = 1
    MaxCrashes = 1
SPECIFICATION SafeSpec
SYMMETRY Symmetry
INVARIANTS
    TypeOK
    ProjectionFollows
    DeletedIsGone

\* Invoices under fairness; no symmetry, since the property is temporal.
\* An event that meets one error is lost for good.
CONSTANTS
    w1 = w1
    w2 = w2
    status = status
    total = total
    Resource = "invoice"
    Columns <- TwoColumns
    Workers <- OneWorker
    MaxChanges = 3
    MaxAttempts = 1
    MaxLost = 1
    MaxCrashes = 1
SPECIFICATION Spec
PROPERTY Mirrors

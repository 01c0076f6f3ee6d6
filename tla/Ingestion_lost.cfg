\* The webhook of a deletion is lost and the reconciler keeps running.
CONSTANTS
    w1 = w1
    w2 = w2
    status = status
    total = total
    Resource = "invoice"
    Columns <- OneColumn
    Workers <- OneWorker
    MaxChanges = 2
    MaxAttempts = 2
    MaxLost = 1
    MaxCrashes = 0
SPECIFICATION Spec
PROPERTY DeletionsAreRepaired

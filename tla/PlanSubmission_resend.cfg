\* Two API processes retry a plan whose two orders were refused for their
\* credentials.
CONSTANTS
    c1 = c1
    c2 = c2
    Calls <- TwoCalls
    NoCall = NoCall
    Suppliers <- TwoSuppliers
    Cost <- EvenCost
    Budget = 2
    SameLoop = FALSE
    MaxAborts = 0
    MaxRefusals = 2
SPECIFICATION RetrySpec
SYMMETRY CallSymmetry
INVARIANT NoDuplicateOrder

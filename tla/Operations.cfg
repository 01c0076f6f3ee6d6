\* The operational desks, the forecast, the purchase plan, its submission (two calls and an
\* operator, three suppliers of which the budget admits two), the client and a first load.
CONSTANTS
    i1 = i1
    i2 = i2
    k1 = k1
    k2 = k2
    j1 = j1
    j2 = j2
    q1 = q1
    sn = sn
    in1 = in1
    out1 = out1
    b1 = b1
    v1 = v1
    g1 = g1
    g2 = g2
    g3 = g3
    s1 = s1
    s2 = s2
    t1 = t1
    t2 = t2
    c1 = c1
    c2 = c2
    NoOrderLine = NoOrderLine
    NoReceipt = NoReceipt
    NoSerial = NoSerial
    NoJob = NoJob
    NoBalance = NoBalance
    NoSeller = NoSeller
    NoThreshold = NoThreshold
    NoTotal = NoTotal
    OrderLines = {1}
    Items <- TwoItems
    Clients <- TwoClients
    MaxQuantity = 2
    MaxOrderEdits = 2
    Jobs <- TwoJobs
    Parts <- OnePart
    Serials <- OneSerial
    MaxWarranty = 1
    LastDay = 2
    Incomes <- OneIncome
    Outgoings <- OneOutgoing
    Bills <- OneBill
    Invoices <- OneInvoice
    Amount <- AmountOf
    OrderTotal = 10
    OrderDue = 2
    WeekDays = 1
    Weeks = 2
    Cash = 20
    LastDate = 3
    HistoryDays = 4
    MaxSold = 2
    MinObserved = 2
    ShortMean = 1
    CycleDays = 2
    Goods <- ThreeGoods
    Sellers <- TwoSellers
    Inputs <- ProductInputs
    Policies <- FreightPolicies
    Budgets <- SmallBudgets
    Tasks <- TwoTasks
    Posts <- OnePost
    MaxRetries = 3
    Interval = 2
    MaxDelay = 1
    MaxDocument = 5
    MaxDeletions = 2
    PageSize = 2
    PageConcurrency = 2
    WriteBatch = 2
    Calls <- TwoCalls
    NoCall = NoCall
    Suppliers <- ThreeSuppliers
    Cost <- UnevenCost
    Budget = 4
    SameLoop = TRUE
    MaxAborts = 1
    MaxRefusals = 2
SPECIFICATION MCSpec
INVARIANTS
    ReceiptsAreKept
    RepairsAreTrue
    CashIsTrue
    ForecastIsSound
    PlanIsSound
    RequestsAreSafe
    LoadIsComplete
    TypeOK
    NoDuplicateOrder
    NoOrphanOrder
    WithinBudget
    OneLoopNeverBlocks
PROPERTIES
    UncertainIsNotResent
    LinkIsStable
    EveryCallReturns
    SyncEnds
CHECK_DEADLOCK FALSE

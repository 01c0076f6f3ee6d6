\* The mart, the cost ledger and the opening import, each on its own small instance.
CONSTANTS
    p1 = p1
    w1 = w1
    s1 = s1
    b1 = b1
    c1 = c1
    c2 = c2
    r1 = r1
    r2 = r2
    i1 = i1
    i2 = i2
    f1 = f1
    f2 = f2
    NoRow = NoRow
    NoKey = NoKey
    NoRun = NoRun
    NoLayer = NoLayer
    NoSale = NoSale
    Blank = Blank
    Products <- OneProduct
    Warehouses <- OneWarehouse
    SaleLines <- OneSale
    BillLines <- OneBill
    Captures <- TwoCaptures
    MaxVersion = 2
    MaxArrivals = 2
    MaxFailures = 1
    AllocationRuns <- TwoRuns
    SourceLayers <- ThreeLayers
    SaleQuantities <- Quantities
    MaxLines = 3
    Importers <- TwoImporters
    Reports <- TwoReports
    ReportRows <- RowsOf
    CatalogueRows <- Catalogue
SPECIFICATION MCSpec
INVARIANTS
    MartAgrees
    LayersAreConsumed
    CostsAddUp
    OpeningIsCertain
PROPERTIES
    RefreshLosesNothing
    MirroredInTheEnd
CHECK_DEADLOCK FALSE

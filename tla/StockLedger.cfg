\* a migrated variant and one created by the API, baskets of one and of two lines;
\* every behaviour is finite, so the end of one is no deadlock
SPECIFICATION AdminSpec
CONSTANTS
    main = main
    branch = branch
    elsewhere = elsewhere
    v1 = v1
    v2 = v2
    o1 = o1
    o2 = o2
    t1 = t1
    e1 = e1
    e2 = e2
    NoStore = NoStore
    Stores = {main, branch}
    Default = main
    Variants = {v1, v2}
    Orders = {o1, o2}
    Transfers = {t1}
    Sales = {e1, e2}
    Baskets <- TwoVariantBaskets
    Deltas <- Adjustments
    SaleLocations = {branch, elsewhere}
    Opening <- TwoVariantOpening
    Migrated = {v1}
    MaxAdjustments = 1
SYMMETRY LedgerSymmetry
INVARIANTS AdminTypeOK AggregateSurvives UnitsSurvive TransfersHaveStores LotsCoverStock DebtIsSold
CHECK_DEADLOCK FALSE

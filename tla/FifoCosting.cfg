\* one variant with a unit of opening stock, received at two costs; every
\* behaviour is finite, so the end of one is no deadlock
SPECIFICATION FifoSpec
CONSTANTS
    main = main
    branch = branch
    v1 = v1
    o1 = o1
    t1 = t1
    e1 = e1
    NoStore = NoStore
    Shrink = Shrink
    Stores = {main, branch}
    Default = main
    Variants = {v1}
    Orders = {o1}
    Transfers = {t1}
    Sales = {e1}
    Baskets <- OneVariantBaskets
    Deltas <- Receipts
    SaleLocations = {main, branch}
    Opening <- OneInStock
    Migrated = {v1}
    MaxAdjustments = 3
    Costs = {1, 4}
    InitialCost <- OneCent
    MaxReprices = 1
INVARIANTS CostTypeOK LotsAgree OldestFirst ReportedIsGone
PROPERTY ValueKept
CHECK_DEADLOCK FALSE

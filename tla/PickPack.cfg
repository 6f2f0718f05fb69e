\* two payments of a half or the whole; two scanners to each task, two units
\* of one line and one of the other; two overlapping updates of the delivery
SPECIFICATION FulfilSpec
CONSTANTS
    l1 = l1
    l2 = l2
    bread = bread
    milk = milk
    b1 = b1
    b2 = b2
    m1 = m1
    p1 = p1
    p2 = p2
    d1 = d1
    d2 = d2
    Lines = {l1, l2}
    Skus = {bread, milk}
    Sku <- TwoSkus
    Required <- TwoOne
    Scans = {b1, b2, m1}
    Scanned <- Units
    PackScans = {b1, b2, m1}
    Scanners = 2
    NotSet = NotSet
    Payments = {p1, p2}
    Amounts = {1, 2}
    Total = 2
    Dispatchers = {d1, d2}
    MaxTrace = 3
    Staff = Staff
    NotLeft = NotLeft
SYMMETRY FulfilSymmetry
CHECK_DEADLOCK FALSE
INVARIANTS
    FulfilTypeOK
    StepsAreGated
    ScannedIsCounted
    SettledOnce
    DeliveryIsTraced
PROPERTIES
    StampsKept
    CounterSpec

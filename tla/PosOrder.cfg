\* two tenders of one order and a quick sale, two overlapping syncs
SPECIFICATION Spec
CONSTANTS
    o1 = o1
    q = q
    cash1 = cash1
    cash2 = cash2
    quick = quick
    line = line
    tab1 = tab1
    tab2 = tab2
    Orders = {o1, q}
    Intents = {cash1, cash2, quick}
    OrderOf <- RegisterOrderOf
    Amount <- RegisterAmount
    QuickSales = {quick}
    Syncs = {tab1, tab2}
    Edits = {}
    EditOf <- NoEdit
    Cancels = {}
    Subtotals = {2}
    Discounts = {0, 1}
    Chunk = 1
    MaxFaults = 3
    MaxErrors = 1
SYMMETRY Symmetry
CHECK_DEADLOCK FALSE
INVARIANTS
    TypeOK
    PublishedOnce
    QuickSaleOnce
    InCaptureOrder
PROPERTIES
    NothingForgotten

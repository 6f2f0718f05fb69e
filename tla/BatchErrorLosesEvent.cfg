\* one error in a batch whose first op closed its order
SPECIFICATION FairSpec
CONSTANTS
    o1 = o1
    q = q
    cash1 = cash1
    cash2 = cash2
    quick = quick
    line = line
    tab1 = tab1
    tab2 = tab2
    Orders = {o1, q}
    Intents = {cash1, quick}
    OrderOf <- BatchOrderOf
    Amount <- BatchAmount
    QuickSales = {quick}
    Syncs = {tab1}
    Edits = {}
    EditOf <- NoEdit
    Cancels = {}
    Subtotals = {2}
    Discounts = {0}
    Chunk = 2
    MaxFaults = 2
    MaxErrors = 1
CHECK_DEADLOCK FALSE
PROPERTIES
    ClosedIsPublished

\* a sync, a line edit and a cancellation of one order race its two tenders
SPECIFICATION FairSpec
CONSTANTS
    o1 = o1
    q = q
    cash1 = cash1
    cash2 = cash2
    quick = quick
    line = line
    tab1 = tab1
    tab2 = tab2
    Orders = {o1}
    Intents = {cash1, cash2}
    OrderOf <- SplitOrderOf
    Amount <- SplitAmount
    QuickSales = {}
    Syncs = {tab1}
    Edits = {line}
    EditOf <- LineOf
    Cancels = {o1}
    Subtotals = {1, 2}
    Discounts = {0, 1}
    Chunk = 2
    MaxFaults = 2
    MaxErrors = 0
CHECK_DEADLOCK FALSE
PROPERTIES
    QueueDrains
    ClosedIsPublished

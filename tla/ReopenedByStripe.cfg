\* a tender between the read and the write of a delivery
SPECIFICATION PickupSpec
CONSTANTS
    p = p
    cash1 = cash1
    line = line
    tab = tab
    Orders = {p}
    Pickups = {p}
    Deliveries = {1}
    Intents = {cash1}
    OrderOf <- OneOrderOf
    Amount <- OneAmount
    QuickSales = {}
    Syncs = {}
    Edits = {}
    EditOf <- NoEdit
    Cancels = {}
    Subtotals = {2}
    Discounts = {0}
    Chunk = 1
    MaxFaults = 0
    MaxErrors = 0
CHECK_DEADLOCK FALSE
PROPERTIES
    NotReopened

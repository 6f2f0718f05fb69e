\* two overlapping deliveries of a payment against a tender that may be
\* queued and replayed, a line edit and a cancellation of the order
SPECIFICATION PickupFairSpec
CONSTANTS
    p = p
    cash1 = cash1
    line = line
    tab = tab
    Orders = {p}
    Pickups = {p}
    Deliveries = {1, 2}
    Intents = {cash1}
    OrderOf <- OneOrderOf
    Amount <- OneAmount
    QuickSales = {}
    Syncs = {tab}
    Edits = {line}
    EditOf <- LineOf
    Cancels = {p}
    Subtotals = {2, 4}
    Discounts = {0, 1}
    Chunk = 1
    MaxFaults = 3
    MaxErrors = 1
CHECK_DEADLOCK FALSE
INVARIANTS
    StripeBookedOnce
    PublishedIsPaid
PROPERTIES
    PaidIsBooked

\* three clients and two members of the account over one slot that may be deleted
SPECIFICATION BookingSpec
CONSTANTS
    s1 = s1
    b1 = b1
    b2 = b2
    b3 = b3
    d1 = d1
    d2 = d2
    Slots = {s1}
    Bookings = {b1, b2, b3}
    ViaLine = {b1, b2}
    Deciders = {d1, d2}
    MaxFaults = 2
    Nobody = Nobody
SYMMETRY BookingSymmetry
CHECK_DEADLOCK FALSE
INVARIANTS
    OneWinner
    HoldIsKept
    RemindedOnce

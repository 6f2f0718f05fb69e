\* two webhook handlers for two subscriptions of one account; two of three people join at once
SPECIFICATION TeamSpec
CONSTANTS
    boss = boss
    ann = ann
    bob = bob
    cat = cat
    first = first
    second = second
    h1 = h1
    h2 = h2
    j1 = j1
    j2 = j2
    Accounts = {boss, ann, bob, cat}
    Subs = {first, second}
    CustomerOf <- BothOfBoss
    PlanOf <- TeamThenDashboard
    NoPlan = NoPlan
    Hooks = {h1, h2}
    Joins = {j1, j2}
    MaxSeats = 2
    MaxChanges <- TwoThenOne
    MaxFaults = 1
SYMMETRY TeamSymmetry
CHECK_DEADLOCK FALSE
INVARIANTS
    TeamTypeOK
    SeatsBounded
    FreshWrites
    InSync

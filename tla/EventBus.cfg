\* a sale, the breach it causes, which can never be delivered, and a promotion of
\* the same app; each app drains its own outbox, taking more rows than are blocked.
\* Every event is published once and then delivered, so a behaviour may stop
SPECIFICATION FairSpec
CONSTANTS
    sale = sale
    breach = breach
    promotion = promotion
    pos = pos
    inventory = inventory
    taskboard = taskboard
    posDrain = posDrain
    inventoryDrain = inventoryDrain
    NoEvent = NoEvent
    Inventory = inventory
    Events = {sale, breach, promotion}
    Subscribers = {pos, inventory, taskboard}
    Drains = {posDrain, inventoryDrain}
    Routes <- MCRoutes
    Publisher <- MCPublisher
    Consequences <- MCConsequences
    DrainOf <- MCDrainOf
    Upserting = {pos}
    Down = {taskboard}
    Limit = 2
    MaxFaults = 1
INVARIANTS TypeOK DeliveredIsApplied AppliedAtMostOnce
PROPERTIES ChannelSpec OutboxDrains
CHECK_DEADLOCK FALSE

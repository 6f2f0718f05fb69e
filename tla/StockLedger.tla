---------------------------- MODULE StockLedger ----------------------------
(***************************************************************************)
(* The stock ledger of one grit-inventory tenant: the StoreStock rows, the *)
(* tenant-wide aggregate on Variant, the FIFO lots, and every handler that *)
(* moves stock (manual adjustments, order transitions, transfer            *)
(* transitions, ingestion of POS sales).                                   *)
(*                                                                         *)
(* Granularity.  Each handler runs in one database transaction that takes  *)
(* a row lock on the Variant before it reads or writes anything about that *)
(* variant, so a handler is one action here and the locks are left out.    *)
(*                                                                         *)
(* Data.  An order, a transfer or a sale is a basket: units per variant,   *)
(* at most one line per variant.  The StockLot rows of a (store, variant)  *)
(* are abstracted to the units still open in them; their age and their     *)
(* cost are left out.  The StockMovement and StockLotConsumption tables    *)
(* are abstracted to the sums the properties read.                         *)
(***************************************************************************)
EXTENDS Integers, FiniteSets, Functions

CONSTANTS
    Stores,         \* Store rows of the tenant
    Default,        \* the one with isDefault = true
    Variants,
    Orders,         \* ids of orders that may be placed
    Transfers,      \* ids of transfers that may be drafted
    Sales,          \* event ids of transaction.completed events
    Baskets,        \* what one order, transfer or sale may ask for
    Deltas,         \* what one manual adjustment may add or remove
    SaleLocations,  \* location_id values a POS sends
    Opening,        \* quantityOnHand a variant had before stores existed
    Migrated,       \* variants whose StoreStock row the migration backfilled
    MaxAdjustments, \* bound: manual adjustments in a behaviour
    NoStore

Basket == [Variants -> Nat]

ASSUME StoresAssumption == Default \in Stores /\ NoStore \notin Stores
ASSUME FiniteAssumption ==
    IsFiniteSet(Stores) /\ IsFiniteSet(Orders) /\ IsFiniteSet(Transfers)
ASSUME BasketsAssumption == Baskets \subseteq Basket
ASSUME DeltasAssumption == Deltas \subseteq Int \ {0}
ASSUME OpeningAssumption == Opening \in Basket
ASSUME MigratedAssumption == Migrated \subseteq Variants
ASSUME MaxAdjustmentsAssumption == MaxAdjustments \in Nat

VARIABLES
    rows,        \* StoreStock: the <<store, variant>> pairs that have a row
    stock,       \* StoreStock.quantityOnHand, 0 where there is no row
    onHand,      \* Variant.quantityOnHand
    lots,        \* SUM(StockLot.quantityRemaining) of a store and variant
    order,       \* Order.status, "none" before it is placed
    lines,       \* OrderLine: units per variant
    consumed,    \* StockLotConsumption units of the order's fulfillment
    takenAt,     \* StockMovement.storeId of the order's fulfillment
    deliveries,  \* orders with a Delivery row
    transfer,    \* StockTransfer and its items
    processed,   \* ProcessedEvent: the event ids already applied
    unmatched,   \* events that left UnmatchedSaleItem rows
    sold,        \* -SUM(StockMovement.delta) with reason pos_sale
    adjusted,    \* SUM(StockMovement.delta) with reason manual_adjustment
    adjustments  \* number of manual adjustments, for the bound

ledgerVars == <<rows, stock, onHand, lots>>
orderVars == <<order, lines, consumed, takenAt, deliveries>>
saleVars == <<processed, unmatched, sold>>
adjustVars == <<adjusted, adjustments>>
vars == <<ledgerVars, orderVars, transfer, saleVars, adjustVars>>

OrderStatus == {"none", "pending", "paid", "fulfilling", "fulfilled", "cancelled"}
TransferStatus == {"none", "draft", "in_transit", "received", "cancelled"}
Transfer == [status : TransferStatus, from : Stores, to : Stores, items : Basket]
Nothing == [v \in Variants |-> 0]

TypeOK ==
    /\ rows \subseteq Stores \X Variants
    /\ stock \in [Stores -> [Variants -> Int]]
    /\ onHand \in [Variants -> Int]
    /\ lots \in [Stores -> Basket]
    /\ order \in [Orders -> OrderStatus]
    /\ lines \in [Orders -> Basket]
    /\ consumed \in [Orders -> Basket]
    /\ takenAt \in [Orders -> Stores \cup {NoStore}]
    /\ deliveries \subseteq Orders
    /\ transfer \in [Transfers -> Transfer]
    /\ processed \subseteq Sales
    /\ unmatched \subseteq Sales
    /\ sold \in [Stores -> Basket]
    /\ adjusted \in [Variants -> Int]
    /\ adjustments \in Nat

(***************************************************************************)
(* The migration left a StoreStock row at the default store for the        *)
(* variants that existed then, and no lots.  A variant outside Migrated    *)
(* has a quantity (Opening > 0: written by a script) or none (created by   *)
(* the API) and no row.                                                    *)
(***************************************************************************)
Init ==
    /\ rows = {Default} \X Migrated
    /\ stock = [s \in Stores |-> [v \in Variants |->
                  IF s = Default /\ v \in Migrated THEN Opening[v] ELSE 0]]
    /\ onHand = Opening
    /\ lots = [s \in Stores |-> Nothing]
    /\ order = [o \in Orders |-> "none"]
    /\ lines = [o \in Orders |-> Nothing]
    /\ consumed = [o \in Orders |-> Nothing]
    /\ takenAt = [o \in Orders |-> NoStore]
    /\ deliveries = {}
    /\ transfer = [t \in Transfers |->
                     [status |-> "none", from |-> Default, to |-> Default, items |-> Nothing]]
    /\ processed = {}
    /\ unmatched = {}
    /\ sold = [s \in Stores |-> Nothing]
    /\ adjusted = Nothing
    /\ adjustments = 0

-----------------------------------------------------------------------------
(***************************************************************************)
(* applyStockMovement for every line d of a basket at store s.  d[v] is    *)
(* the signed delta of variant v; 0 means that no line names v.            *)
(***************************************************************************)

\* lockStoreStockForUpdate creates a missing row lazily.  The first row of a
\* variant anywhere, if it is at the default store, takes over the aggregate.
SeedQuantity(s, v) ==
    IF s = Default /\ \A t \in Stores : <<t, v>> \notin rows THEN onHand[v] ELSE 0

Before(s, v) == IF <<s, v>> \in rows THEN stock[s][v] ELSE SeedQuantity(s, v)

\* mutant: the balance before the movement is checked
AcceptedBefore(s, d) == \A v \in Variants : d[v] # 0 => Before(s, v) >= 0

\* newStoreQuantity < 0 throws InsufficientStockError and rolls back.
Accepted(s, d) == \A v \in Variants : d[v] # 0 => Before(s, v) + d[v] >= 0

\* mutant: a drain goes below what the lots hold
LotUnitsUnbounded(s, v, d) == lots[s][v] + d

\* mutant: a drain closes the lots it opens
LotUnitsClosed(s, v, d) == IF d >= 0 THEN lots[s][v] + d ELSE 0

\* consumeFifo takes what the open lots hold and never blocks on the rest;
\* createStockLot opens a lot of d units.
LotUnits(s, v, d) ==
    IF d >= 0 THEN lots[s][v] + d
    ELSE IF lots[s][v] >= -d THEN lots[s][v] + d ELSE 0

SumOfStores(q, v) == SumFunction([s \in Stores |-> q[s][v]])

\* mutant: the aggregate is summed before the row is updated
applyStockMovementStale(s, d) ==
    /\ rows' = rows \cup {<<s, v>> : v \in {w \in Variants : d[w] # 0}}
    /\ stock' = [stock EXCEPT ![s] = [v \in Variants |->
                   IF d[v] # 0 THEN Before(s, v) + d[v] ELSE @[v]]]
    /\ onHand' = [v \in Variants |-> SumOfStores(stock, v)]
    /\ lots' = [lots EXCEPT ![s] = [v \in Variants |-> LotUnits(s, v, d[v])]]

applyStockMovement(s, d) ==
    /\ rows' = rows \cup {<<s, v>> : v \in {w \in Variants : d[w] # 0}}
    /\ stock' = [stock EXCEPT ![s] = [v \in Variants |->
                   IF d[v] # 0 THEN Before(s, v) + d[v] ELSE @[v]]]
    /\ onHand' = [v \in Variants |->
                    IF d[v] # 0 THEN SumOfStores(stock', v) ELSE onHand[v]]
    /\ lots' = [lots EXCEPT ![s] = [v \in Variants |-> LotUnits(s, v, d[v])]]

\* the deltas of a basket leaving a store; one coming in is the basket itself
Out(b) == [v \in Variants |-> -b[v]]

-----------------------------------------------------------------------------
(***************************************************************************)
(* Manual adjustment (PATCH /api/variants/[id], and the initial stock of a *)
(* new variant): one variant, at the store named or the session's store.   *)
(***************************************************************************)
AdjustStock(s, v, delta) ==
    LET d == [w \in Variants |-> IF w = v THEN delta ELSE 0] IN
    /\ adjustments < MaxAdjustments
    /\ Accepted(s, d)
    /\ applyStockMovement(s, d)
    /\ adjusted' = [adjusted EXCEPT ![v] = @ + delta]
    /\ adjustments' = adjustments + 1
    /\ UNCHANGED <<orderVars, transfer, saleVars>>

(***************************************************************************)
(* Orders.  transitionOrder moves stock at the store s of the user who     *)
(* makes the transition (params.storeId), whatever store the order or its  *)
(* earlier movements belong to.                                            *)
(***************************************************************************)
ALLOWED_TRANSITIONS ==
    { <<"pending", "paid">>, <<"pending", "cancelled">>,
      <<"paid", "fulfilling">>, <<"paid", "cancelled">>,
      <<"fulfilling", "fulfilled">>, <<"fulfilling", "cancelled">> }

canTransition(from, to) == <<from, to>> \in ALLOWED_TRANSITIONS

MoveOrder(o, to) ==
    /\ canTransition(order[o], to)
    /\ order' = [order EXCEPT ![o] = to]

PlaceOrder(o, b) ==
    /\ order[o] = "none"
    /\ order' = [order EXCEPT ![o] = "pending"]
    /\ lines' = [lines EXCEPT ![o] = b]
    /\ UNCHANGED <<ledgerVars, consumed, takenAt, deliveries, transfer, saleVars, adjustVars>>

PayOrder(o) ==
    /\ MoveOrder(o, "paid")
    /\ UNCHANGED <<ledgerVars, lines, consumed, takenAt, deliveries, transfer, saleVars, adjustVars>>

StartFulfilling(o, s) ==
    /\ MoveOrder(o, "fulfilling")
    /\ Accepted(s, Out(lines[o]))
    /\ applyStockMovement(s, Out(lines[o]))
    /\ consumed' = [consumed EXCEPT ![o] = lines[o]]
    /\ takenAt' = [takenAt EXCEPT ![o] = s]
    /\ UNCHANGED <<lines, deliveries, transfer, saleVars, adjustVars>>

FinishOrder(o) ==
    /\ MoveOrder(o, "fulfilled")
    /\ deliveries' = deliveries \cup {o}
    /\ UNCHANGED <<ledgerVars, lines, consumed, takenAt, transfer, saleVars, adjustVars>>

CancelUnfulfilled(o) ==
    /\ order[o] # "fulfilling"
    /\ MoveOrder(o, "cancelled")
    /\ UNCHANGED <<ledgerVars, lines, consumed, takenAt, deliveries, transfer, saleVars, adjustVars>>

\* deletes the consumption rows of the fulfillment, then restocks
CancelFulfilling(o, s) ==
    /\ order[o] = "fulfilling"
    /\ MoveOrder(o, "cancelled")
    /\ Accepted(s, lines[o])
    /\ applyStockMovement(s, lines[o])
    /\ consumed' = [consumed EXCEPT ![o] = Nothing]
    /\ UNCHANGED <<lines, takenAt, deliveries, transfer, saleVars, adjustVars>>

(***************************************************************************)
(* Transfers.                                                              *)
(***************************************************************************)
ALLOWED_TRANSFER_TRANSITIONS ==
    { <<"draft", "in_transit">>, <<"draft", "cancelled">>,
      <<"in_transit", "received">>, <<"in_transit", "cancelled">> }

MoveTransfer(t, to) ==
    /\ <<transfer[t].status, to>> \in ALLOWED_TRANSFER_TRANSITIONS
    /\ transfer' = [transfer EXCEPT ![t].status = to]
    /\ UNCHANGED <<orderVars, saleVars, adjustVars>>

DraftTransfer(t, from, to, b) ==
    /\ transfer[t].status = "none"
    /\ from # to
    /\ transfer' = [transfer EXCEPT ![t] =
                      [status |-> "draft", from |-> from, to |-> to, items |-> b]]
    /\ UNCHANGED <<ledgerVars, orderVars, saleVars, adjustVars>>

DispatchTransfer(t) ==
    /\ MoveTransfer(t, "in_transit")
    /\ Accepted(transfer[t].from, Out(transfer[t].items))
    /\ applyStockMovement(transfer[t].from, Out(transfer[t].items))

ReceiveTransfer(t) ==
    /\ MoveTransfer(t, "received")
    /\ Accepted(transfer[t].to, transfer[t].items)
    /\ applyStockMovement(transfer[t].to, transfer[t].items)

\* mutant: the restore of an in_transit cancellation is forgotten
CancelAnyTransfer(t) ==
    /\ MoveTransfer(t, "cancelled")
    /\ UNCHANGED ledgerVars

CancelDraftTransfer(t) ==
    /\ transfer[t].status = "draft"
    /\ MoveTransfer(t, "cancelled")
    /\ UNCHANGED ledgerVars

\* stock already left the source: put it back there
RecallTransfer(t) ==
    /\ transfer[t].status = "in_transit"
    /\ MoveTransfer(t, "cancelled")
    /\ Accepted(transfer[t].from, transfer[t].items)
    /\ applyStockMovement(transfer[t].from, transfer[t].items)

(***************************************************************************)
(* handleTransactionCompleted: the ProcessedEvent row and every decrement  *)
(* commit together; a second delivery of e violates the unique key and     *)
(* changes nothing.  An unknown location falls back to the default store.  *)
(* miss: some item matched no variant and became an UnmatchedSaleItem; b   *)
(* holds the items that matched.  The balance may go negative.             *)
(***************************************************************************)
\* the insert of the ProcessedEvent row succeeds
FirstDelivery(e) == e \notin processed

IngestSale(e, location, b, miss) ==
    LET s == IF location \in Stores THEN location ELSE Default IN
    /\ FirstDelivery(e)
    /\ processed' = processed \cup {e}
    /\ unmatched' = IF miss THEN unmatched \cup {e} ELSE unmatched
    /\ applyStockMovement(s, Out(b))
    /\ sold' = [sold EXCEPT ![s] = [v \in Variants |-> @[v] + b[v]]]
    /\ UNCHANGED <<orderVars, transfer, adjustVars>>

-----------------------------------------------------------------------------
OrderStep(o) ==
    \/ \E b \in Baskets : PlaceOrder(o, b)
    \/ PayOrder(o)
    \/ \E s \in Stores : StartFulfilling(o, s)
    \/ FinishOrder(o)
    \/ CancelUnfulfilled(o)
    \/ \E s \in Stores : CancelFulfilling(o, s)

TransferStep(t) ==
    \/ \E from, to \in Stores, b \in Baskets : DraftTransfer(t, from, to, b)
    \/ DispatchTransfer(t)
    \/ ReceiveTransfer(t)
    \/ CancelDraftTransfer(t)
    \/ RecallTransfer(t)

SaleStep(e) ==
    \E location \in SaleLocations, b \in Baskets, miss \in BOOLEAN :
        IngestSale(e, location, b, miss)

Next ==
    \/ \E s \in Stores, v \in Variants, delta \in Deltas : AdjustStock(s, v, delta)
    \/ \E o \in Orders : OrderStep(o)
    \/ \E t \in Transfers : TransferStep(t)
    \/ \E e \in Sales : SaleStep(e)

Spec == Init /\ [][Next]_vars

-----------------------------------------------------------------------------
(***************************************************************************)
(* The aggregate every single-store screen reads is the sum of the stores, *)
(* whichever handler moved stock last (inventory.ts: "Variant.             *)
(* quantityOnHand is maintained as the sum of all stores").                *)
(***************************************************************************)
AggregateIsSum ==
    \A v \in Variants :
        (\E s \in Stores : <<s, v>> \in rows) => onHand[v] = SumOfStores(stock, v)

(***************************************************************************)
(* No unit appears or disappears: what is on hand, in transit, taken by an *)
(* order being or already fulfilled, or sold by a POS adds up to the       *)
(* opening stock and the manual adjustments, across rollbacks, cancelled   *)
(* orders, recalled transfers and lazily created rows.  A variant with a   *)
(* quantity and no row is excluded: its first movement at a store other    *)
(* than the default drops the quantity.                                    *)
(***************************************************************************)
Carried(t, v) == IF transfer[t].status = "in_transit" THEN transfer[t].items[v] ELSE 0
Taken(o, v) == IF order[o] \in {"fulfilling", "fulfilled"} THEN lines[o][v] ELSE 0

InTransit(v) == SumFunction([t \in Transfers |-> Carried(t, v)])
TakenByOrders(v) == SumFunction([o \in Orders |-> Taken(o, v)])
SoldByPos(v) == SumOfStores(sold, v)

\* the migration created the variant's row, or the API created the variant
Backfilled(v) == v \in Migrated \/ Opening[v] = 0

UnitsConserved ==
    \A v \in Variants : Backfilled(v) =>
        onHand[v] + InTransit(v) + TakenByOrders(v) + SoldByPos(v)
            = Opening[v] + adjusted[v]

(***************************************************************************)
(* Only the stock that existed before lots did lacks a cost lot: at a      *)
(* store the open lots cover the balance, and at the default store they    *)
(* cover it up to the opening quantity.  So a decrement that does not      *)
(* overdraw the store is never costed at the fallback rate except from     *)
(* opening stock, and a cancellation that restocks with a fresh lot keeps  *)
(* "total lot quantity consistent with actual stock on hand" (orders.ts).  *)
(***************************************************************************)
LotsCoverStock ==
    \A s \in Stores, v \in Variants :
        stock[s][v] <= lots[s][v] + (IF s = Default THEN Opening[v] ELSE 0)

(***************************************************************************)
(* Orders, transfers and adjustments never oversell: a store's balance is  *)
(* below zero by at most what its POS sold ("stock must never go           *)
(* negative", concurrency-test.ts, for everything but POS ingestion).      *)
(***************************************************************************)
NeverOversold ==
    \A s \in Stores, v \in Variants : stock[s][v] + sold[s][v] >= 0

(***************************************************************************)
(* The COGS report counts an order's units exactly while the order holds   *)
(* them: from the start of fulfillment on, and no longer once a            *)
(* cancellation has put them back (orders.ts on double-counted COGS).      *)
(***************************************************************************)
CogsFollowsOrders ==
    \A o \in Orders :
        consumed[o] = IF order[o] \in {"fulfilling", "fulfilled"} THEN lines[o] ELSE Nothing

=============================================================================

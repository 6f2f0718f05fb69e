---------------------------- MODULE FifoCosting ----------------------------
(***************************************************************************)
(* What the units of StockLedger cost: the StockLot rows of a store and    *)
(* variant with their age and unit cost, the StockLotConsumption rows a    *)
(* drain writes, the unit cost a transfer carries, and the report over     *)
(* them.  Every handler is the one of StockLedger and what it does to lots *)
(* and costs, in the same transaction.                                     *)
(*                                                                         *)
(* Costs are whole cents, as the Decimal(12, 2) columns hold them.  The    *)
(* open lots of a store and variant are a sequence, oldest receivedAt      *)
(* first; a lot that is drained is no longer in it.  The consumption rows  *)
(* of a movement are abstracted to their sums.                             *)
(***************************************************************************)
EXTENDS StockLedger, Sequences, SequencesExt

CONSTANTS
    Costs,          \* unit costs a request may name, in cents
    InitialCost,    \* Variant.unitCost at first
    MaxReprices,    \* bound: edits of Variant.unitCost in a behaviour
    Shrink          \* key of the rows of negative manual adjustments

ASSUME CostsAssumption == Costs \subseteq Nat /\ InitialCost \in [Variants -> Nat]
\* the ids of different tables differ
ASSUME ConsumersAssumption ==
    /\ IsFiniteSet(Sales)
    /\ Orders \cap Transfers = {} /\ Orders \cap Sales = {} /\ Transfers \cap Sales = {}
    /\ Shrink \notin Orders \cup Transfers \cup Sales

VARIABLES
    open,         \* StockLot rows with quantityRemaining > 0, oldest first
    unitCost,     \* Variant.unitCost (null counts as 0)
    carried,      \* StockTransferItem.unitCost
    consumption,  \* sums of the StockLotConsumption rows, by what consumed
    reprices

costVars == <<open, unitCost, carried, consumption, reprices>>
fifoVars == <<vars, costVars>>

Consumers == Orders \cup Transfers \cup Sales \cup {Shrink}
Rows == [units : Nat, cost : Nat, missing : Nat]
NoRows == [units |-> 0, cost |-> 0, missing |-> 0]

CostTypeOK ==
    /\ open \in [Stores -> [Variants -> Seq([qty : Nat \ {0}, cost : Nat])]]
    /\ unitCost \in [Variants -> Nat]
    /\ carried \in [Transfers -> [Variants -> Nat]]
    /\ consumption \in [Consumers -> [Variants -> Rows]]

FifoInit ==
    /\ Init
    /\ open = [s \in Stores |-> [v \in Variants |-> <<>>]]
    /\ unitCost = InitialCost
    /\ carried = [t \in Transfers |-> Nothing]
    /\ consumption = [k \in Consumers |-> [v \in Variants |-> NoRows]]
    /\ reprices = 0

-----------------------------------------------------------------------------
(***************************************************************************)
(* The drain.                                                              *)
(***************************************************************************)
Least(a, b) == IF a < b THEN a ELSE b

\* mutant: a drained lot stays among the open ones
takeKeepingEmpty(drain, lot) ==
    LET take == Least(lot.qty, drain.remaining) IN
    [remaining |-> drain.remaining - take,
     cost |-> drain.cost + take * lot.cost,
     left |-> Append(drain.left, [lot EXCEPT !.qty = @ - take])]

\* one round of the loop over the locked lots
takeFromLot(drain, lot) ==
    LET take == Least(lot.qty, drain.remaining) IN
    [remaining |-> drain.remaining - take,
     cost |-> drain.cost + take * lot.cost,
     left |-> IF take = lot.qty THEN drain.left
              ELSE Append(drain.left, [lot EXCEPT !.qty = @ - take])]

\* mutant: the newest lots are drained first
consumeLifo(queue, quantity, fallback) ==
    LET d == FoldLeft(takeFromLot, [remaining |-> quantity, cost |-> 0, left |-> <<>>], Reverse(queue))
    IN [left |-> Reverse(d.left), missing |-> d.remaining, cost |-> d.cost + d.remaining * fallback]

consumeFifo(queue, quantity, fallback) ==
    LET d == FoldLeft(takeFromLot, [remaining |-> quantity, cost |-> 0, left |-> <<>>], queue)
    IN [left |-> d.left, missing |-> d.remaining, cost |-> d.cost + d.remaining * fallback]

createStockLot(queue, quantity, cost) == Append(queue, [qty |-> quantity, cost |-> cost])

(***************************************************************************)
(* The lots of store s after the movements d, and the rows they write.     *)
(* cost[v] is the cost of a lot received, and of units no lot holds.       *)
(***************************************************************************)
moveLots(s, d, cost) ==
    open' = [open EXCEPT ![s] = [v \in Variants |->
               IF d[v] > 0 THEN createStockLot(@[v], d[v], cost[v])
               ELSE IF d[v] < 0 THEN consumeFifo(@[v], -d[v], cost[v]).left
               ELSE @[v]]]

Drained(s, d, cost) ==
    [v \in Variants |->
       IF d[v] < 0
       THEN LET r == consumeFifo(open[s][v], -d[v], cost[v])
            IN [units |-> -d[v], cost |-> r.cost, missing |-> r.missing]
       ELSE NoRows]

AddRows(r, q) ==
    [v \in Variants |-> [units |-> r[v].units + q[v].units, cost |-> r[v].cost + q[v].cost,
                         missing |-> r[v].missing + q[v].missing]]

\* Math.round(cost / quantity * 100) / 100, in cents: a half is rounded up
RoundedUnitCost(cost, quantity) == IF quantity = 0 THEN 0 ELSE (2 * cost + quantity) \div (2 * quantity)

-----------------------------------------------------------------------------
\* PATCH /api/variants/[id] may edit the default cost
SetUnitCost(v, c) ==
    /\ reprices < MaxReprices
    /\ reprices' = reprices + 1
    /\ unitCost' = [unitCost EXCEPT ![v] = c]
    /\ UNCHANGED <<vars, open, carried, consumption>>

\* the request may name the unit cost, else the variant's is taken
AdjustWithCost(s, v, delta, c) ==
    LET d == [w \in Variants |-> IF w = v THEN delta ELSE 0]
        cost == [w \in Variants |-> c] IN
    /\ AdjustStock(s, v, delta)
    /\ moveLots(s, d, cost)
    /\ consumption' = [consumption EXCEPT ![Shrink] = AddRows(@, Drained(s, d, cost))]
    /\ UNCHANGED <<unitCost, carried, reprices>>

FulfilAtCost(o, s) ==
    /\ StartFulfilling(o, s)
    /\ moveLots(s, Out(lines[o]), unitCost)
    /\ consumption' = [consumption EXCEPT ![o] = Drained(s, Out(lines[o]), unitCost)]
    /\ UNCHANGED <<unitCost, carried, reprices>>

\* mutant: the consumption rows stay
RestockKeepingRows(o, s) ==
    /\ CancelFulfilling(o, s)
    /\ moveLots(s, lines[o], unitCost)
    /\ UNCHANGED <<unitCost, carried, reprices, consumption>>

\* the consumption rows of the order are deleted, its units return as one
\* fresh lot at the default cost
RestockAtCost(o, s) ==
    /\ CancelFulfilling(o, s)
    /\ moveLots(s, lines[o], unitCost)
    /\ consumption' = [consumption EXCEPT ![o] = [v \in Variants |-> NoRows]]
    /\ UNCHANGED <<unitCost, carried, reprices>>

DispatchAtCost(t) ==
    LET from == transfer[t].from
        d == Out(transfer[t].items)
        drained == Drained(from, d, unitCost) IN
    /\ DispatchTransfer(t)
    /\ moveLots(from, d, unitCost)
    /\ consumption' = [consumption EXCEPT ![t] = drained]
    /\ carried' = [carried EXCEPT ![t] = [v \in Variants |->
                     RoundedUnitCost(drained[v].cost, transfer[t].items[v])]]
    /\ UNCHANGED <<unitCost, reprices>>

\* mutant: the lot is opened at the store the transfer came from
ReceiveAtSource(t) ==
    /\ ReceiveTransfer(t)
    /\ moveLots(transfer[t].from, transfer[t].items, carried[t])
    /\ UNCHANGED <<unitCost, carried, consumption, reprices>>

ReceiveAtCost(t) ==
    /\ ReceiveTransfer(t)
    /\ moveLots(transfer[t].to, transfer[t].items, carried[t])
    /\ UNCHANGED <<unitCost, carried, consumption, reprices>>

\* mutant: the units come back at the default cost
RecallAtDefaultCost(t) ==
    /\ RecallTransfer(t)
    /\ moveLots(transfer[t].from, transfer[t].items, unitCost)
    /\ UNCHANGED <<unitCost, carried, consumption, reprices>>

RecallAtCost(t) ==
    /\ RecallTransfer(t)
    /\ moveLots(transfer[t].from, transfer[t].items, carried[t])
    /\ UNCHANGED <<unitCost, carried, consumption, reprices>>

IngestAtCost(e, location, b, miss) ==
    LET s == IF location \in Stores THEN location ELSE Default IN
    /\ IngestSale(e, location, b, miss)
    /\ moveLots(s, Out(b), unitCost)
    /\ consumption' = [consumption EXCEPT ![e] = Drained(s, Out(b), unitCost)]
    /\ UNCHANGED <<unitCost, carried, reprices>>

\* the transitions that move no stock
Unpriced ==
    /\ \/ \E o \in Orders :
            \/ \E b \in Baskets : PlaceOrder(o, b)
            \/ PayOrder(o)
            \/ FinishOrder(o)
            \/ CancelUnfulfilled(o)
       \/ \E t \in Transfers :
            \/ \E from, to \in Stores, b \in Baskets : DraftTransfer(t, from, to, b)
            \/ CancelDraftTransfer(t)
    /\ UNCHANGED costVars

FifoNext ==
    \/ \E v \in Variants, c \in Costs : SetUnitCost(v, c)
    \/ \E s \in Stores, v \in Variants, delta \in Deltas :
         \E c \in Costs \cup {unitCost[v]} : AdjustWithCost(s, v, delta, c)
    \/ \E o \in Orders, s \in Stores : FulfilAtCost(o, s) \/ RestockAtCost(o, s)
    \/ \E t \in Transfers : DispatchAtCost(t) \/ ReceiveAtCost(t) \/ RecallAtCost(t)
    \/ \E e \in Sales, location \in SaleLocations, b \in Baskets, miss \in BOOLEAN :
         IngestAtCost(e, location, b, miss)
    \/ Unpriced

FifoSpec == FifoInit /\ [][FifoNext]_fifoVars

-----------------------------------------------------------------------------
(***************************************************************************)
(* The report: every consumption row but those of transfers.               *)
(***************************************************************************)
Reported == Consumers \ Transfers

cogsUnits(v) == SumFunction([k \in Reported |-> consumption[k][v].units])
cogsCost(v) == SumFunction([k \in Reported |-> consumption[k][v].cost])

-----------------------------------------------------------------------------
\* the unit costs of the open units, oldest unit first
UnitCosts(queue) == FlattenSeq([i \in DOMAIN queue |-> [j \in 1..queue[i].qty |-> queue[i].cost]])

(***************************************************************************)
(* The lots are the totals StockLedger keeps: draining lot by lot takes    *)
(* exactly what the open lots hold, so everything shown of lots there is   *)
(* true of the rows (consumeFifo and applyStockMovement).                  *)
(***************************************************************************)
LotsAgree ==
    \A s \in Stores, v \in Variants : Len(UnitCosts(open[s][v])) = lots[s][v]

(***************************************************************************)
(* A drain takes the oldest units, whatever lots they lie in, leaves the   *)
(* younger ones in order and costs only what is missing at the fallback    *)
(* rate: consumeFifo against the definition of first in, first out, on     *)
(* every set of lots that receipts, restocks and recalls can build.        *)
(***************************************************************************)
OldestFirst ==
    \A s \in Stores, v \in Variants :
        LET units == UnitCosts(open[s][v]) IN
        \A n \in 0..(Len(units) + 1) :
            LET drain == consumeFifo(open[s][v], n, unitCost[v])
                k == Least(n, Len(units)) IN
            /\ UnitCosts(drain.left) = SubSeq(units, k + 1, Len(units))
            /\ drain.missing = n - k
            /\ drain.cost = SumFunction(SubSeq(units, 1, k)) + (n - k) * unitCost[v]

(***************************************************************************)
(* What the report counts as sold is gone, once: the units of the report,  *)
(* on hand and in transit add up to the opening stock and what was         *)
(* received, through recalled transfers and cancelled orders.              *)
(***************************************************************************)
Received(v) == adjusted[v] + consumption[Shrink][v].units

ReportedIsGone ==
    \A v \in Variants : Backfilled(v) =>
        onHand[v] + InTransit(v) + cogsUnits(v) = Opening[v] + Received(v)

(***************************************************************************)
(* Money is neither made nor lost on the way: a step that receives         *)
(* nothing, cancels no order in fulfillment and finds all its units in     *)
(* lots leaves the worth of lots, transfers under way and reported cost    *)
(* as it was, but for half a cent per unit a transfer puts in transit,     *)
(* the rounding of the carried cost (transfers.ts: "Carry the FIFO unit    *)
(* cost of the drained stock to the receipt leg").                         *)
(***************************************************************************)
LotWorth(v) == SumFunction([s \in Stores |-> SumFunction(UnitCosts(open[s][v]))])
CarriedWorth(v) == SumFunction([t \in Transfers |-> Carried(t, v) * carried[t][v]])
Worth(v) == LotWorth(v) + CarriedWorth(v) + cogsCost(v)

Missing(v) == SumFunction([k \in Consumers |-> consumption[k][v].missing])
Cancelled(o) == order[o] = "fulfilling" /\ order'[o] = "cancelled"
AllInLots(v) == adjusted'[v] <= adjusted[v] /\ (\A o \in Orders : ~ Cancelled(o)) /\ Missing(v)' = Missing(v)
Dispatched(v) == IF InTransit(v)' > InTransit(v) THEN InTransit(v)' - InTransit(v) ELSE 0

ValueKept ==
    [][\A v \in Variants : AllInLots(v) =>
         2 * (Worth(v)' - Worth(v)) \in -Dispatched(v)..Dispatched(v)]_fifoVars
=============================================================================

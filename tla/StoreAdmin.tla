----------------------------- MODULE StoreAdmin -----------------------------
(***************************************************************************)
(* Stores come and go while stock moves: the stores API of grit-inventory  *)
(* over the handlers of StockLedger.                                       *)
(*                                                                         *)
(* DELETE counts the stocked rows first and deletes later, in another      *)
(* transaction.  What stops that one are the foreign keys: StockLot and    *)
(* StockTransfer restrict, every other reference is set to null.  A lot    *)
(* row stays when it is drained.                                           *)
(***************************************************************************)
EXTENDS StockLedger

VARIABLES
    life,     \* "unborn", "live" or "deleted"; an id is used once
    lotted,   \* stores a StockLot row names
    deleting  \* stores whose DELETE request has counted no stock

adminVars == <<life, lotted, deleting>>
storeVars == <<vars, adminVars>>

Live == {s \in Stores : life[s] = "live"}

AdminTypeOK ==
    /\ TypeOK
    /\ life \in [Stores -> {"unborn", "live", "deleted"}]
    /\ lotted \subseteq Stores
    /\ deleting \subseteq Stores \ {Default}

AdminInit ==
    /\ Init
    /\ life = [s \in Stores |-> IF s = Default THEN "live" ELSE "unborn"]
    /\ lotted = {}
    /\ deleting = {}

-----------------------------------------------------------------------------
CreateStore(s) ==
    /\ life[s] = "unborn"
    /\ life' = [life EXCEPT ![s] = "live"]
    /\ UNCHANGED <<vars, lotted, deleting>>

\* the count of rows with quantityOnHand > 0
Stocked(s) == \E v \in Variants : stock[s][v] > 0

CheckDelete(s) ==
    /\ s \in Live \ {Default}
    /\ ~ Stocked(s)
    /\ deleting' = deleting \cup {s}
    /\ UNCHANGED <<vars, life, lotted>>

OnTransfer(s) ==
    \E t \in Transfers : transfer[t].status # "none" /\ s \in {transfer[t].from, transfer[t].to}

\* mutant: the lots are deleted with the store
RestrictedByTransfers(s) == OnTransfer(s)

\* mutant: the transfers are deleted with the store
RestrictedByLots(s) == s \in lotted

\* ON DELETE RESTRICT
Restricted(s) == s \in lotted \/ OnTransfer(s)

\* deletes the StoreStock rows and the store; Variant is not touched
DeleteStore(s) ==
    /\ s \in deleting \cap Live
    /\ ~ Restricted(s)
    /\ deleting' = deleting \ {s}
    /\ life' = [life EXCEPT ![s] = "deleted"]
    /\ rows' = rows \ ({s} \X Variants)
    /\ stock' = [stock EXCEPT ![s] = Nothing]
    /\ takenAt' = [o \in Orders |-> IF takenAt[o] = s THEN NoStore ELSE takenAt[o]]
    /\ UNCHANGED <<onHand, lots, order, lines, consumed, deliveries, transfer, saleVars,
                   adjustVars, lotted>>

\* P2003 rolls the deletion of the rows back; 409
RefuseDelete(s) ==
    /\ s \in deleting
    /\ s \notin Live \/ Restricted(s)
    /\ deleting' = deleting \ {s}
    /\ UNCHANGED <<vars, life, lotted>>

(***************************************************************************)
(* The handlers of the ledger find live stores only (resolveStore throws,  *)
(* a foreign key fails); a sale whose location is gone falls back to the   *)
(* default store.                                                          *)
(***************************************************************************)
LedgerStep ==
    \/ \E s \in Live, v \in Variants, delta \in Deltas : AdjustStock(s, v, delta)
    \/ \E o \in Orders :
         \/ \E b \in Baskets : PlaceOrder(o, b)
         \/ PayOrder(o)
         \/ \E s \in Live : StartFulfilling(o, s)
         \/ FinishOrder(o)
         \/ CancelUnfulfilled(o)
         \/ \E s \in Live : CancelFulfilling(o, s)
    \/ \E t \in Transfers :
         \/ \E from, to \in Live, b \in Baskets : DraftTransfer(t, from, to, b)
         \/ transfer[t].from \in Live /\ DispatchTransfer(t)
         \/ transfer[t].to \in Live /\ ReceiveTransfer(t)
         \/ CancelDraftTransfer(t)
         \/ transfer[t].from \in Live /\ RecallTransfer(t)
    \/ \E e \in Sales, location \in SaleLocations, b \in Baskets, miss \in BOOLEAN :
         IngestSale(e, IF location \in Live THEN location ELSE NoStore, b, miss)

Moved ==
    /\ LedgerStep
    /\ lotted' = lotted \cup {s \in Stores : \E v \in Variants : lots'[s][v] > lots[s][v]}
    /\ UNCHANGED <<life, deleting>>

AdminNext ==
    \/ \E s \in Stores : CreateStore(s) \/ CheckDelete(s) \/ DeleteStore(s) \/ RefuseDelete(s)
    \/ Moved

AdminSpec == AdminInit /\ [][AdminNext]_storeVars

-----------------------------------------------------------------------------
(***************************************************************************)
(* A store is deleted only when "no transfer history references" it        *)
(* (stores/[id]/route.ts): a transfer that is drafted or under way can     *)
(* always be dispatched, received or recalled.                             *)
(***************************************************************************)
TransfersHaveStores ==
    \A t \in Transfers : transfer[t].status # "none" => {transfer[t].from, transfer[t].to} \subseteq Live

(***************************************************************************)
(* No units are deleted with a store, although they are counted in an      *)
(* earlier transaction than the one that deletes: as long as no store is   *)
(* deleted where a POS sold units, the aggregate stays the sum of the      *)
(* stores and units stay conserved.  A store whose POS sold units it never *)
(* received is counted as empty at a balance below zero.                   *)
(***************************************************************************)
Unsold == \A s \in Stores : life[s] = "deleted" => sold[s] = Nothing

AggregateSurvives == Unsold => AggregateIsSum

UnitsSurvive == Unsold => UnitsConserved

(***************************************************************************)
(* A store's balance is below zero by at most what its POS sold; only the  *)
(* default store may take over, with the aggregate its row is created      *)
(* from, what POSes sold at stores deleted since ("stock must never go     *)
(* negative", concurrency-test.ts, for everything but POS ingestion).      *)
(***************************************************************************)
SoldWhereDeleted(v) == SumFunction([s \in Stores |-> IF life[s] = "deleted" THEN sold[s][v] ELSE 0])

DebtIsSold ==
    \A s \in Stores, v \in Variants :
        stock[s][v] + sold[s][v] + (IF s = Default THEN SoldWhereDeleted(v) ELSE 0) >= 0
=============================================================================

------------------------- MODULE StockLedgerProofs -------------------------
(***************************************************************************)
(* Proofs about StockLedger for any number of stores, variants, orders,    *)
(* transfers and sales, about StoreAdmin, in which stores are created and  *)
(* deleted, and about FifoCosting, for lots of any number, age and cost.   *)
(***************************************************************************)
EXTENDS StoreAdmin, FifoCosting, SumTheorems

\* A (store, variant) without a StoreStock row holds nothing.
NoRowNoStock ==
    \A s \in Stores, v \in Variants : <<s, v>> \notin rows => stock[s][v] = 0

\* The aggregate is untouched until the first row of the variant exists.
AggregateBeforeRows ==
    \A v \in Variants :
        (\A s \in Stores : <<s, v>> \notin rows) => onHand[v] = Opening[v]

\* The row the migration wrote stays.
MigratedRows == \A v \in Migrated : <<Default, v>> \in rows

LedgerInv ==
    /\ NoRowNoStock
    /\ AggregateBeforeRows
    /\ MigratedRows
    /\ AggregateIsSum

IInv ==
    /\ TypeOK
    /\ LedgerInv
    /\ LotsCoverStock
    /\ NeverOversold
    /\ CogsFollowsOrders
    /\ UnitsConserved

-----------------------------------------------------------------------------
(***************************************************************************)
(* Sums over the stores.                                                   *)
(***************************************************************************)
Quantities == [Stores -> [Variants -> Int]]

LEMMA SumOfStoresType ==
    ASSUME NEW q \in Quantities, NEW v \in Variants
    PROVE  SumOfStores(q, v) \in Int
<1>1. [s \in Stores |-> q[s][v]] \in [Stores -> Int]
  BY DEF Quantities
<1> QED BY <1>1, SumType, FiniteAssumption DEF SumOfStores

LEMMA SumOfStoresZero ==
    ASSUME NEW q \in Quantities, NEW v \in Variants, \A s \in Stores : q[s][v] = 0
    PROVE  SumOfStores(q, v) = 0
<1> DEFINE w == [s \in Stores |-> q[s][v]]
<1>1. w \in [Stores -> Int] /\ \A s \in Stores : w[s] = 0
  BY DEF Quantities
<1> HIDE DEF w
<1>2. SumFunction(w) = w[Default]
  BY <1>1, SumSingle, FiniteAssumption, StoresAssumption
<1> QED BY <1>1, <1>2, StoresAssumption DEF SumOfStores, w

LEMMA SumOfStoresSame ==
    ASSUME NEW q \in Quantities, NEW r \in Quantities, NEW v \in Variants,
           \A s \in Stores : r[s][v] = q[s][v]
    PROVE  SumOfStores(r, v) = SumOfStores(q, v)
<1>1. [s \in Stores |-> r[s][v]] = [s \in Stores |-> q[s][v]]
  OBVIOUS
<1> QED BY <1>1 DEF SumOfStores

LEMMA SumOfStoresChange ==
    ASSUME NEW q \in Quantities, NEW r \in Quantities, NEW v \in Variants, NEW s \in Stores,
           \A t \in Stores : t # s => r[t][v] = q[t][v]
    PROVE  SumOfStores(r, v) = SumOfStores(q, v) + (r[s][v] - q[s][v])
<1> DEFINE u == [t \in Stores |-> q[t][v]]
           w == [t \in Stores |-> r[t][v]]
<1>1. /\ u \in [Stores -> Int] /\ w \in [Stores -> Int]
      /\ \A t \in Stores : t # s => w[t] = u[t]
      /\ u[s] = q[s][v] /\ w[s] = r[s][v]
  BY DEF Quantities
<1> HIDE DEF u, w
<1>2. SumFunction(w) = SumFunction(u) + (w[s] - u[s])
  BY <1>1, SumChange, FiniteAssumption
<1> QED BY <1>1, <1>2 DEF SumOfStores, u, w
-----------------------------------------------------------------------------
(***************************************************************************)
(* What a movement reads.                                                  *)
(***************************************************************************)

\* A row that is created on the way starts at the quantity it stood for.
LEMMA BeforeBackfilled ==
    ASSUME TypeOK, LedgerInv, NEW s \in Stores, NEW v \in Variants, Backfilled(v)
    PROVE  Before(s, v) = stock[s][v] /\ onHand[v] = SumOfStores(stock, v)
<1>1. CASE \E t \in Stores : <<t, v>> \in rows
  <2>1. onHand[v] = SumOfStores(stock, v)
    BY <1>1 DEF LedgerInv, AggregateIsSum
  <2>2. Before(s, v) = stock[s][v]
    BY <1>1 DEF LedgerInv, NoRowNoStock, Before, SeedQuantity
  <2> QED BY <2>1, <2>2
<1>2. CASE \A t \in Stores : <<t, v>> \notin rows
  <2>1. v \notin Migrated /\ onHand[v] = Opening[v]
    BY <1>2, StoresAssumption DEF LedgerInv, MigratedRows, AggregateBeforeRows
  <2>2. onHand[v] = 0
    BY <2>1 DEF Backfilled
  <2>3. \A t \in Stores : stock[t][v] = 0
    BY <1>2 DEF LedgerInv, NoRowNoStock
  <2>4. SumOfStores(stock, v) = 0
    BY <2>3, SumOfStoresZero DEF TypeOK, Quantities
  <2> QED BY <1>2, <2>2, <2>3, <2>4 DEF Before, SeedQuantity
<1> QED BY <1>1, <1>2

\* The balance a movement starts from is the stock of the row, or the opening
\* stock where the first row of the variant is created at the default store.
LEMMA BeforeIsStockOrOpening ==
    ASSUME TypeOK, LedgerInv, NEW s \in Stores, NEW v \in Variants
    PROVE  /\ Before(s, v) \in Int
           /\ \/ Before(s, v) = stock[s][v]
              \/ s = Default /\ stock[s][v] = 0 /\ Before(s, v) = Opening[v]
<1>0. stock[s][v] \in Int /\ onHand[v] \in Int
  BY DEF TypeOK
<1>1. CASE <<s, v>> \in rows
  BY <1>0, <1>1 DEF Before
<1>2. CASE <<s, v>> \notin rows
  <2>1. stock[s][v] = 0
    BY <1>2 DEF LedgerInv, NoRowNoStock
  <2>2. CASE s = Default /\ \A t \in Stores : <<t, v>> \notin rows
    <3>1. onHand[v] = Opening[v]
      BY <2>2 DEF LedgerInv, AggregateBeforeRows
    <3> QED BY <1>0, <1>2, <2>1, <2>2, <3>1 DEF Before, SeedQuantity
  <2>3. CASE ~ (s = Default /\ \A t \in Stores : <<t, v>> \notin rows)
    BY <1>2, <2>1, <2>3 DEF Before, SeedQuantity
  <2> QED BY <2>2, <2>3
<1> QED BY <1>1, <1>2

LEMMA LotUnitsType ==
    ASSUME TypeOK, NEW s \in Stores, NEW v \in Variants, NEW d \in Int
    PROVE  LotUnits(s, v, d) \in Nat /\ LotUnits(s, v, d) >= lots[s][v] + d
<1>1. lots[s][v] \in Nat
  BY DEF TypeOK, Basket
<1> QED BY <1>1 DEF LotUnits

LEMMA BeforeType ==
    ASSUME TypeOK, NEW s \in Stores, NEW v \in Variants
    PROVE  Before(s, v) \in Int
BY DEF TypeOK, Before, SeedQuantity

-----------------------------------------------------------------------------
(***************************************************************************)
(* What a movement does.                                                   *)
(***************************************************************************)
Movement == [Variants -> Int]

LEMMA MovementStock ==
    ASSUME TypeOK, NEW s \in Stores, NEW d \in Movement, applyStockMovement(s, d)
    PROVE  /\ stock' \in Quantities
           /\ \A t \in Stores, v \in Variants : t # s => stock'[t][v] = stock[t][v]
           /\ \A v \in Variants : d[v] = 0 => stock'[s][v] = stock[s][v]
           /\ \A v \in Variants : d[v] # 0 => stock'[s][v] = Before(s, v) + d[v]
<1> DEFINE row == [v \in Variants |-> IF d[v] # 0 THEN Before(s, v) + d[v] ELSE stock[s][v]]
<1>1. stock \in Quantities
  BY DEF TypeOK, Quantities
<1>2. row \in [Variants -> Int]
  BY <1>1, BeforeType DEF Quantities, Movement
<1>3. stock' = [stock EXCEPT ![s] = row]
  BY DEF applyStockMovement
<1>4. stock'[s] = row /\ \A t \in Stores : t # s => stock'[t] = stock[t]
  BY <1>1, <1>3 DEF Quantities
<1> HIDE DEF row
<1>5. stock' \in Quantities
  BY <1>1, <1>2, <1>3 DEF Quantities
<1> USE DEF row
<1> QED BY <1>4, <1>5

LEMMA MovementLots ==
    ASSUME TypeOK, NEW s \in Stores, NEW d \in Movement, applyStockMovement(s, d)
    PROVE  /\ lots' \in [Stores -> Basket]
           /\ \A t \in Stores : t # s => lots'[t] = lots[t]
           /\ \A v \in Variants : lots'[s][v] = LotUnits(s, v, d[v])
<1> DEFINE units == [v \in Variants |-> LotUnits(s, v, d[v])]
<1>1. lots \in [Stores -> Basket]
  BY DEF TypeOK
<1>2. units \in Basket
  BY LotUnitsType DEF Movement, Basket
<1>3. lots' = [lots EXCEPT ![s] = units]
  BY DEF applyStockMovement
<1>4. lots'[s] = units /\ \A t \in Stores : t # s => lots'[t] = lots[t]
  BY <1>1, <1>3
<1> HIDE DEF units
<1>5. lots' \in [Stores -> Basket]
  BY <1>1, <1>2, <1>3
<1> USE DEF units
<1> QED BY <1>4, <1>5

LEMMA MovementTypes ==
    ASSUME TypeOK, NEW s \in Stores, NEW d \in Movement, applyStockMovement(s, d)
    PROVE  /\ rows' \subseteq Stores \X Variants
           /\ stock' \in [Stores -> [Variants -> Int]]
           /\ onHand' \in [Variants -> Int]
           /\ lots' \in [Stores -> Basket]
<1>1. rows' \subseteq Stores \X Variants
  BY DEF applyStockMovement, TypeOK
<1>2. stock' \in Quantities
  BY MovementStock
<1>3. \A v \in Variants : SumOfStores(stock', v) \in Int
  BY <1>2, SumOfStoresType
<1>4. onHand' \in [Variants -> Int]
  BY <1>3 DEF applyStockMovement, TypeOK
<1> QED BY <1>1, <1>2, <1>4, MovementLots DEF Quantities

LEMMA MovementLedger ==
    ASSUME TypeOK, LedgerInv, NEW s \in Stores, NEW d \in Movement, applyStockMovement(s, d)
    PROVE  LedgerInv'
<1>1. /\ \A t \in Stores, v \in Variants : <<t, v>> \in rows' <=> <<t, v>> \in rows \/ (t = s /\ d[v] # 0)
      /\ rows \subseteq rows'
  BY DEF applyStockMovement
<1>2. \A v \in Variants : onHand'[v] = IF d[v] # 0 THEN SumOfStores(stock', v) ELSE onHand[v]
  BY DEF applyStockMovement
<1>3. NoRowNoStock'
  BY <1>1, MovementStock DEF LedgerInv, NoRowNoStock
<1>4. AggregateBeforeRows'
  BY <1>1, <1>2 DEF LedgerInv, AggregateBeforeRows
<1>5. MigratedRows'
  BY <1>1 DEF LedgerInv, MigratedRows
<1>6. ASSUME NEW v \in Variants, \E t \in Stores : <<t, v>> \in rows'
      PROVE  onHand'[v] = SumOfStores(stock', v)
  <2>1. CASE d[v] # 0
    BY <1>2, <2>1
  <2>2. CASE d[v] = 0
    <3>1. onHand[v] = SumOfStores(stock, v)
      BY <1>1, <1>6, <2>2 DEF LedgerInv, AggregateIsSum
    <3>2. stock' \in Quantities /\ stock \in Quantities
      BY MovementStock DEF TypeOK, Quantities
    <3>3. \A t \in Stores : stock'[t][v] = stock[t][v]
      BY <2>2, MovementStock
    <3>4. SumOfStores(stock', v) = SumOfStores(stock, v)
      BY <3>2, <3>3, SumOfStoresSame
    <3> QED BY <1>2, <2>2, <3>1, <3>4
  <2> QED BY <2>1, <2>2
<1>7. AggregateIsSum'
  BY <1>6 DEF AggregateIsSum
<1> QED BY <1>3, <1>4, <1>5, <1>7 DEF LedgerInv

\* A movement changes the aggregate of a backfilled variant by its delta.
LEMMA MovementTotal ==
    ASSUME TypeOK, LedgerInv, NEW s \in Stores, NEW d \in Movement, applyStockMovement(s, d),
           NEW v \in Variants, Backfilled(v)
    PROVE  onHand'[v] = onHand[v] + d[v]
<1>1. stock' \in Quantities /\ stock \in Quantities
  BY MovementStock DEF TypeOK, Quantities
<1>2. Before(s, v) = stock[s][v] /\ onHand[v] = SumOfStores(stock, v)
  BY BeforeBackfilled
<1>3. SumOfStores(stock, v) \in Int /\ stock[s][v] \in Int /\ d[v] \in Int
  BY <1>1, SumOfStoresType DEF Quantities, Movement
<1>4. CASE d[v] # 0
  <2>1. stock'[s][v] = stock[s][v] + d[v]
    BY <1>2, <1>4, MovementStock
  <2>2. SumOfStores(stock', v) = SumOfStores(stock, v) + (stock'[s][v] - stock[s][v])
    BY <1>1, MovementStock, SumOfStoresChange
  <2>3. onHand'[v] = SumOfStores(stock', v)
    BY <1>4 DEF applyStockMovement
  <2> QED BY <1>2, <1>3, <2>1, <2>2, <2>3
<1>5. CASE d[v] = 0
  BY <1>2, <1>3, <1>5 DEF applyStockMovement
<1> QED BY <1>4, <1>5

LEMMA MovementCover ==
    ASSUME TypeOK, LedgerInv, LotsCoverStock, NEW s \in Stores, NEW d \in Movement,
           applyStockMovement(s, d)
    PROVE  LotsCoverStock'
<1> SUFFICES ASSUME NEW t \in Stores, NEW v \in Variants
             PROVE  stock'[t][v] <= lots'[t][v] + (IF t = Default THEN Opening[v] ELSE 0)
  BY DEF LotsCoverStock
<1>1. stock[t][v] <= lots[t][v] + (IF t = Default THEN Opening[v] ELSE 0)
  BY DEF LotsCoverStock
<1>2. CASE t # s
  BY <1>1, <1>2, MovementStock, MovementLots
<1>3. CASE t = s
  <2>1. /\ stock[s][v] \in Int /\ lots[s][v] \in Nat /\ d[v] \in Int /\ Opening[v] \in Nat
    BY OpeningAssumption DEF TypeOK, Basket, Movement
  <2>2. lots'[s][v] \in Int /\ lots'[s][v] >= lots[s][v] + d[v]
    BY <2>1, MovementLots, LotUnitsType
  <2>3. stock'[s][v] = stock[s][v] + d[v]
        \/ (s = Default /\ stock'[s][v] = Opening[v] + d[v])
    BY <2>1, MovementStock, BeforeIsStockOrOpening
  <2> QED BY <1>1, <1>3, <2>1, <2>2, <2>3
<1> QED BY <1>2, <1>3

\* A movement the guard accepts leaves no new debt.
LEMMA MovementAccepted ==
    ASSUME TypeOK, LedgerInv, NeverOversold, NEW s \in Stores, NEW d \in Movement,
           Accepted(s, d), applyStockMovement(s, d), sold' = sold
    PROVE  NeverOversold'
<1> SUFFICES ASSUME NEW t \in Stores, NEW v \in Variants
             PROVE  stock'[t][v] + sold[t][v] >= 0
  BY DEF NeverOversold
<1>1. stock[t][v] + sold[t][v] >= 0 /\ stock[t][v] \in Int /\ sold[t][v] \in Nat
  BY DEF NeverOversold, TypeOK, Basket
<1>2. CASE t # s \/ d[v] = 0
  BY <1>1, <1>2, MovementStock
<1>3. CASE t = s /\ d[v] # 0
  <2>1. stock'[t][v] = Before(s, v) + d[v] /\ Before(s, v) + d[v] >= 0
    BY <1>3, MovementStock DEF Accepted
  <2>2. Before(s, v) + d[v] \in Int
    BY BeforeIsStockOrOpening DEF Movement
  <2> QED BY <1>1, <2>1, <2>2
<1> QED BY <1>2, <1>3
-----------------------------------------------------------------------------
(***************************************************************************)
(* The sums of UnitsConserved: their types, and how one order, transfer or *)
(* sale changes them.                                                      *)
(***************************************************************************)
LEMMA OpeningType == \A v \in Variants : Opening[v] \in Nat
BY OpeningAssumption DEF Basket

LEMMA SumsType ==
    ASSUME TypeOK, NEW v \in Variants
    PROVE  InTransit(v) \in Int /\ TakenByOrders(v) \in Int /\ SoldByPos(v) \in Int
<1>1. [t \in Transfers |-> Carried(t, v)] \in [Transfers -> Int]
  BY DEF TypeOK, Transfer, Basket, Carried
<1>2. [o \in Orders |-> Taken(o, v)] \in [Orders -> Int]
  BY DEF TypeOK, Basket, Taken
<1>3. sold \in Quantities
  BY DEF TypeOK, Basket, Quantities
<1> QED
  BY <1>1, <1>2, <1>3, SumType, SumOfStoresType, FiniteAssumption
     DEF InTransit, TakenByOrders, SoldByPos

LEMMA InTransitChange ==
    ASSUME TypeOK, TypeOK', NEW t \in Transfers, NEW v \in Variants,
           \A u \in Transfers : u # t => transfer'[u] = transfer[u]
    PROVE  InTransit(v)' = InTransit(v) + (Carried(t, v)' - Carried(t, v))
<1> DEFINE f == [u \in Transfers |-> Carried(u, v)]
           g == [u \in Transfers |-> Carried(u, v)']
<1>1. f \in [Transfers -> Int] /\ g \in [Transfers -> Int]
  BY DEF TypeOK, Transfer, Basket, Carried
<1>2. \A u \in Transfers : u # t => g[u] = f[u]
  BY DEF Carried
<1>3. InTransit(v) = SumFunction(f) /\ InTransit(v)' = SumFunction(g)
  BY DEF InTransit
<1>4. f[t] = Carried(t, v) /\ g[t] = Carried(t, v)'
  OBVIOUS
<1> HIDE DEF f, g
<1>5. SumFunction(g) = SumFunction(f) + (g[t] - f[t])
  BY <1>1, <1>2, SumChange, FiniteAssumption
<1> QED BY <1>3, <1>4, <1>5

LEMMA TakenChange ==
    ASSUME TypeOK, TypeOK', NEW o \in Orders, NEW v \in Variants,
           \A u \in Orders : u # o => order'[u] = order[u] /\ lines'[u] = lines[u]
    PROVE  TakenByOrders(v)' = TakenByOrders(v) + (Taken(o, v)' - Taken(o, v))
<1> DEFINE f == [u \in Orders |-> Taken(u, v)]
           g == [u \in Orders |-> Taken(u, v)']
<1>1. f \in [Orders -> Int] /\ g \in [Orders -> Int]
  BY DEF TypeOK, Basket, Taken
<1>2. \A u \in Orders : u # o => g[u] = f[u]
  BY DEF Taken
<1>3. TakenByOrders(v) = SumFunction(f) /\ TakenByOrders(v)' = SumFunction(g)
  BY DEF TakenByOrders
<1>4. f[o] = Taken(o, v) /\ g[o] = Taken(o, v)'
  OBVIOUS
<1> HIDE DEF f, g
<1>5. SumFunction(g) = SumFunction(f) + (g[o] - f[o])
  BY <1>1, <1>2, SumChange, FiniteAssumption
<1> QED BY <1>3, <1>4, <1>5

LEMMA SumsUnchanged ==
    ASSUME NEW v \in Variants
    PROVE  /\ UNCHANGED transfer => InTransit(v)' = InTransit(v)
           /\ UNCHANGED <<order, lines>> => TakenByOrders(v)' = TakenByOrders(v)
           /\ UNCHANGED sold => SoldByPos(v)' = SoldByPos(v)
BY DEF InTransit, Carried, TakenByOrders, Taken, SoldByPos

LEMMA LedgerUnchanged ==
    ASSUME LedgerInv, LotsCoverStock, UNCHANGED ledgerVars
    PROVE  LedgerInv' /\ LotsCoverStock'
BY DEF LedgerInv, LotsCoverStock, ledgerVars, NoRowNoStock, AggregateBeforeRows, MigratedRows,
       AggregateIsSum

\* An order that moves no stock.
LEMMA OrderOnly ==
    ASSUME IInv, TypeOK', NEW o \in Orders,
           \A u \in Orders : u # o => order'[u] = order[u] /\ lines'[u] = lines[u],
           \A v \in Variants : Taken(o, v)' = Taken(o, v),
           UNCHANGED <<ledgerVars, transfer, saleVars, adjustVars>>, CogsFollowsOrders'
    PROVE  IInv'
<1>1. LedgerInv' /\ LotsCoverStock'
  BY LedgerUnchanged DEF IInv
<1>2. NeverOversold'
  BY DEF IInv, NeverOversold, ledgerVars, saleVars
<1>3. ASSUME NEW v \in Variants, Backfilled(v)
      PROVE  onHand'[v] + InTransit(v)' + TakenByOrders(v)' + SoldByPos(v)' = Opening[v] + adjusted'[v]
  <2>1. TakenByOrders(v)' = TakenByOrders(v) + (Taken(o, v)' - Taken(o, v))
    BY TakenChange DEF IInv
  <2>2. Taken(o, v) \in Int
    BY DEF IInv, TypeOK, Basket, Taken
  <2>3. TakenByOrders(v)' = TakenByOrders(v)
    BY <2>1, <2>2, SumsType DEF IInv
  <2>4. InTransit(v)' = InTransit(v) /\ SoldByPos(v)' = SoldByPos(v)
    BY SumsUnchanged DEF saleVars
  <2> QED BY <1>3, <2>3, <2>4 DEF IInv, UnitsConserved, ledgerVars, adjustVars
<1>4. UnitsConserved'
  BY <1>3 DEF UnitsConserved, Backfilled
<1> QED BY <1>1, <1>2, <1>4 DEF IInv

-----------------------------------------------------------------------------
(***************************************************************************)
(* The invariant holds initially and every action preserves it.            *)
(***************************************************************************)
LEMMA NothingType == Nothing \in Basket /\ \A v \in Variants : Nothing[v] = 0
BY DEF Nothing, Basket

LEMMA InitInv == Init => IInv
<1> SUFFICES ASSUME Init PROVE IInv
  OBVIOUS
<1>1. TypeOK
  BY NothingType, StoresAssumption, OpeningAssumption, MigratedAssumption
     DEF Init, TypeOK, OrderStatus, TransferStatus, Transfer, Basket
<1>2. stock \in Quantities /\ Default \in Stores
  BY <1>1, StoresAssumption DEF TypeOK, Quantities
<1>3. NoRowNoStock /\ AggregateBeforeRows /\ MigratedRows
  BY StoresAssumption DEF Init, NoRowNoStock, AggregateBeforeRows, MigratedRows
<1>4. AggregateIsSum
  <2> SUFFICES ASSUME NEW v \in Variants, \E s \in Stores : <<s, v>> \in rows
               PROVE  onHand[v] = SumOfStores(stock, v)
    BY DEF AggregateIsSum
  <2>1. v \in Migrated
    BY DEF Init
  <2> DEFINE w == [s \in Stores |-> stock[s][v]]
  <2>2. w \in [Stores -> Int] /\ w[Default] = Opening[v] /\ \A s \in Stores : s # Default => w[s] = 0
    BY <1>2, <2>1 DEF Init, Quantities
  <2>3. SumOfStores(stock, v) = SumFunction(w)
    BY DEF SumOfStores
  <2> HIDE DEF w
  <2>4. SumFunction(w) = w[Default]
    BY <1>2, <2>2, SumSingle, FiniteAssumption
  <2> QED BY <2>2, <2>3, <2>4 DEF Init
<1>5. LotsCoverStock
  BY OpeningType, NothingType DEF Init, LotsCoverStock
<1>6. NeverOversold
  BY OpeningType, NothingType DEF Init, NeverOversold
<1>7. CogsFollowsOrders
  BY DEF Init, CogsFollowsOrders
<1>8. UnitsConserved
  <2> SUFFICES ASSUME NEW v \in Variants
               PROVE  onHand[v] + InTransit(v) + TakenByOrders(v) + SoldByPos(v)
                        = Opening[v] + adjusted[v]
    BY DEF UnitsConserved
  <2>1. [t \in Transfers |-> Carried(t, v)] = [t \in Transfers |-> 0]
    BY DEF Init, Carried
  <2>2. [o \in Orders |-> Taken(o, v)] = [o \in Orders |-> 0]
    BY DEF Init, Taken
  <2>3. InTransit(v) = 0
    BY <2>1, SumZero, FiniteAssumption DEF InTransit
  <2>4. TakenByOrders(v) = 0
    BY <2>2, SumZero, FiniteAssumption DEF TakenByOrders
  <2>5. SoldByPos(v) = 0
    <3>1. sold \in Quantities /\ \A s \in Stores : sold[s][v] = 0
      BY <1>1, NothingType DEF Init, TypeOK, Basket, Quantities
    <3> QED BY <3>1, SumOfStoresZero DEF SoldByPos
  <2> QED BY <2>3, <2>4, <2>5, OpeningType, NothingType DEF Init
<1> QED BY <1>1, <1>3, <1>4, <1>5, <1>6, <1>7, <1>8 DEF IInv, LedgerInv

LEMMA AdjustStockInv ==
    ASSUME IInv, NEW s \in Stores, NEW v \in Variants, NEW delta \in Deltas, AdjustStock(s, v, delta)
    PROVE  IInv'
<1> DEFINE d == [w \in Variants |-> IF w = v THEN delta ELSE 0]
<1>1. delta \in Int
  BY DeltasAssumption
<1>2. d \in Movement /\ \A w \in Variants : d[w] = IF w = v THEN delta ELSE 0
  BY <1>1 DEF Movement
<1>3. /\ Accepted(s, d) /\ applyStockMovement(s, d)
      /\ adjusted' = [adjusted EXCEPT ![v] = @ + delta] /\ adjustments' = adjustments + 1
      /\ UNCHANGED <<orderVars, transfer, saleVars>>
  BY DEF AdjustStock
<1> HIDE DEF d
<1>4. TypeOK /\ LedgerInv /\ LotsCoverStock /\ NeverOversold /\ CogsFollowsOrders
  BY DEF IInv
<1>5. TypeOK'
  BY <1>1, <1>2, <1>3, <1>4, MovementTypes DEF TypeOK, orderVars, saleVars
<1>6. LedgerInv' /\ LotsCoverStock'
  BY <1>2, <1>3, <1>4, MovementLedger, MovementCover
<1>7. NeverOversold'
  BY <1>2, <1>3, <1>4, MovementAccepted DEF saleVars
<1>8. CogsFollowsOrders'
  BY <1>3, <1>4 DEF CogsFollowsOrders, orderVars
<1>9. ASSUME NEW w \in Variants, Backfilled(w)
      PROVE  onHand'[w] + InTransit(w)' + TakenByOrders(w)' + SoldByPos(w)' = Opening[w] + adjusted'[w]
  <2>1. onHand'[w] = onHand[w] + d[w]
    BY <1>2, <1>3, <1>4, <1>9, MovementTotal
  <2>2. adjusted'[w] = adjusted[w] + d[w]
    BY <1>1, <1>2, <1>3, <1>4 DEF TypeOK
  <2>3. onHand[w] + InTransit(w) + TakenByOrders(w) + SoldByPos(w) = Opening[w] + adjusted[w]
    BY <1>9 DEF IInv, UnitsConserved
  <2>4. InTransit(w)' = InTransit(w) /\ TakenByOrders(w)' = TakenByOrders(w) /\ SoldByPos(w)' = SoldByPos(w)
    BY <1>3, SumsUnchanged DEF orderVars, saleVars
  <2>5. onHand[w] \in Int /\ adjusted[w] \in Int /\ d[w] \in Int /\ Opening[w] \in Int
    BY <1>2, <1>4, OpeningType DEF TypeOK, Movement
  <2>6. InTransit(w) \in Int /\ TakenByOrders(w) \in Int /\ SoldByPos(w) \in Int
    BY <1>4, SumsType
  <2> QED BY <2>1, <2>2, <2>3, <2>4, <2>5, <2>6
<1>10. UnitsConserved'
  BY <1>9 DEF UnitsConserved, Backfilled
<1> QED BY <1>5, <1>6, <1>7, <1>8, <1>10 DEF IInv

LEMMA OutType ==
    ASSUME NEW b \in Basket
    PROVE  Out(b) \in Movement /\ b \in Movement /\ \A v \in Variants : Out(b)[v] = -b[v] /\ b[v] \in Nat
BY DEF Out, Basket, Movement

LEMMA PlaceOrderInv ==
    ASSUME IInv, NEW o \in Orders, NEW b \in Baskets, PlaceOrder(o, b)
    PROVE  IInv'
<1>1. TypeOK' /\ TypeOK
  BY BasketsAssumption
     DEF IInv, PlaceOrder, TypeOK, OrderStatus, ledgerVars, saleVars, adjustVars
<1>2. \A v \in Variants : Taken(o, v)' = Taken(o, v)
  BY <1>1 DEF PlaceOrder, Taken, TypeOK
<1>3. \A u \in Orders : u # o => order'[u] = order[u] /\ lines'[u] = lines[u]
  BY DEF PlaceOrder
<1>4. CogsFollowsOrders'
  BY <1>1 DEF IInv, PlaceOrder, TypeOK, CogsFollowsOrders
<1> QED BY <1>1, <1>2, <1>3, <1>4, OrderOnly DEF PlaceOrder

\* A change of status between two statuses that hold no stock, or two that do.
LEMMA StatusOnly ==
    ASSUME IInv, NEW o \in Orders, NEW to \in OrderStatus, order' = [order EXCEPT ![o] = to],
           order[o] \in {"fulfilling", "fulfilled"} <=> to \in {"fulfilling", "fulfilled"},
           deliveries' \subseteq Orders,
           UNCHANGED <<ledgerVars, lines, consumed, takenAt, transfer, saleVars, adjustVars>>
    PROVE  IInv'
<1>1. TypeOK' /\ TypeOK
  BY DEF IInv, TypeOK, ledgerVars, saleVars, adjustVars
<1>2. \A v \in Variants : Taken(o, v)' = Taken(o, v)
  BY <1>1 DEF Taken, TypeOK
<1>3. \A u \in Orders : u # o => order'[u] = order[u] /\ lines'[u] = lines[u]
  OBVIOUS
<1>4. CogsFollowsOrders'
  BY <1>1 DEF IInv, TypeOK, CogsFollowsOrders
<1> QED BY <1>1, <1>2, <1>3, <1>4, OrderOnly

LEMMA PayOrderInv ==
    ASSUME IInv, NEW o \in Orders, PayOrder(o)
    PROVE  IInv'
BY StatusOnly DEF PayOrder, MoveOrder, canTransition, ALLOWED_TRANSITIONS, OrderStatus, IInv, TypeOK

LEMMA FinishOrderInv ==
    ASSUME IInv, NEW o \in Orders, FinishOrder(o)
    PROVE  IInv'
BY StatusOnly DEF FinishOrder, MoveOrder, canTransition, ALLOWED_TRANSITIONS, OrderStatus, IInv, TypeOK

LEMMA CancelUnfulfilledInv ==
    ASSUME IInv, NEW o \in Orders, CancelUnfulfilled(o)
    PROVE  IInv'
BY StatusOnly
   DEF CancelUnfulfilled, MoveOrder, canTransition, ALLOWED_TRANSITIONS, OrderStatus, IInv, TypeOK

\* The deltas of the movement and what the order holds change oppositely.
LEMMA OrderMovement ==
    ASSUME IInv, TypeOK', NEW o \in Orders, NEW s \in Stores, NEW d \in Movement,
           Accepted(s, d), applyStockMovement(s, d),
           \A u \in Orders : u # o => order'[u] = order[u] /\ lines'[u] = lines[u],
           \A v \in Variants : Taken(o, v)' = Taken(o, v) - d[v],
           UNCHANGED <<transfer, saleVars, adjustVars>>, CogsFollowsOrders'
    PROVE  IInv'
<1>1. TypeOK /\ LedgerInv /\ LotsCoverStock /\ NeverOversold
  BY DEF IInv
<1>2. LedgerInv' /\ LotsCoverStock'
  BY <1>1, MovementLedger, MovementCover
<1>3. NeverOversold'
  BY <1>1, MovementAccepted DEF saleVars
<1>4. ASSUME NEW v \in Variants, Backfilled(v)
      PROVE  onHand'[v] + InTransit(v)' + TakenByOrders(v)' + SoldByPos(v)' = Opening[v] + adjusted'[v]
  <2>1. onHand'[v] = onHand[v] + d[v]
    BY <1>1, <1>4, MovementTotal
  <2>2. TakenByOrders(v)' = TakenByOrders(v) + (Taken(o, v)' - Taken(o, v))
    BY <1>1, TakenChange
  <2>3. onHand[v] + InTransit(v) + TakenByOrders(v) + SoldByPos(v) = Opening[v] + adjusted[v]
    BY <1>4 DEF IInv, UnitsConserved
  <2>4. InTransit(v)' = InTransit(v) /\ SoldByPos(v)' = SoldByPos(v) /\ adjusted' = adjusted
    BY SumsUnchanged DEF saleVars, adjustVars
  <2>5. onHand[v] \in Int /\ d[v] \in Int /\ Taken(o, v) \in Int
    BY <1>1 DEF TypeOK, Movement, Taken, Basket
  <2>6. Taken(o, v)' = Taken(o, v) - d[v]
    OBVIOUS
  <2> QED BY <1>1, <2>1, <2>2, <2>3, <2>4, <2>5, <2>6, SumsType
<1>5. UnitsConserved'
  BY <1>4 DEF UnitsConserved, Backfilled
<1> QED BY <1>2, <1>3, <1>5 DEF IInv

LEMMA StartFulfillingInv ==
    ASSUME IInv, NEW o \in Orders, NEW s \in Stores, StartFulfilling(o, s)
    PROVE  IInv'
<1>1. TypeOK /\ LedgerInv /\ lines[o] \in Basket
  BY DEF IInv, TypeOK
<1>2. /\ order[o] = "paid" /\ order' = [order EXCEPT ![o] = "fulfilling"]
      /\ Accepted(s, Out(lines[o])) /\ applyStockMovement(s, Out(lines[o]))
      /\ consumed' = [consumed EXCEPT ![o] = lines[o]] /\ takenAt' = [takenAt EXCEPT ![o] = s]
      /\ UNCHANGED <<lines, deliveries, transfer, saleVars, adjustVars>>
  BY DEF StartFulfilling, MoveOrder, canTransition, ALLOWED_TRANSITIONS
<1>3. TypeOK'
  BY <1>1, <1>2, MovementTypes, OutType DEF TypeOK, OrderStatus, saleVars, adjustVars
<1>4. \A v \in Variants : Taken(o, v)' = Taken(o, v) - Out(lines[o])[v]
  BY <1>1, <1>2, OutType DEF Taken, TypeOK
<1>5. CogsFollowsOrders'
  BY <1>1, <1>2 DEF IInv, TypeOK, CogsFollowsOrders
<1> QED BY <1>1, <1>2, <1>3, <1>4, <1>5, OutType, OrderMovement

LEMMA CancelFulfillingInv ==
    ASSUME IInv, NEW o \in Orders, NEW s \in Stores, CancelFulfilling(o, s)
    PROVE  IInv'
<1>1. TypeOK /\ LedgerInv /\ lines[o] \in Basket
  BY DEF IInv, TypeOK
<1>2. /\ order[o] = "fulfilling" /\ order' = [order EXCEPT ![o] = "cancelled"]
      /\ Accepted(s, lines[o]) /\ applyStockMovement(s, lines[o])
      /\ consumed' = [consumed EXCEPT ![o] = Nothing]
      /\ UNCHANGED <<lines, takenAt, deliveries, transfer, saleVars, adjustVars>>
  BY DEF CancelFulfilling, MoveOrder
<1>3. TypeOK'
  BY <1>1, <1>2, MovementTypes, OutType, NothingType DEF TypeOK, OrderStatus, saleVars, adjustVars
<1>4. \A v \in Variants : Taken(o, v)' = Taken(o, v) - lines[o][v]
  BY <1>1, <1>2, OutType DEF Taken, TypeOK
<1>5. CogsFollowsOrders'
  BY <1>1, <1>2 DEF IInv, TypeOK, CogsFollowsOrders
<1> QED BY <1>1, <1>2, <1>3, <1>4, <1>5, OutType, OrderMovement

\* A transfer that moves no stock.
LEMMA TransferOnly ==
    ASSUME IInv, TypeOK', NEW t \in Transfers,
           \A u \in Transfers : u # t => transfer'[u] = transfer[u],
           \A v \in Variants : Carried(t, v)' = Carried(t, v),
           UNCHANGED <<ledgerVars, orderVars, saleVars, adjustVars>>
    PROVE  IInv'
<1>1. LedgerInv' /\ LotsCoverStock' /\ TypeOK
  BY LedgerUnchanged DEF IInv
<1>2. NeverOversold' /\ CogsFollowsOrders'
  BY DEF IInv, NeverOversold, CogsFollowsOrders, ledgerVars, saleVars, orderVars
<1>3. ASSUME NEW v \in Variants, Backfilled(v)
      PROVE  onHand'[v] + InTransit(v)' + TakenByOrders(v)' + SoldByPos(v)' = Opening[v] + adjusted'[v]
  <2>1. InTransit(v)' = InTransit(v) + (Carried(t, v)' - Carried(t, v))
    BY <1>1, InTransitChange
  <2>2. Carried(t, v) \in Int /\ Carried(t, v)' = Carried(t, v)
    BY <1>1 DEF TypeOK, Transfer, Basket, Carried
  <2>3. InTransit(v) \in Int
    BY <1>1, SumsType
  <2>4. InTransit(v)' = InTransit(v)
    BY <2>1, <2>2, <2>3
  <2>5. TakenByOrders(v)' = TakenByOrders(v) /\ SoldByPos(v)' = SoldByPos(v)
    BY SumsUnchanged DEF saleVars, orderVars
  <2> QED BY <1>3, <2>4, <2>5 DEF IInv, UnitsConserved, ledgerVars, adjustVars
<1>4. UnitsConserved'
  BY <1>3 DEF UnitsConserved, Backfilled
<1> QED BY <1>1, <1>2, <1>4 DEF IInv

\* The deltas of the movement and what the transfer carries change oppositely.
LEMMA TransferMovement ==
    ASSUME IInv, TypeOK', NEW t \in Transfers, NEW s \in Stores, NEW d \in Movement,
           Accepted(s, d), applyStockMovement(s, d),
           \A u \in Transfers : u # t => transfer'[u] = transfer[u],
           \A v \in Variants : Carried(t, v)' = Carried(t, v) - d[v],
           UNCHANGED <<orderVars, saleVars, adjustVars>>
    PROVE  IInv'
<1>1. TypeOK /\ LedgerInv /\ LotsCoverStock /\ NeverOversold
  BY DEF IInv
<1>2. LedgerInv' /\ LotsCoverStock'
  BY <1>1, MovementLedger, MovementCover
<1>3. NeverOversold' /\ CogsFollowsOrders'
  BY <1>1, MovementAccepted DEF saleVars, orderVars, IInv, CogsFollowsOrders
<1>4. ASSUME NEW v \in Variants, Backfilled(v)
      PROVE  onHand'[v] + InTransit(v)' + TakenByOrders(v)' + SoldByPos(v)' = Opening[v] + adjusted'[v]
  <2>1. onHand'[v] = onHand[v] + d[v]
    BY <1>1, <1>4, MovementTotal
  <2>2. InTransit(v)' = InTransit(v) + (Carried(t, v)' - Carried(t, v))
    BY <1>1, InTransitChange
  <2>3. onHand[v] + InTransit(v) + TakenByOrders(v) + SoldByPos(v) = Opening[v] + adjusted[v]
    BY <1>4 DEF IInv, UnitsConserved
  <2>4. TakenByOrders(v)' = TakenByOrders(v) /\ SoldByPos(v)' = SoldByPos(v) /\ adjusted' = adjusted
    BY SumsUnchanged DEF orderVars, saleVars, adjustVars
  <2>5. onHand[v] \in Int /\ d[v] \in Int /\ Carried(t, v) \in Int
    BY <1>1 DEF TypeOK, Movement, Carried, Transfer, Basket
  <2>6. Carried(t, v)' = Carried(t, v) - d[v]
    OBVIOUS
  <2>7. InTransit(v) \in Int /\ TakenByOrders(v) \in Int /\ SoldByPos(v) \in Int
    BY <1>1, SumsType
  <2> QED BY <2>1, <2>2, <2>3, <2>4, <2>5, <2>6, <2>7
<1>5. UnitsConserved'
  BY <1>4 DEF UnitsConserved, Backfilled
<1> QED BY <1>2, <1>3, <1>5 DEF IInv

LEMMA TransferType ==
    ASSUME TypeOK, NEW t \in Transfers
    PROVE  /\ transfer[t] \in Transfer /\ transfer[t].items \in Basket
           /\ transfer[t].from \in Stores /\ transfer[t].to \in Stores
BY DEF TypeOK, Transfer

\* A change of status: what the transfer carries is all or nothing.
LEMMA MoveTransferEffect ==
    ASSUME IInv, NEW t \in Transfers, NEW to \in TransferStatus, MoveTransfer(t, to)
    PROVE  /\ transfer' \in [Transfers -> Transfer]
           /\ \A u \in Transfers : u # t => transfer'[u] = transfer[u]
           /\ \A v \in Variants :
                Carried(t, v)' = IF to = "in_transit" THEN transfer[t].items[v] ELSE 0
           /\ UNCHANGED <<orderVars, saleVars, adjustVars>>
<1>1. transfer \in [Transfers -> Transfer] /\ transfer[t] \in Transfer
  BY DEF IInv, TypeOK
<1>2. /\ transfer' = [transfer EXCEPT ![t].status = to]
      /\ UNCHANGED <<orderVars, saleVars, adjustVars>>
  BY DEF MoveTransfer
<1>3. transfer'[t] = [transfer[t] EXCEPT !.status = to]
  BY <1>1, <1>2
<1>4. /\ transfer'[t] \in Transfer /\ transfer'[t].status = to
      /\ transfer'[t].items = transfer[t].items
  BY <1>1, <1>3 DEF Transfer
<1> QED BY <1>1, <1>2, <1>4 DEF Carried

LEMMA DraftTransferInv ==
    ASSUME IInv, NEW t \in Transfers, NEW from \in Stores, NEW to \in Stores, NEW b \in Baskets,
           DraftTransfer(t, from, to, b)
    PROVE  IInv'
<1> DEFINE draft == [status |-> "draft", from |-> from, to |-> to, items |-> b]
<1>1. draft \in Transfer /\ draft.status = "draft"
  BY BasketsAssumption DEF Transfer, TransferStatus
<1>2. /\ transfer[t].status = "none" /\ transfer' = [transfer EXCEPT ![t] = draft]
      /\ UNCHANGED <<ledgerVars, orderVars, saleVars, adjustVars>>
  BY DEF DraftTransfer
<1> HIDE DEF draft
<1>3. TypeOK /\ TypeOK'
  BY <1>1, <1>2 DEF IInv, TypeOK, ledgerVars, orderVars, saleVars, adjustVars
<1>4. transfer'[t] = draft /\ \A u \in Transfers : u # t => transfer'[u] = transfer[u]
  BY <1>2, <1>3 DEF TypeOK
<1>5. \A v \in Variants : Carried(t, v)' = Carried(t, v)
  BY <1>1, <1>2, <1>4 DEF Carried
<1> QED BY <1>2, <1>3, <1>4, <1>5, TransferOnly

LEMMA CancelDraftTransferInv ==
    ASSUME IInv, NEW t \in Transfers, CancelDraftTransfer(t)
    PROVE  IInv'
<1>1. transfer[t].status = "draft" /\ MoveTransfer(t, "cancelled") /\ UNCHANGED ledgerVars
  BY DEF CancelDraftTransfer
<1>2. /\ transfer' \in [Transfers -> Transfer]
      /\ \A u \in Transfers : u # t => transfer'[u] = transfer[u]
      /\ \A v \in Variants : Carried(t, v)' = 0
      /\ UNCHANGED <<orderVars, saleVars, adjustVars>>
  BY <1>1, MoveTransferEffect DEF TransferStatus
<1>3. TypeOK'
  BY <1>1, <1>2 DEF IInv, TypeOK, ledgerVars, orderVars, saleVars, adjustVars
<1>4. \A v \in Variants : Carried(t, v)' = Carried(t, v)
  BY <1>1, <1>2 DEF Carried
<1> QED BY <1>1, <1>2, <1>3, <1>4, TransferOnly

LEMMA DispatchTransferInv ==
    ASSUME IInv, NEW t \in Transfers, DispatchTransfer(t)
    PROVE  IInv'
<1> DEFINE s == transfer[t].from
           b == transfer[t].items
<1>1. TypeOK /\ LedgerInv /\ s \in Stores /\ b \in Basket
  BY TransferType DEF IInv
<1>2. MoveTransfer(t, "in_transit") /\ Accepted(s, Out(b)) /\ applyStockMovement(s, Out(b))
  BY DEF DispatchTransfer
<1>3. transfer[t].status = "draft"
  BY <1>2 DEF MoveTransfer, ALLOWED_TRANSFER_TRANSITIONS
<1>4. /\ transfer' \in [Transfers -> Transfer]
      /\ \A u \in Transfers : u # t => transfer'[u] = transfer[u]
      /\ \A v \in Variants : Carried(t, v)' = b[v]
      /\ UNCHANGED <<orderVars, saleVars, adjustVars>>
  BY <1>2, MoveTransferEffect DEF TransferStatus
<1>5. TypeOK'
  BY <1>1, <1>2, <1>4, OutType, MovementTypes DEF TypeOK, orderVars, saleVars, adjustVars
<1>6. \A v \in Variants : Carried(t, v)' = Carried(t, v) - Out(b)[v]
  BY <1>1, <1>3, <1>4, OutType DEF Carried
<1> HIDE DEF s, b
<1> QED BY <1>1, <1>2, <1>4, <1>5, <1>6, OutType, TransferMovement

\* What is in transit arrives at one of the two stores of the transfer.
LEMMA ArrivalInv ==
    ASSUME IInv, NEW t \in Transfers, NEW to \in {"received", "cancelled"}, NEW s \in Stores,
           transfer[t].status = "in_transit", MoveTransfer(t, to),
           Accepted(s, transfer[t].items), applyStockMovement(s, transfer[t].items)
    PROVE  IInv'
<1> DEFINE b == transfer[t].items
<1>1. TypeOK /\ LedgerInv /\ b \in Basket
  BY TransferType DEF IInv
<1>2. /\ transfer' \in [Transfers -> Transfer]
      /\ \A u \in Transfers : u # t => transfer'[u] = transfer[u]
      /\ \A v \in Variants : Carried(t, v)' = 0
      /\ UNCHANGED <<orderVars, saleVars, adjustVars>>
  BY MoveTransferEffect DEF TransferStatus
<1>3. TypeOK'
  BY <1>1, <1>2, OutType, MovementTypes DEF TypeOK, orderVars, saleVars, adjustVars
<1>4. \A v \in Variants : Carried(t, v)' = Carried(t, v) - b[v]
  BY <1>1, <1>2, OutType DEF Carried
<1> HIDE DEF b
<1>5. Accepted(s, b) /\ applyStockMovement(s, b)
  BY DEF b
<1> QED BY <1>1, <1>2, <1>3, <1>4, <1>5, OutType, TransferMovement

LEMMA ReceiveTransferInv ==
    ASSUME IInv, NEW t \in Transfers, ReceiveTransfer(t)
    PROVE  IInv'
<1>1. transfer[t].status = "in_transit" /\ transfer[t].to \in Stores
  BY TransferType DEF IInv, ReceiveTransfer, MoveTransfer, ALLOWED_TRANSFER_TRANSITIONS
<1> QED BY <1>1, ArrivalInv DEF ReceiveTransfer

LEMMA RecallTransferInv ==
    ASSUME IInv, NEW t \in Transfers, RecallTransfer(t)
    PROVE  IInv'
<1>1. transfer[t].status = "in_transit" /\ transfer[t].from \in Stores
  BY TransferType DEF IInv, RecallTransfer
<1> QED BY <1>1, ArrivalInv DEF RecallTransfer

LEMMA IngestSaleInv ==
    ASSUME IInv, NEW e \in Sales, NEW location, NEW b \in Baskets,
           NEW miss \in BOOLEAN, IngestSale(e, location, b, miss)
    PROVE  IInv'
<1> DEFINE s == IF location \in Stores THEN location ELSE Default
           row == [v \in Variants |-> sold[s][v] + b[v]]
<1>1. s \in Stores /\ b \in Basket
  BY StoresAssumption, BasketsAssumption
<1>2. TypeOK /\ LedgerInv /\ LotsCoverStock /\ NeverOversold
  BY DEF IInv
<1>3. /\ applyStockMovement(s, Out(b)) /\ sold' = [sold EXCEPT ![s] = row]
      /\ processed' = processed \cup {e} /\ unmatched' \subseteq unmatched \cup {e}
      /\ UNCHANGED <<orderVars, transfer, adjustVars>>
  BY DEF IngestSale
<1>4. row \in Basket /\ \A v \in Variants : row[v] = sold[s][v] + b[v]
  BY <1>1, <1>2 DEF TypeOK, Basket
<1> HIDE DEF s, row
<1>5. /\ sold' \in [Stores -> Basket] /\ sold'[s] = row
      /\ \A t \in Stores : t # s => sold'[t] = sold[t]
  BY <1>1, <1>2, <1>3, <1>4 DEF TypeOK
<1>6. TypeOK'
  BY <1>1, <1>2, <1>3, <1>5, OutType, MovementTypes DEF TypeOK, orderVars, adjustVars
<1>7. LedgerInv' /\ LotsCoverStock' /\ CogsFollowsOrders'
  BY <1>1, <1>2, <1>3, OutType, MovementLedger, MovementCover
     DEF IInv, CogsFollowsOrders, orderVars
<1>8. NeverOversold'
  <2> SUFFICES ASSUME NEW t \in Stores, NEW v \in Variants
               PROVE  stock'[t][v] + sold'[t][v] >= 0
    BY DEF NeverOversold
  <2>1. /\ stock[t][v] + sold[t][v] >= 0 /\ stock[t][v] \in Int /\ sold[t][v] \in Nat
        /\ b[v] \in Nat /\ Opening[v] \in Nat /\ Out(b)[v] = -b[v]
    BY <1>1, <1>2, OpeningType, OutType DEF NeverOversold, TypeOK, Basket
  <2>2. CASE t # s
    BY <1>1, <1>2, <1>3, <1>5, <2>1, <2>2, OutType, MovementStock
  <2>3. CASE t = s
    <3>1. sold'[t][v] = sold[t][v] + b[v]
      BY <1>4, <1>5, <2>3
    <3>2. stock'[t][v] = stock[t][v] - b[v] \/ stock'[t][v] = Opening[v] - b[v]
      BY <1>1, <1>2, <1>3, <2>1, <2>3, OutType, MovementStock, BeforeIsStockOrOpening
    <3> QED BY <2>1, <3>1, <3>2
  <2> QED BY <2>2, <2>3
<1>9. ASSUME NEW v \in Variants, Backfilled(v)
      PROVE  onHand'[v] + InTransit(v)' + TakenByOrders(v)' + SoldByPos(v)' = Opening[v] + adjusted'[v]
  <2>1. onHand'[v] = onHand[v] - b[v]
    <3>1. onHand'[v] = onHand[v] + Out(b)[v]
      BY <1>1, <1>2, <1>3, <1>9, OutType, MovementTotal
    <3>2. onHand[v] \in Int /\ b[v] \in Nat /\ Out(b)[v] = -b[v]
      BY <1>1, <1>2, OutType DEF TypeOK
    <3> QED BY <3>1, <3>2
  <2>2. SoldByPos(v)' = SoldByPos(v) + b[v]
    <3>1. sold \in Quantities /\ sold' \in Quantities
      BY <1>2, <1>5 DEF TypeOK, Basket, Quantities
    <3>2. \A t \in Stores : t # s => sold'[t][v] = sold[t][v]
      BY <1>5
    <3>3. SumOfStores(sold', v) = SumOfStores(sold, v) + (sold'[s][v] - sold[s][v])
      BY <1>1, <3>1, <3>2, SumOfStoresChange
    <3>4. sold'[s][v] = sold[s][v] + b[v] /\ sold[s][v] \in Nat /\ b[v] \in Nat
      BY <1>1, <1>2, <1>4, <1>5 DEF TypeOK, Basket
    <3> QED BY <3>3, <3>4, <1>2, SumsType DEF SoldByPos
  <2>3. onHand[v] + InTransit(v) + TakenByOrders(v) + SoldByPos(v) = Opening[v] + adjusted[v]
    BY <1>9 DEF IInv, UnitsConserved
  <2>4. TakenByOrders(v)' = TakenByOrders(v) /\ InTransit(v)' = InTransit(v) /\ adjusted' = adjusted
    BY <1>3, SumsUnchanged DEF orderVars, adjustVars
  <2>5. onHand[v] \in Int /\ b[v] \in Int
    BY <1>1, <1>2 DEF TypeOK, Basket
  <2>6. InTransit(v) \in Int /\ TakenByOrders(v) \in Int /\ SoldByPos(v) \in Int
    BY <1>2, SumsType
  <2> QED BY <2>1, <2>2, <2>3, <2>4, <2>5, <2>6
<1>10. UnitsConserved'
  BY <1>9 DEF UnitsConserved, Backfilled
<1> QED BY <1>6, <1>7, <1>8, <1>10 DEF IInv

LEMMA StepInv == IInv /\ [Next]_vars => IInv'
<1> SUFFICES ASSUME IInv, [Next]_vars PROVE IInv'
  OBVIOUS
<1>1. ASSUME NEW s \in Stores, NEW v \in Variants, NEW delta \in Deltas, AdjustStock(s, v, delta)
      PROVE  IInv'
  BY <1>1, AdjustStockInv
<1>2. ASSUME NEW o \in Orders, OrderStep(o) PROVE IInv'
  BY <1>2, PlaceOrderInv, PayOrderInv, StartFulfillingInv, FinishOrderInv, CancelUnfulfilledInv,
     CancelFulfillingInv DEF OrderStep
<1>3. ASSUME NEW t \in Transfers, TransferStep(t) PROVE IInv'
  BY <1>3, DraftTransferInv, DispatchTransferInv, ReceiveTransferInv, CancelDraftTransferInv,
     RecallTransferInv DEF TransferStep
<1>4. ASSUME NEW e \in Sales, SaleStep(e) PROVE IInv'
  BY <1>4, IngestSaleInv DEF SaleStep
<1>5. CASE UNCHANGED vars
  <2>1. TypeOK' /\ LedgerInv' /\ LotsCoverStock'
    BY <1>5, LedgerUnchanged
       DEF IInv, vars, TypeOK, ledgerVars, orderVars, saleVars, adjustVars
  <2>2. NeverOversold' /\ CogsFollowsOrders'
    BY <1>5 DEF IInv, vars, ledgerVars, orderVars, saleVars, NeverOversold, CogsFollowsOrders
  <2>3. ASSUME NEW v \in Variants
        PROVE  /\ InTransit(v)' = InTransit(v) /\ TakenByOrders(v)' = TakenByOrders(v)
               /\ SoldByPos(v)' = SoldByPos(v)
    BY <1>5, SumsUnchanged DEF vars, orderVars, saleVars
  <2>4. UnitsConserved'
    BY <1>5, <2>3 DEF IInv, vars, ledgerVars, adjustVars, UnitsConserved, Backfilled
  <2> QED BY <2>1, <2>2, <2>4 DEF IInv
<1> QED BY <1>1, <1>2, <1>3, <1>4, <1>5 DEF Next

LEMMA Invariance == Spec => []IInv
BY InitInv, StepInv, PTL DEF Spec

-----------------------------------------------------------------------------
\* Every variable keeps its type, whatever the handlers interleave.
THEOREM TypeCorrect == Spec => []TypeOK
<1>1. IInv => TypeOK
  BY DEF IInv
<1> QED BY <1>1, Invariance, PTL

\* The aggregate of a variant with a row is the sum of its rows (inventory.ts 96-113).
THEOREM AggregateCorrect == Spec => []AggregateIsSum
<1>1. IInv => AggregateIsSum
  BY DEF IInv, LedgerInv
<1> QED BY <1>1, Invariance, PTL

\* Units are conserved across orders, transfers, sales and adjustments.
THEOREM Conservation == Spec => []UnitsConserved
<1>1. IInv => UnitsConserved
  BY DEF IInv
<1> QED BY <1>1, Invariance, PTL

\* Outside the opening stock, every unit on hand has a cost lot.
THEOREM LotsCover == Spec => []LotsCoverStock
<1>1. IInv => LotsCoverStock
  BY DEF IInv
<1> QED BY <1>1, Invariance, PTL

\* Only what the POS of a store sold takes its balance below zero.
THEOREM NoOversell == Spec => []NeverOversold
<1>1. IInv => NeverOversold
  BY DEF IInv
<1> QED BY <1>1, Invariance, PTL

\* Consumption rows exist exactly for the orders that hold units.
THEOREM CogsCorrect == Spec => []CogsFollowsOrders
<1>1. IInv => CogsFollowsOrders
  BY DEF IInv
<1> QED BY <1>1, Invariance, PTL

-----------------------------------------------------------------------------
(***************************************************************************)
(* StoreAdmin: the invariant of the ledger outlives the deletion of        *)
(* stores, and a transfer never loses its stores.                          *)
(***************************************************************************)

\* A store without a lot row holds no open units.
LotsOfLotted == \A s \in Stores, v \in Variants : s \notin lotted => lots[s][v] = 0

\* Beyond the default store, a StoreStock row comes with a receipt or a sale.
RowHasCause ==
    \A s \in Stores \ {Default}, v \in Variants :
        <<s, v>> \in rows => s \in lotted \/ sold[s][v] > 0

LifeInv ==
    /\ life \in [Stores -> {"unborn", "live", "deleted"}]
    /\ life[Default] = "live"
    /\ deleting \subseteq Stores \ {Default}
    /\ transfer \in [Transfers -> Transfer]
    /\ TransfersHaveStores

KeptInv == IInv /\ LotsOfLotted /\ RowHasCause

AdminInv == LifeInv /\ (Unsold => KeptInv)

-----------------------------------------------------------------------------
(***************************************************************************)
(* Steps of the ledger.                                                    *)
(***************************************************************************)
Lotting == lotted' = lotted \cup {s \in Stores : \E v \in Variants : lots'[s][v] > lots[s][v]}

LEMMA LotsStayLotted ==
    ASSUME TypeOK', LotsOfLotted, Lotting
    PROVE  LotsOfLotted'
<1> SUFFICES ASSUME NEW s \in Stores, NEW v \in Variants, s \notin lotted'
             PROVE  lots'[s][v] = 0
  BY DEF LotsOfLotted
<1>1. lots[s][v] = 0 /\ ~ (lots'[s][v] > lots[s][v])
  BY DEF LotsOfLotted, Lotting
<1>2. lots'[s][v] \in Nat
  BY DEF TypeOK, Basket
<1> QED BY <1>1, <1>2

\* A movement creates a row only where units were received or sold.
LEMMA MovementCause ==
    ASSUME IInv, RowHasCause, Lotting, NEW s \in Stores, NEW d \in Movement,
           applyStockMovement(s, d),
           sold' \in [Stores -> Basket],
           \A x \in Stores, v \in Variants : sold'[x][v] >= sold[x][v],
           \A v \in Variants : d[v] < 0 => Before(s, v) + d[v] >= 0 \/ sold'[s][v] > 0
    PROVE  RowHasCause'
<1>1. TypeOK /\ LedgerInv
  BY DEF IInv
<1> SUFFICES ASSUME NEW x \in Stores \ {Default}, NEW v \in Variants, <<x, v>> \in rows'
             PROVE  x \in lotted' \/ sold'[x][v] > 0
  BY DEF RowHasCause
<1>2. CASE <<x, v>> \in rows
  <2>1. x \in lotted \/ sold[x][v] > 0
    BY <1>2 DEF RowHasCause
  <2>2. sold[x][v] \in Nat /\ sold'[x][v] \in Nat /\ sold'[x][v] >= sold[x][v]
    BY <1>1 DEF TypeOK, Basket
  <2> QED BY <2>1, <2>2 DEF Lotting
<1>3. CASE <<x, v>> \notin rows
  <2>1. x = s /\ d[v] # 0 /\ d[v] \in Int
    BY <1>3 DEF applyStockMovement, Movement
  <2>2. CASE d[v] > 0
    <3>1. lots'[s][v] = lots[s][v] + d[v] /\ lots[s][v] \in Nat
      BY <1>1, <2>1, <2>2, MovementLots DEF LotUnits, TypeOK, Basket
    <3>2. lots'[s][v] > lots[s][v]
      BY <2>1, <2>2, <3>1
    <3> QED BY <2>1, <3>2 DEF Lotting
  <2>3. CASE d[v] < 0
    <3>1. Before(s, v) = 0
      BY <1>3, <2>1 DEF Before, SeedQuantity
    <3>2. ~ (Before(s, v) + d[v] >= 0)
      BY <2>1, <2>3, <3>1
    <3> QED BY <2>1, <2>3, <3>2
  <2> QED BY <2>1, <2>2, <2>3
<1> QED BY <1>2, <1>3

\* A movement whose balance is checked.
LEMMA AcceptedCause ==
    ASSUME IInv, RowHasCause, Lotting, NEW s \in Stores, NEW d \in Movement,
           Accepted(s, d), applyStockMovement(s, d), UNCHANGED sold
    PROVE  RowHasCause'
<1>1. sold \in [Stores -> Basket] /\ \A x \in Stores, v \in Variants : sold[x][v] \in Nat
  BY DEF IInv, TypeOK, Basket
<1>2. \A v \in Variants : d[v] < 0 => Before(s, v) + d[v] >= 0
  BY DEF Accepted, Movement
<1> QED BY <1>1, <1>2, MovementCause

LEMMA NoRowCause ==
    ASSUME RowHasCause, Lotting, UNCHANGED <<rows, sold>>
    PROVE  RowHasCause'
BY DEF RowHasCause, Lotting

\* Every step of the ledger among live stores.
LEMMA LedgerStepKept ==
    ASSUME KeptInv, LifeInv, LedgerStep, Lotting
    PROVE  KeptInv'
<1>1. IInv /\ RowHasCause /\ TypeOK
  BY DEF KeptInv, IInv
<1>2. Live \subseteq Stores
  BY DEF Live
<1>3. IInv' /\ RowHasCause'
  <2>1. ASSUME NEW s \in Live, NEW v \in Variants, NEW delta \in Deltas, AdjustStock(s, v, delta)
        PROVE  IInv' /\ RowHasCause'
    <3> DEFINE d == [w \in Variants |-> IF w = v THEN delta ELSE 0]
    <3>1. d \in Movement
      BY DeltasAssumption DEF Movement
    <3>2. Accepted(s, d) /\ applyStockMovement(s, d) /\ UNCHANGED sold
      BY <2>1 DEF AdjustStock, saleVars
    <3> HIDE DEF d
    <3> QED BY <1>1, <1>2, <2>1, <3>1, <3>2, AcceptedCause, AdjustStockInv
  <2>2. ASSUME NEW o \in Orders, NEW b \in Baskets, PlaceOrder(o, b)
        PROVE  IInv' /\ RowHasCause'
    BY <1>1, <2>2, PlaceOrderInv, NoRowCause DEF PlaceOrder, ledgerVars, saleVars
  <2>3. ASSUME NEW o \in Orders, PayOrder(o) \/ FinishOrder(o) \/ CancelUnfulfilled(o)
        PROVE  IInv' /\ RowHasCause'
    <3>1. IInv'
      BY <1>1, <2>3, PayOrderInv, FinishOrderInv, CancelUnfulfilledInv
    <3>2. UNCHANGED <<rows, sold>>
      BY <2>3 DEF PayOrder, FinishOrder, CancelUnfulfilled, ledgerVars, saleVars
    <3> QED BY <1>1, <3>1, <3>2, NoRowCause
  <2>4. ASSUME NEW o \in Orders, NEW s \in Live, StartFulfilling(o, s)
        PROVE  IInv' /\ RowHasCause'
    <3>1. lines[o] \in Basket
      BY <1>1 DEF TypeOK
    <3>2. Accepted(s, Out(lines[o])) /\ applyStockMovement(s, Out(lines[o])) /\ UNCHANGED sold
      BY <2>4 DEF StartFulfilling, saleVars
    <3>3. Out(lines[o]) \in Movement
      BY <3>1, OutType
    <3> QED BY <1>1, <1>2, <2>4, <3>2, <3>3, AcceptedCause, StartFulfillingInv
  <2>5. ASSUME NEW o \in Orders, NEW s \in Live, CancelFulfilling(o, s)
        PROVE  IInv' /\ RowHasCause'
    <3>1. lines[o] \in Movement
      BY <1>1, OutType DEF TypeOK
    <3>2. Accepted(s, lines[o]) /\ applyStockMovement(s, lines[o]) /\ UNCHANGED sold
      BY <2>5 DEF CancelFulfilling, saleVars
    <3> QED BY <1>1, <1>2, <2>5, <3>1, <3>2, AcceptedCause, CancelFulfillingInv
  <2>6. ASSUME NEW t \in Transfers, NEW from \in Live, NEW to \in Live, NEW b \in Baskets,
               DraftTransfer(t, from, to, b)
        PROVE  IInv' /\ RowHasCause'
    BY <1>1, <1>2, <2>6, DraftTransferInv, NoRowCause DEF DraftTransfer, ledgerVars, saleVars
  <2>7. ASSUME NEW t \in Transfers, CancelDraftTransfer(t)
        PROVE  IInv' /\ RowHasCause'
    BY <1>1, <2>7, CancelDraftTransferInv, NoRowCause
       DEF CancelDraftTransfer, MoveTransfer, ledgerVars, saleVars
  <2>8. ASSUME NEW t \in Transfers, DispatchTransfer(t)
        PROVE  IInv' /\ RowHasCause'
    <3>1. transfer[t].from \in Stores /\ transfer[t].items \in Basket
      BY <1>1, TransferType
    <3>2. Accepted(transfer[t].from, Out(transfer[t].items))
          /\ applyStockMovement(transfer[t].from, Out(transfer[t].items)) /\ UNCHANGED sold
      BY <2>8 DEF DispatchTransfer, MoveTransfer, saleVars
    <3>3. Out(transfer[t].items) \in Movement
      BY <3>1, OutType
    <3> QED BY <1>1, <2>8, <3>1, <3>2, <3>3, AcceptedCause, DispatchTransferInv
  <2>9. ASSUME NEW t \in Transfers, ReceiveTransfer(t)
        PROVE  IInv' /\ RowHasCause'
    <3>1. transfer[t].to \in Stores /\ transfer[t].items \in Movement
      BY <1>1, TransferType, OutType
    <3>2. Accepted(transfer[t].to, transfer[t].items)
          /\ applyStockMovement(transfer[t].to, transfer[t].items) /\ UNCHANGED sold
      BY <2>9 DEF ReceiveTransfer, MoveTransfer, saleVars
    <3> QED BY <1>1, <2>9, <3>1, <3>2, AcceptedCause, ReceiveTransferInv
  <2>10. ASSUME NEW t \in Transfers, RecallTransfer(t)
         PROVE  IInv' /\ RowHasCause'
    <3>1. transfer[t].from \in Stores /\ transfer[t].items \in Movement
      BY <1>1, TransferType, OutType
    <3>2. Accepted(transfer[t].from, transfer[t].items)
          /\ applyStockMovement(transfer[t].from, transfer[t].items) /\ UNCHANGED sold
      BY <2>10 DEF RecallTransfer, MoveTransfer, saleVars
    <3> QED BY <1>1, <2>10, <3>1, <3>2, AcceptedCause, RecallTransferInv
  <2>11. ASSUME NEW e \in Sales, NEW location, NEW b \in Baskets, NEW miss \in BOOLEAN,
                IngestSale(e, location, b, miss)
         PROVE  IInv' /\ RowHasCause'
    <3> DEFINE s == IF location \in Stores THEN location ELSE Default
    <3>1. s \in Stores /\ b \in Basket
      BY StoresAssumption, BasketsAssumption
    <3>2. /\ applyStockMovement(s, Out(b))
          /\ sold' = [sold EXCEPT ![s] = [v \in Variants |-> sold[s][v] + b[v]]]
      BY <2>11 DEF IngestSale
    <3> HIDE DEF s
    <3>3. /\ sold \in [Stores -> Basket]
          /\ \A x \in Stores, v \in Variants : sold[x][v] \in Nat
          /\ \A v \in Variants : b[v] \in Nat
      BY <1>1, <3>1 DEF TypeOK, Basket
    <3>4. sold' \in [Stores -> Basket]
      <4>1. [v \in Variants |-> sold[s][v] + b[v]] \in Basket
        BY <3>1, <3>3 DEF Basket
      <4> QED BY <3>2, <3>3, <4>1
    <3>5. \A x \in Stores, v \in Variants : sold'[x][v] >= sold[x][v]
      BY <3>1, <3>2, <3>3
    <3>6. \A v \in Variants : Out(b)[v] < 0 => sold'[s][v] > 0
      BY <3>1, <3>2, <3>3, OutType
    <3>7. Out(b) \in Movement
      BY <3>1, OutType
    <3>8. RowHasCause'
      BY <1>1, <3>1, <3>2, <3>4, <3>5, <3>6, <3>7, MovementCause
    <3> QED BY <1>1, <2>11, <3>8, IngestSaleInv
  <2> QED BY <2>1, <2>2, <2>3, <2>4, <2>5, <2>6, <2>7, <2>8, <2>9, <2>10, <2>11 DEF LedgerStep
<1>4. LotsOfLotted'
  BY <1>1, <1>3, LotsStayLotted DEF KeptInv, IInv
<1> QED BY <1>3, <1>4 DEF KeptInv

\* What a POS sold at a deleted store stays as it was.
LEMMA UnsoldBefore ==
    ASSUME LifeInv, LedgerStep, UNCHANGED life, Unsold'
    PROVE  Unsold
<1>1. ASSUME UNCHANGED sold PROVE Unsold
  BY <1>1 DEF Unsold
<1>2. ASSUME NEW e \in Sales, NEW location, NEW b \in Baskets, NEW miss \in BOOLEAN,
             IngestSale(e, IF location \in Live THEN location ELSE NoStore, b, miss)
      PROVE  Unsold
  <2>1. PICK s \in Live : sold' = [sold EXCEPT ![s] = [v \in Variants |-> sold[s][v] + b[v]]]
    <3>1. CASE location \in Live
      BY <1>2, <3>1 DEF IngestSale, Live
    <3>2. CASE location \notin Live
      BY <1>2, <3>2, StoresAssumption DEF IngestSale, Live, LifeInv
    <3> QED BY <3>1, <3>2
  <2>2. \A x \in Stores : life[x] = "deleted" => sold'[x] = sold[x]
    BY <2>1 DEF Live
  <2> QED BY <2>2 DEF Unsold
<1>3. (\E e \in Sales, location \in SaleLocations, b \in Baskets, miss \in BOOLEAN :
         IngestSale(e, IF location \in Live THEN location ELSE NoStore, b, miss)) \/ UNCHANGED sold
  BY DEF LedgerStep, AdjustStock, PlaceOrder, PayOrder, StartFulfilling, FinishOrder, CancelUnfulfilled,
     CancelFulfilling, DraftTransfer, DispatchTransfer, ReceiveTransfer, CancelDraftTransfer,
     RecallTransfer, MoveTransfer, saleVars
<1> QED BY <1>1, <1>2, <1>3

\* A transfer is drafted between live stores and keeps them.
LEMMA TransfersKeepStores ==
    ASSUME LifeInv, LedgerStep, UNCHANGED <<life, deleting>>
    PROVE  LifeInv'
<1>1. Live' = Live /\ Live \subseteq Stores
  BY DEF Live
<1>2. transfer' \in [Transfers -> Transfer] /\ TransfersHaveStores'
  <2>1. CASE UNCHANGED transfer
    BY <1>1, <2>1 DEF LifeInv, TransfersHaveStores
  <2>2. ASSUME NEW t \in Transfers, NEW to \in TransferStatus \ {"none"}, transfer[t].status # "none",
               transfer' = [transfer EXCEPT ![t].status = to]
        PROVE  transfer' \in [Transfers -> Transfer] /\ TransfersHaveStores'
    <3>1. transfer[t] \in Transfer
      BY DEF LifeInv
    <3>2. /\ transfer'[t] = [status |-> to, from |-> transfer[t].from, to |-> transfer[t].to,
                             items |-> transfer[t].items]
          /\ \A u \in Transfers : u # t => transfer'[u] = transfer[u]
          /\ transfer' = [transfer EXCEPT ![t] = transfer'[t]]
      BY <2>2, <3>1 DEF LifeInv, Transfer
    <3>3. transfer'[t] \in Transfer
      BY <3>1, <3>2 DEF Transfer
    <3>4. transfer' \in [Transfers -> Transfer]
      BY <3>2, <3>3 DEF LifeInv
    <3>5. transfer'[t].from = transfer[t].from /\ transfer'[t].to = transfer[t].to
      BY <3>2
    <3> QED BY <1>1, <2>2, <3>2, <3>4, <3>5 DEF LifeInv, TransfersHaveStores
  <2>3. ASSUME NEW t \in Transfers, NEW from \in Live, NEW to \in Live, NEW b \in Baskets,
               DraftTransfer(t, from, to, b)
        PROVE  transfer' \in [Transfers -> Transfer] /\ TransfersHaveStores'
    <3> DEFINE draft == [status |-> "draft", from |-> from, to |-> to, items |-> b]
    <3>1. transfer' = [transfer EXCEPT ![t] = draft]
      BY <2>3 DEF DraftTransfer
    <3>2. draft \in Transfer /\ draft.from = from /\ draft.to = to
      BY <1>1, BasketsAssumption DEF Transfer, TransferStatus
    <3> HIDE DEF draft
    <3> QED BY <1>1, <3>1, <3>2 DEF LifeInv, TransfersHaveStores
  <2>4. ASSUME NEW t \in Transfers,
               CancelDraftTransfer(t) \/ DispatchTransfer(t) \/ ReceiveTransfer(t) \/ RecallTransfer(t)
        PROVE  transfer' \in [Transfers -> Transfer] /\ TransfersHaveStores'
    <3>1. PICK to \in TransferStatus \ {"none"} :
            transfer[t].status # "none" /\ transfer' = [transfer EXCEPT ![t].status = to]
      BY <2>4 DEF CancelDraftTransfer, DispatchTransfer, ReceiveTransfer, RecallTransfer,
         MoveTransfer, ALLOWED_TRANSFER_TRANSITIONS, TransferStatus
    <3> QED BY <2>2, <3>1
  <2>5. UNCHANGED transfer
        \/ (\E t \in Transfers, from \in Live, to \in Live, b \in Baskets : DraftTransfer(t, from, to, b))
        \/ (\E t \in Transfers : CancelDraftTransfer(t) \/ DispatchTransfer(t) \/ ReceiveTransfer(t)
                                  \/ RecallTransfer(t))
    BY DEF LedgerStep, AdjustStock, PlaceOrder, PayOrder, StartFulfilling, FinishOrder,
       CancelUnfulfilled, CancelFulfilling, IngestSale
  <2> QED BY <2>1, <2>3, <2>4, <2>5
<1> QED BY <1>2 DEF LifeInv

-----------------------------------------------------------------------------
(***************************************************************************)
(* Steps of the stores API.                                                *)
(***************************************************************************)
\* Nothing of the ledger but takenAt changes.
LEMMA OnlyTakenAt ==
    ASSUME KeptInv, takenAt' \in [Orders -> Stores \cup {NoStore}],
           UNCHANGED <<rows, stock, onHand, lots, order, lines, consumed, deliveries, transfer,
                       saleVars, adjustVars, lotted>>
    PROVE  KeptInv'
<1>1. TypeOK' /\ LedgerInv' /\ LotsCoverStock'
  BY LedgerUnchanged DEF KeptInv, IInv, TypeOK, ledgerVars, saleVars, adjustVars
<1>2. NeverOversold' /\ CogsFollowsOrders'
  BY DEF KeptInv, IInv, saleVars, NeverOversold, CogsFollowsOrders
<1>3. ASSUME NEW v \in Variants
      PROVE  /\ InTransit(v)' = InTransit(v) /\ TakenByOrders(v)' = TakenByOrders(v)
             /\ SoldByPos(v)' = SoldByPos(v)
  BY SumsUnchanged DEF saleVars
<1>4. UnitsConserved'
  BY <1>3 DEF KeptInv, IInv, adjustVars, UnitsConserved, Backfilled
<1>5. LotsOfLotted' /\ RowHasCause'
  BY DEF KeptInv, LotsOfLotted, RowHasCause, saleVars
<1> QED BY <1>1, <1>2, <1>4, <1>5 DEF KeptInv, IInv

LEMMA SameLedger ==
    ASSUME KeptInv, UNCHANGED <<vars, lotted>>
    PROVE  KeptInv'
<1>1. takenAt' \in [Orders -> Stores \cup {NoStore}]
  BY DEF KeptInv, IInv, TypeOK, vars, orderVars
<1> QED BY <1>1, OnlyTakenAt DEF vars, ledgerVars, orderVars

\* A store that is deleted without a sale had no rows.
LEMMA DeletedHeldNothing ==
    ASSUME LifeInv, KeptInv, NEW s \in Stores \ {Default}, s \notin lotted, sold[s] = Nothing
    PROVE  rows \ ({s} \X Variants) = rows /\ [stock EXCEPT ![s] = Nothing] = stock
<1>1. \A v \in Variants : sold[s][v] = 0
  BY NothingType
<1>2. \A v \in Variants : <<s, v>> \notin rows
  BY <1>1 DEF KeptInv, RowHasCause
<1>3. \A v \in Variants : stock[s][v] = 0
  BY <1>2 DEF KeptInv, IInv, LedgerInv, NoRowNoStock
<1>4. stock \in [Stores -> [Variants -> Int]] /\ rows \subseteq Stores \X Variants
  BY DEF KeptInv, IInv, TypeOK
<1>5. stock[s] = Nothing
  BY <1>3, <1>4 DEF Nothing
<1> QED BY <1>2, <1>4, <1>5

LEMMA DeleteStoreInv ==
    ASSUME AdminInv, NEW s \in Stores, DeleteStore(s)
    PROVE  AdminInv'
<1>1. /\ s \in deleting /\ s \in Stores \ {Default} /\ s \notin lotted /\ ~ OnTransfer(s)
      /\ life' = [life EXCEPT ![s] = "deleted"] /\ deleting' = deleting \ {s}
  BY DEF DeleteStore, AdminInv, LifeInv, Restricted
<1>2. LifeInv'
  <2>1. \A x \in Live : x # s => x \in Live'
    BY <1>1 DEF Live, AdminInv, LifeInv
  <2>2. TransfersHaveStores'
    BY <1>1, <2>1 DEF AdminInv, LifeInv, TransfersHaveStores, OnTransfer, DeleteStore
  <2> QED BY <1>1, <2>2 DEF AdminInv, LifeInv, DeleteStore
<1>3. ASSUME Unsold' PROVE KeptInv'
  <2>1. sold' = sold
    BY DEF DeleteStore, saleVars
  <2>2. Unsold /\ sold[s] = Nothing
    BY <1>1, <1>3, <2>1 DEF Unsold, AdminInv, LifeInv
  <2>3. rows' = rows /\ stock' = stock
    BY <1>1, <2>2, DeletedHeldNothing DEF AdminInv, DeleteStore
  <2>4. takenAt' \in [Orders -> Stores \cup {NoStore}]
    BY <2>2 DEF AdminInv, KeptInv, IInv, TypeOK, DeleteStore
  <2> QED BY <2>2, <2>3, <2>4, OnlyTakenAt DEF AdminInv, DeleteStore
<1> QED BY <1>2, <1>3 DEF AdminInv

\* The steps that change no table of the ledger.
LEMMA RequestInv ==
    ASSUME AdminInv, NEW s \in Stores, CreateStore(s) \/ CheckDelete(s) \/ RefuseDelete(s)
    PROVE  AdminInv'
<1>1. UNCHANGED <<vars, lotted>>
  BY DEF CreateStore, CheckDelete, RefuseDelete
<1>2. /\ life' \in [Stores -> {"unborn", "live", "deleted"}] /\ life'[Default] = "live"
      /\ Live \subseteq Live'
      /\ \A x \in Stores : life'[x] = "deleted" <=> life[x] = "deleted"
  <2>1. CASE CreateStore(s)
    <3>1. life' = [life EXCEPT ![s] = "live"] /\ life[s] = "unborn"
      BY <2>1 DEF CreateStore
    <3>2. life \in [Stores -> {"unborn", "live", "deleted"}] /\ life[Default] = "live"
      BY DEF AdminInv, LifeInv
    <3>3. \A x \in Stores : life'[x] = IF x = s THEN "live" ELSE life[x]
      BY <3>1, <3>2
    <3>4. Live \subseteq Live'
      BY <3>3 DEF Live
    <3>5. life' \in [Stores -> {"unborn", "live", "deleted"}]
      BY <3>1, <3>2
    <3>6. life'[Default] = "live"
      BY <3>2, <3>3, StoresAssumption
    <3> QED BY <3>1, <3>3, <3>4, <3>5, <3>6
  <2>2. CASE CheckDelete(s) \/ RefuseDelete(s)
    BY <2>2 DEF AdminInv, LifeInv, CheckDelete, RefuseDelete, Live
  <2> QED BY <2>1, <2>2
<1>3. deleting' \subseteq Stores \ {Default}
  BY DEF AdminInv, LifeInv, CreateStore, CheckDelete, RefuseDelete, Live
<1>4. UNCHANGED <<transfer, sold>>
  BY <1>1 DEF vars, saleVars
<1>5. LifeInv'
  BY <1>2, <1>3, <1>4 DEF AdminInv, LifeInv, TransfersHaveStores
<1>6. Unsold' => Unsold
  BY <1>2, <1>4 DEF Unsold
<1> QED BY <1>1, <1>5, <1>6, SameLedger DEF AdminInv

-----------------------------------------------------------------------------
LEMMA AdminInitInv == AdminInit => AdminInv
<1> SUFFICES ASSUME AdminInit PROVE AdminInv
  OBVIOUS
<1>1. IInv
  BY InitInv DEF AdminInit
<1>2. LifeInv
  BY <1>1, StoresAssumption DEF AdminInit, LifeInv, TransfersHaveStores, Init, IInv, TypeOK
<1>3. LotsOfLotted
  BY NothingType DEF AdminInit, Init, LotsOfLotted
<1>4. RowHasCause
  BY DEF AdminInit, Init, RowHasCause
<1> QED BY <1>1, <1>2, <1>3, <1>4 DEF AdminInv, KeptInv

LEMMA AdminStepInv == AdminInv /\ [AdminNext]_storeVars => AdminInv'
<1> SUFFICES ASSUME AdminInv, [AdminNext]_storeVars PROVE AdminInv'
  OBVIOUS
<1>1. ASSUME NEW s \in Stores, CreateStore(s) \/ CheckDelete(s) \/ DeleteStore(s) \/ RefuseDelete(s)
      PROVE  AdminInv'
  BY <1>1, DeleteStoreInv, RequestInv
<1>2. CASE Moved
  <2>1. LedgerStep /\ Lotting /\ UNCHANGED <<life, deleting>>
    BY <1>2 DEF Moved, Lotting
  <2>2. LifeInv'
    BY <2>1, TransfersKeepStores DEF AdminInv
  <2>3. Unsold' => KeptInv'
    BY <2>1, UnsoldBefore, LedgerStepKept DEF AdminInv
  <2> QED BY <2>2, <2>3 DEF AdminInv
<1>3. CASE UNCHANGED storeVars
  <2>1. UNCHANGED <<vars, lotted, life, deleting, transfer, sold>>
    BY <1>3 DEF storeVars, adminVars, vars, saleVars
  <2>2. LifeInv' /\ (Unsold' => Unsold)
    BY <2>1 DEF AdminInv, LifeInv, TransfersHaveStores, Live, Unsold
  <2> QED BY <2>1, <2>2, SameLedger DEF AdminInv
<1> QED BY <1>1, <1>2, <1>3 DEF AdminNext

LEMMA AdminInvariance == AdminSpec => []AdminInv
BY AdminInitInv, AdminStepInv, PTL DEF AdminSpec

\* A transfer always finds both its stores, however deletions interleave with
\* drafts (the foreign keys behind DELETE /api/stores/[id]).
THEOREM StoresOfTransfers == AdminSpec => []TransfersHaveStores
<1>1. AdminInv => TransfersHaveStores
  BY DEF AdminInv, LifeInv
<1> QED BY <1>1, AdminInvariance, PTL

\* Deleting a store leaves the aggregate the sum of the stores, unless a POS
\* sold there (the count of stock runs before the transaction that deletes).
THEOREM AggregateOutlivesStores == AdminSpec => []AggregateSurvives
<1>1. AdminInv => AggregateSurvives
  BY DEF AdminInv, KeptInv, IInv, LedgerInv, AggregateSurvives
<1> QED BY <1>1, AdminInvariance, PTL

\* No unit is deleted with a store, unless a POS sold there.
THEOREM UnitsOutliveStores == AdminSpec => []UnitsSurvive
<1>1. AdminInv => UnitsSurvive
  BY DEF AdminInv, KeptInv, IInv, UnitsSurvive
<1> QED BY <1>1, AdminInvariance, PTL
-----------------------------------------------------------------------------
(***************************************************************************)
(* What holds of StoreAdmin whatever was sold at a store before it was     *)
(* deleted.  The aggregate then keeps the negative balance of a store that *)
(* is gone: it is at most the sum of the stores (AggregateAtMost), and     *)
(* below zero by at most what was sold anywhere (AggregateDebt).           *)
(***************************************************************************)
HasRow(v) == \E s \in Stores : <<s, v>> \in rows

RowsOfLiving == \A s \in Stores, v \in Variants : life[s] = "deleted" => <<s, v>> \notin rows

SoldHasRow ==
    \A s \in Stores, v \in Variants : sold[s][v] > 0 => <<s, v>> \in rows \/ life[s] = "deleted"

AggregateAtMost ==
    \A v \in Variants : onHand[v] <= IF HasRow(v) THEN SumOfStores(stock, v) ELSE Opening[v]

AggregateDebt == \A v \in Variants : onHand[v] + SoldByPos(v) >= 0

DebtInv ==
    /\ TypeOK
    /\ lotted \subseteq Stores
    /\ NoRowNoStock
    /\ LotsOfLotted
    /\ LotsCoverStock
    /\ RowsOfLiving
    /\ SoldHasRow
    /\ AggregateAtMost
    /\ AggregateDebt
    /\ DebtIsSold

LEMMA BalanceTypes ==
    ASSUME TypeOK, NEW s \in Stores, NEW v \in Variants
    PROVE  /\ sold[s][v] \in Nat /\ stock[s][v] \in Int /\ lots[s][v] \in Nat
           /\ onHand[v] \in Int /\ Opening[v] \in Nat
BY OpeningType DEF TypeOK, Basket

LEMMA DeadType ==
    ASSUME TypeOK, NEW v \in Variants
    PROVE  /\ [s \in Stores |-> IF life[s] = "deleted" THEN sold[s][v] ELSE 0] \in [Stores -> Nat]
           /\ SoldWhereDeleted(v) \in Nat
<1> DEFINE dead == [s \in Stores |-> IF life[s] = "deleted" THEN sold[s][v] ELSE 0]
<1>1. dead \in [Stores -> Nat]
  BY BalanceTypes
<1> HIDE DEF dead
<1>2. SumFunction(dead) \in Nat
  BY <1>1, SumNatural, FiniteAssumption
<1> QED BY <1>1, <1>2 DEF SoldWhereDeleted, dead

\* Balances that are each below zero by at most what was sold are so together,
\* also if one of them owes in place of stores that are gone.
LEMMA SumOfDebts ==
    ASSUME NEW q \in Quantities, NEW z \in Quantities, NEW v \in Variants,
           NEW dead \in [Stores -> Nat], dead[Default] = 0,
           \A s \in Stores : s # Default => q[s][v] + z[s][v] >= dead[s],
           q[Default][v] + z[Default][v] + SumFunction(dead) >= 0
    PROVE  SumOfStores(q, v) + SumOfStores(z, v) >= 0
<1> DEFINE have == [s \in Stores |-> q[s][v]]
           gone == [s \in Stores |-> z[s][v]]
           both == [s \in Stores |-> q[s][v] + z[s][v]]
           rest == [s \in Stores |-> both[s] - dead[s]]
           others == [s \in Stores |-> IF s = Default THEN 0 ELSE rest[s]]
<1>1. /\ have \in [Stores -> Int] /\ gone \in [Stores -> Int] /\ both \in [Stores -> Int]
      /\ dead \in [Stores -> Int] /\ rest \in [Stores -> Int]
  BY DEF Quantities
<1>2. /\ \A s \in Stores : both[s] = have[s] + gone[s]
      /\ \A s \in Stores : both[s] = rest[s] + dead[s]
  BY <1>1
<1>3. others \in [Stores -> Nat]
  <2> SUFFICES ASSUME NEW s \in Stores, s # Default PROVE rest[s] \in Nat
    OBVIOUS
  <2>1. both[s] \in Int /\ dead[s] \in Nat /\ both[s] >= dead[s]
    BY <1>1
  <2> QED BY <2>1
<1>4. /\ others[Default] = 0 /\ rest[Default] = q[Default][v] + z[Default][v]
      /\ \A s \in Stores : s # Default => rest[s] = others[s]
  BY StoresAssumption DEF Quantities
<1>5. SumOfStores(q, v) = SumFunction(have) /\ SumOfStores(z, v) = SumFunction(gone)
  BY DEF SumOfStores
<1> HIDE DEF have, gone, both, rest, others
<1>6. SumFunction(both) = SumFunction(have) + SumFunction(gone)
  BY <1>1, <1>2, SumAdd, FiniteAssumption
<1>7. SumFunction(both) = SumFunction(rest) + SumFunction(dead)
  BY <1>1, <1>2, SumAdd, FiniteAssumption
<1>8. others \in [Stores -> Int]
  BY <1>3
<1>9. SumFunction(rest) = SumFunction(others) + (rest[Default] - others[Default])
  BY <1>1, <1>4, <1>8, SumChange, StoresAssumption, FiniteAssumption
<1>10. SumFunction(others) \in Nat /\ SumFunction(dead) \in Int
  BY <1>1, <1>3, SumNatural, SumType, FiniteAssumption
<1>11. rest[Default] \in Int
  BY <1>1, StoresAssumption
<1> QED BY <1>4, <1>5, <1>6, <1>7, <1>9, <1>10, <1>11

\* Where a variant has no row left, all that was sold of it was sold at stores
\* that are deleted.
LEMMA SoldWithoutRows ==
    ASSUME TypeOK, SoldHasRow, NEW v \in Variants, ~ HasRow(v)
    PROVE  SoldByPos(v) = SoldWhereDeleted(v)
<1>1. \A s \in Stores : sold[s][v] = IF life[s] = "deleted" THEN sold[s][v] ELSE 0
  BY BalanceTypes DEF SoldHasRow, HasRow
<1>2. [s \in Stores |-> sold[s][v]]
        = [s \in Stores |-> IF life[s] = "deleted" THEN sold[s][v] ELSE 0]
  BY <1>1
<1> QED BY <1>2 DEF SoldByPos, SumOfStores, SoldWhereDeleted

\* The balance a movement starts from.
LEMMA BeforeIsCovered ==
    ASSUME DebtInv, NEW s \in Stores, NEW v \in Variants
    PROVE  /\ Before(s, v) \in Int
           /\ Before(s, v) <= lots[s][v] + (IF s = Default THEN Opening[v] ELSE 0)
           /\ Before(s, v) + sold[s][v] + (IF s = Default THEN SoldWhereDeleted(v) ELSE 0) >= 0
<1>1. TypeOK /\ SoldWhereDeleted(v) \in Nat
  BY DeadType DEF DebtInv
<1>2. /\ stock[s][v] <= lots[s][v] + (IF s = Default THEN Opening[v] ELSE 0)
      /\ stock[s][v] + sold[s][v] + (IF s = Default THEN SoldWhereDeleted(v) ELSE 0) >= 0
  BY DEF DebtInv, LotsCoverStock, DebtIsSold
<1>3. CASE <<s, v>> \in rows
  BY <1>1, <1>2, <1>3, BeforeType DEF Before
<1>4. CASE <<s, v>> \notin rows /\ s = Default /\ ~ HasRow(v)
  <2>1. Before(s, v) = onHand[v]
    BY <1>4 DEF Before, SeedQuantity, HasRow
  <2>2. onHand[v] <= Opening[v] /\ onHand[v] + SoldByPos(v) >= 0
    BY <1>4 DEF DebtInv, AggregateAtMost, AggregateDebt
  <2>3. SoldByPos(v) = SoldWhereDeleted(v)
    BY <1>1, <1>4, SoldWithoutRows DEF DebtInv
  <2> QED BY <1>1, <1>4, <2>1, <2>2, <2>3, BalanceTypes
<1>5. CASE <<s, v>> \notin rows /\ ~ (s = Default /\ ~ HasRow(v))
  <2>1. Before(s, v) = 0 /\ stock[s][v] = 0
    BY <1>5 DEF Before, SeedQuantity, HasRow, DebtInv, NoRowNoStock
  <2> QED BY <1>1, <1>2, <2>1
<1> QED BY <1>3, <1>4, <1>5

\* A movement at a live store pays for what it takes or sells it.
LEMMA MovementDebt ==
    ASSUME DebtInv, life[Default] = "live", UNCHANGED life, Lotting, TypeOK',
           NEW s \in Stores, life[s] = "live", NEW d \in Movement, applyStockMovement(s, d),
           \A t \in Stores, v \in Variants : t # s \/ d[v] = 0 => sold'[t][v] = sold[t][v],
           \A v \in Variants : d[v] # 0 =>
               \/ sold'[s][v] = sold[s][v] /\ Before(s, v) + d[v] >= 0
               \/ sold'[s][v] = sold[s][v] - d[v] /\ d[v] < 0
    PROVE  DebtInv'
<1>1. /\ TypeOK /\ NoRowNoStock /\ LotsOfLotted /\ LotsCoverStock /\ RowsOfLiving /\ SoldHasRow
      /\ AggregateAtMost /\ AggregateDebt /\ DebtIsSold /\ lotted \subseteq Stores
  BY DEF DebtInv
<1>2. /\ stock \in Quantities /\ stock' \in Quantities
      /\ \A t \in Stores, v \in Variants : t # s \/ d[v] = 0 => stock'[t][v] = stock[t][v]
      /\ \A v \in Variants : d[v] # 0 => stock'[s][v] = Before(s, v) + d[v]
  BY <1>1, MovementStock DEF TypeOK, Quantities
<1>3. /\ \A t \in Stores, v \in Variants : <<t, v>> \in rows' <=> <<t, v>> \in rows \/ (t = s /\ d[v] # 0)
      /\ \A v \in Variants : onHand'[v] = IF d[v] # 0 THEN SumOfStores(stock', v) ELSE onHand[v]
  BY DEF applyStockMovement
<1>4. \A t \in Stores, v \in Variants :
        /\ sold[t][v] \in Nat /\ sold'[t][v] \in Nat /\ stock[t][v] \in Int /\ lots[t][v] \in Nat
        /\ d[v] \in Int /\ Opening[v] \in Nat
  BY <1>1, BalanceTypes DEF Movement, TypeOK, Basket
<1>5. \A v \in Variants : SoldWhereDeleted(v)' = SoldWhereDeleted(v) /\ SoldWhereDeleted(v) \in Nat
  <2> SUFFICES ASSUME NEW v \in Variants
               PROVE  SoldWhereDeleted(v)' = SoldWhereDeleted(v) /\ SoldWhereDeleted(v) \in Nat
    OBVIOUS
  <2>1. \A t \in Stores : life[t] = "deleted" => sold'[t][v] = sold[t][v]
    OBVIOUS
  <2>2. [t \in Stores |-> IF life'[t] = "deleted" THEN sold'[t][v] ELSE 0]
          = [t \in Stores |-> IF life[t] = "deleted" THEN sold[t][v] ELSE 0]
    BY <2>1
  <2> QED BY <1>1, <2>2, DeadType DEF SoldWhereDeleted
<1>6. NoRowNoStock'
  BY <1>1, <1>2, <1>3 DEF NoRowNoStock
<1>7. LotsOfLotted' /\ lotted' \subseteq Stores
  BY <1>1, LotsStayLotted DEF Lotting
<1>8. LotsCoverStock'
  <2> SUFFICES ASSUME NEW t \in Stores, NEW v \in Variants
               PROVE  stock'[t][v] <= lots'[t][v] + (IF t = Default THEN Opening[v] ELSE 0)
    BY DEF LotsCoverStock
  <2>1. stock[t][v] <= lots[t][v] + (IF t = Default THEN Opening[v] ELSE 0)
    BY <1>1 DEF LotsCoverStock
  <2>2. CASE t # s
    BY <1>1, <1>2, <2>1, <2>2, MovementLots
  <2>3. CASE t = s
    <3>1. lots'[s][v] \in Int /\ lots'[s][v] >= lots[s][v] + d[v]
      BY <1>1, <1>4, MovementLots, LotUnitsType
    <3>2. /\ Before(s, v) \in Int
          /\ Before(s, v) <= lots[s][v] + (IF s = Default THEN Opening[v] ELSE 0)
      BY BeforeIsCovered
    <3>3. stock'[s][v] = stock[s][v] + d[v] \/ stock'[s][v] = Before(s, v) + d[v]
      BY <1>2, <1>4
    <3> QED BY <1>4, <2>1, <2>3, <3>1, <3>2, <3>3
  <2> QED BY <2>2, <2>3
<1>9. RowsOfLiving'
  BY <1>1, <1>3 DEF RowsOfLiving
<1>10. SoldHasRow'
  <2> SUFFICES ASSUME NEW t \in Stores, NEW v \in Variants, sold'[t][v] > 0, <<t, v>> \notin rows'
               PROVE  life[t] = "deleted"
    BY DEF SoldHasRow
  <2>1. t # s \/ d[v] = 0
    BY <1>3
  <2>2. sold[t][v] > 0 /\ <<t, v>> \notin rows
    BY <1>3, <2>1
  <2> QED BY <1>1, <2>2 DEF SoldHasRow
<1>11. AggregateAtMost'
  <2> SUFFICES ASSUME NEW v \in Variants
               PROVE  onHand'[v] <= IF HasRow(v)' THEN SumOfStores(stock', v) ELSE Opening[v]
    BY DEF AggregateAtMost
  <2>1. SumOfStores(stock', v) \in Int
    BY <1>2, SumOfStoresType
  <2>2. CASE d[v] # 0
    <3>1. HasRow(v)'
      BY <1>3, <2>2 DEF HasRow
    <3> QED BY <1>3, <2>1, <2>2, <3>1
  <2>3. CASE d[v] = 0
    <3>1. HasRow(v)' <=> HasRow(v)
      BY <1>3, <2>3 DEF HasRow
    <3>2. SumOfStores(stock', v) = SumOfStores(stock, v)
      BY <1>2, <2>3, SumOfStoresSame
    <3> QED BY <1>1, <1>3, <2>3, <3>1, <3>2 DEF AggregateAtMost
  <2> QED BY <2>2, <2>3
<1>12. DebtIsSold'
  <2> SUFFICES ASSUME NEW t \in Stores, NEW v \in Variants
               PROVE  stock'[t][v] + sold'[t][v]
                        + (IF t = Default THEN SoldWhereDeleted(v) ELSE 0) >= 0
    BY <1>5 DEF DebtIsSold
  <2>1. stock[t][v] + sold[t][v] + (IF t = Default THEN SoldWhereDeleted(v) ELSE 0) >= 0
    BY <1>1 DEF DebtIsSold
  <2>2. CASE t # s \/ d[v] = 0
    BY <1>2, <2>1, <2>2
  <2>3. CASE t = s /\ d[v] # 0
    <3>1. /\ Before(s, v) \in Int
          /\ Before(s, v) + sold[s][v] + (IF s = Default THEN SoldWhereDeleted(v) ELSE 0) >= 0
      BY BeforeIsCovered
    <3>2. stock'[s][v] = Before(s, v) + d[v]
      BY <1>2, <2>3
    <3>3. \/ sold'[s][v] = sold[s][v] /\ Before(s, v) + d[v] >= 0
          \/ sold'[s][v] = sold[s][v] - d[v]
      BY <2>3
    <3> QED BY <1>4, <1>5, <2>3, <3>1, <3>2, <3>3
  <2> QED BY <2>2, <2>3
<1>13. AggregateDebt'
  <2> SUFFICES ASSUME NEW v \in Variants PROVE onHand'[v] + SoldByPos(v)' >= 0
    BY DEF AggregateDebt
  <2>1. CASE d[v] # 0
    <3> DEFINE dead == [t \in Stores |-> IF life[t] = "deleted" THEN sold[t][v] ELSE 0]
    <3>1. dead \in [Stores -> Nat] /\ SumFunction(dead) = SoldWhereDeleted(v)
      BY <1>1, DeadType DEF SoldWhereDeleted
    <3>2. dead[Default] = 0
      BY StoresAssumption
    <3>3. \A t \in Stores : t # Default => stock'[t][v] + sold'[t][v] >= dead[t]
      <4> SUFFICES ASSUME NEW t \in Stores, t # Default
                   PROVE  stock'[t][v] + sold'[t][v] >= dead[t]
        OBVIOUS
      <4>1. CASE life[t] = "deleted"
        <5>1. stock'[t][v] = 0 /\ sold'[t][v] = sold[t][v]
          BY <1>6, <1>9, <4>1 DEF RowsOfLiving, NoRowNoStock
        <5> QED BY <1>4, <4>1, <5>1
      <4>2. CASE life[t] # "deleted"
        <5>1. stock'[t][v] + sold'[t][v] + 0 >= 0
          BY <1>12 DEF DebtIsSold
        <5>2. stock'[t][v] \in Int
          BY <1>2 DEF Quantities
        <5> QED BY <1>4, <4>2, <5>1, <5>2
      <4> QED BY <4>1, <4>2
    <3>4. stock'[Default][v] + sold'[Default][v] + SumFunction(dead) >= 0
      BY <1>5, <1>12, <3>1, StoresAssumption DEF DebtIsSold
    <3> HIDE DEF dead
    <3>5. sold' \in Quantities
      BY DEF TypeOK, Basket, Quantities
    <3>6. SumOfStores(stock', v) + SumOfStores(sold', v) >= 0
      BY <1>2, <3>1, <3>2, <3>3, <3>4, <3>5, SumOfDebts
    <3> QED BY <1>3, <2>1, <3>6 DEF SoldByPos
  <2>2. CASE d[v] = 0
    <3>1. sold \in Quantities /\ sold' \in Quantities
      BY <1>1 DEF TypeOK, Basket, Quantities
    <3>2. SoldByPos(v)' = SoldByPos(v)
      BY <2>2, <3>1, SumOfStoresSame DEF SoldByPos
    <3> QED BY <1>1, <1>3, <2>2, <3>2 DEF AggregateDebt
  <2> QED BY <2>1, <2>2
<1> QED BY <1>6, <1>7, <1>8, <1>9, <1>10, <1>11, <1>12, <1>13 DEF DebtInv
\* What a step of the ledger does to stock: nothing, a movement whose balance
\* is checked, or a sale, at a live store.
LEMMA LedgerMoves ==
    ASSUME TypeOK, LifeInv, LedgerStep
    PROVE  \/ UNCHANGED <<ledgerVars, sold>>
           \/ \E s \in Live, d \in Movement :
                Accepted(s, d) /\ applyStockMovement(s, d) /\ UNCHANGED sold
           \/ \E s \in Live, b \in Basket :
                /\ applyStockMovement(s, Out(b))
                /\ sold' = [sold EXCEPT ![s] = [v \in Variants |-> sold[s][v] + b[v]]]
<1> DEFINE Checked == \E s \in Live, d \in Movement :
                        Accepted(s, d) /\ applyStockMovement(s, d) /\ UNCHANGED sold
           Sold == \E s \in Live, b \in Basket :
                     /\ applyStockMovement(s, Out(b))
                     /\ sold' = [sold EXCEPT ![s] = [v \in Variants |-> sold[s][v] + b[v]]]
<1>0. /\ \A o \in Orders : lines[o] \in Basket
      /\ \A t \in Transfers : transfer[t].items \in Basket
  BY TransferType DEF TypeOK
<1>1. ASSUME NEW s \in Live, NEW v \in Variants, NEW delta \in Deltas, AdjustStock(s, v, delta)
      PROVE  Checked
  <2> DEFINE d == [w \in Variants |-> IF w = v THEN delta ELSE 0]
  <2>1. d \in Movement
    BY DeltasAssumption DEF Movement
  <2>2. Accepted(s, d) /\ applyStockMovement(s, d) /\ UNCHANGED sold
    BY <1>1 DEF AdjustStock, saleVars
  <2> HIDE DEF d
  <2> QED BY <2>1, <2>2
<1>2. ASSUME NEW o \in Orders, NEW s \in Live, StartFulfilling(o, s)
      PROVE  Checked
  <2>1. Out(lines[o]) \in Movement
    BY <1>0, OutType
  <2> QED BY <1>2, <2>1 DEF StartFulfilling, saleVars
<1>3. ASSUME NEW o \in Orders, NEW s \in Live, CancelFulfilling(o, s)
      PROVE  Checked
  <2>1. lines[o] \in Movement
    BY <1>0, OutType
  <2> QED BY <1>3, <2>1 DEF CancelFulfilling, saleVars
<1>4. ASSUME NEW t \in Transfers, transfer[t].from \in Live, DispatchTransfer(t)
      PROVE  Checked
  <2>1. Out(transfer[t].items) \in Movement
    BY <1>0, OutType
  <2> QED BY <1>4, <2>1 DEF DispatchTransfer, MoveTransfer, saleVars
<1>5. ASSUME NEW t \in Transfers, transfer[t].to \in Live, ReceiveTransfer(t)
      PROVE  Checked
  <2>1. transfer[t].items \in Movement
    BY <1>0, OutType
  <2> QED BY <1>5, <2>1 DEF ReceiveTransfer, MoveTransfer, saleVars
<1>6. ASSUME NEW t \in Transfers, transfer[t].from \in Live, RecallTransfer(t)
      PROVE  Checked
  <2>1. transfer[t].items \in Movement
    BY <1>0, OutType
  <2> QED BY <1>6, <2>1 DEF RecallTransfer, MoveTransfer, saleVars
<1>7. ASSUME NEW e \in Sales, NEW location, NEW b \in Baskets, NEW miss \in BOOLEAN,
             IngestSale(e, IF location \in Live THEN location ELSE NoStore, b, miss)
      PROVE  Sold
  <2> DEFINE s == IF location \in Live THEN location ELSE Default
  <2>1. s \in Live /\ b \in Basket
    BY StoresAssumption, BasketsAssumption DEF LifeInv, Live
  <2>2. s = IF (IF location \in Live THEN location ELSE NoStore) \in Stores
            THEN (IF location \in Live THEN location ELSE NoStore) ELSE Default
    BY StoresAssumption DEF Live
  <2>3. /\ applyStockMovement(s, Out(b))
        /\ sold' = [sold EXCEPT ![s] = [v \in Variants |-> sold[s][v] + b[v]]]
    BY <1>7, <2>2 DEF IngestSale
  <2> HIDE DEF s
  <2> QED BY <2>1, <2>3
<1>8. ASSUME NEW o \in Orders,
             (\E b \in Baskets : PlaceOrder(o, b)) \/ PayOrder(o) \/ FinishOrder(o)
               \/ CancelUnfulfilled(o)
      PROVE  UNCHANGED <<ledgerVars, sold>>
  BY <1>8 DEF PlaceOrder, PayOrder, FinishOrder, CancelUnfulfilled, saleVars
<1>9. ASSUME NEW t \in Transfers,
             (\E from, to \in Live, b \in Baskets : DraftTransfer(t, from, to, b))
               \/ CancelDraftTransfer(t)
      PROVE  UNCHANGED <<ledgerVars, sold>>
  BY <1>9 DEF DraftTransfer, CancelDraftTransfer, MoveTransfer, saleVars
<1> HIDE DEF Checked, Sold
<1>10. UNCHANGED <<ledgerVars, sold>> \/ Checked \/ Sold
  BY <1>1, <1>2, <1>3, <1>4, <1>5, <1>6, <1>7, <1>8, <1>9 DEF LedgerStep
<1> QED BY <1>10 DEF Checked, Sold

\* The tables a step of the ledger writes besides stock.
LEMMA LedgerTables ==
    ASSUME TypeOK, LifeInv, LedgerStep, UNCHANGED <<life, deleting>>
    PROVE  /\ order' \in [Orders -> OrderStatus] /\ lines' \in [Orders -> Basket]
           /\ consumed' \in [Orders -> Basket] /\ takenAt' \in [Orders -> Stores \cup {NoStore}]
           /\ deliveries' \subseteq Orders
           /\ processed' \subseteq Sales /\ unmatched' \subseteq Sales
           /\ adjusted' \in [Variants -> Int] /\ adjustments' \in Nat
<1> DEFINE OrderTables == /\ order' \in [Orders -> OrderStatus] /\ lines' \in [Orders -> Basket]
                          /\ consumed' \in [Orders -> Basket]
                          /\ takenAt' \in [Orders -> Stores \cup {NoStore}]
                          /\ deliveries' \subseteq Orders
           OtherTables == /\ processed' \subseteq Sales /\ unmatched' \subseteq Sales
                          /\ adjusted' \in [Variants -> Int] /\ adjustments' \in Nat
<1>1. ASSUME UNCHANGED orderVars PROVE OrderTables
  BY <1>1 DEF TypeOK, orderVars
<1>2. ASSUME UNCHANGED <<saleVars, adjustVars>> PROVE OtherTables
  BY <1>2 DEF TypeOK, saleVars, adjustVars
<1>3. ASSUME NEW o \in Orders, NEW b \in Baskets, PlaceOrder(o, b)
      PROVE  OrderTables /\ OtherTables
  BY <1>2, <1>3, BasketsAssumption DEF TypeOK, PlaceOrder, OrderStatus
<1>4. ASSUME NEW o \in Orders, PayOrder(o) \/ FinishOrder(o) \/ CancelUnfulfilled(o)
      PROVE  OrderTables /\ OtherTables
  BY <1>2, <1>4 DEF TypeOK, PayOrder, FinishOrder, CancelUnfulfilled, MoveOrder, OrderStatus
<1>5. ASSUME NEW o \in Orders, NEW s \in Live, StartFulfilling(o, s) \/ CancelFulfilling(o, s)
      PROVE  OrderTables /\ OtherTables
  <2>1. CASE StartFulfilling(o, s)
    BY <1>2, <2>1 DEF TypeOK, StartFulfilling, MoveOrder, OrderStatus, Live
  <2>2. CASE CancelFulfilling(o, s)
    BY <1>2, <2>2, NothingType DEF TypeOK, CancelFulfilling, MoveOrder, OrderStatus, Live
  <2> QED BY <1>5, <2>1, <2>2
<1>6. ASSUME NEW s \in Live, NEW v \in Variants, NEW delta \in Deltas, AdjustStock(s, v, delta)
      PROVE  OrderTables /\ OtherTables
  BY <1>1, <1>6, DeltasAssumption DEF TypeOK, AdjustStock, saleVars
<1>7. ASSUME NEW e \in Sales, NEW location, NEW b \in Baskets, NEW miss \in BOOLEAN,
             IngestSale(e, location, b, miss)
      PROVE  OrderTables /\ OtherTables
  BY <1>1, <1>7 DEF TypeOK, IngestSale, adjustVars
<1>8. ASSUME NEW t \in Transfers,
             \/ \E from, to \in Live, b \in Baskets : DraftTransfer(t, from, to, b)
             \/ DispatchTransfer(t) \/ ReceiveTransfer(t)
             \/ CancelDraftTransfer(t) \/ RecallTransfer(t)
      PROVE  OrderTables /\ OtherTables
  BY <1>1, <1>2, <1>8 DEF DraftTransfer, DispatchTransfer, ReceiveTransfer, CancelDraftTransfer,
     RecallTransfer, MoveTransfer
<1> HIDE DEF OrderTables, OtherTables
<1>9. OrderTables /\ OtherTables
  BY <1>3, <1>4, <1>5, <1>6, <1>7, <1>8 DEF LedgerStep
<1> QED BY <1>9 DEF OrderTables, OtherTables

LEMMA LedgerDebt ==
    ASSUME DebtInv, LifeInv, LedgerStep, Lotting, UNCHANGED <<life, deleting>>
    PROVE  DebtInv'
<1>1. TypeOK /\ life[Default] = "live" /\ Live \subseteq Stores
  BY DEF DebtInv, LifeInv, Live
<1>2. transfer' \in [Transfers -> Transfer]
  BY TransfersKeepStores DEF LifeInv
<1>3. CASE UNCHANGED <<ledgerVars, sold>>
  <2>1. TypeOK'
    BY <1>1, <1>2, <1>3, LedgerTables DEF TypeOK, ledgerVars
  <2>2. lotted' = lotted
    <3>1. \A s \in Stores, v \in Variants : ~ (lots'[s][v] > lots[s][v])
      BY <1>1, <1>3, BalanceTypes DEF ledgerVars
    <3> QED BY <3>1 DEF Lotting
  <2>3. /\ UNCHANGED <<rows, stock, onHand, lots, sold, life>>
        /\ \A v \in Variants : SoldByPos(v)' = SoldByPos(v) /\ SumOfStores(stock, v)' = SumOfStores(stock, v)
        /\ \A v \in Variants : SoldWhereDeleted(v)' = SoldWhereDeleted(v) /\ HasRow(v)' = HasRow(v)
    BY <1>3 DEF ledgerVars, SoldByPos, SumOfStores, SoldWhereDeleted, HasRow
  <2>4. /\ NoRowNoStock' /\ LotsOfLotted' /\ LotsCoverStock' /\ RowsOfLiving' /\ SoldHasRow'
    BY <2>2, <2>3 DEF DebtInv, NoRowNoStock, LotsOfLotted, LotsCoverStock, RowsOfLiving, SoldHasRow
  <2>5. AggregateAtMost' /\ AggregateDebt' /\ DebtIsSold'
    BY <2>3 DEF DebtInv, AggregateAtMost, AggregateDebt, DebtIsSold
  <2> QED BY <2>1, <2>2, <2>4, <2>5 DEF DebtInv
<1>4. ASSUME NEW s \in Live, NEW d \in Movement,
             Accepted(s, d), applyStockMovement(s, d), UNCHANGED sold
      PROVE  DebtInv'
  <2>1. TypeOK'
    BY <1>1, <1>2, <1>4, LedgerTables, MovementTypes DEF TypeOK
  <2>2. \A v \in Variants : d[v] # 0 => Before(s, v) + d[v] >= 0
    BY <1>4 DEF Accepted
  <2> QED BY <1>1, <1>4, <2>1, <2>2, MovementDebt DEF Live
<1>5. ASSUME NEW s \in Live, NEW b \in Basket, applyStockMovement(s, Out(b)),
             sold' = [sold EXCEPT ![s] = [v \in Variants |-> sold[s][v] + b[v]]]
      PROVE  DebtInv'
  <2>1. /\ sold \in [Stores -> Basket]
        /\ \A t \in Stores, v \in Variants : sold[t][v] \in Nat
        /\ \A v \in Variants : b[v] \in Nat /\ Out(b)[v] = -b[v]
    BY <1>1, OutType DEF TypeOK, Basket
  <2>2. sold' \in [Stores -> Basket]
    <3>1. [v \in Variants |-> sold[s][v] + b[v]] \in Basket
      BY <1>1, <2>1 DEF Basket
    <3> QED BY <1>1, <1>5, <2>1, <3>1
  <2>3. Out(b) \in Movement
    BY OutType
  <2>4. TypeOK'
    BY <1>1, <1>2, <1>5, <2>2, <2>3, LedgerTables, MovementTypes DEF TypeOK
  <2>5. \A v \in Variants : sold'[s][v] = sold[s][v] + b[v]
    BY <1>1, <1>5, <2>1
  <2>6. \A t \in Stores, v \in Variants : t # s \/ Out(b)[v] = 0 => sold'[t][v] = sold[t][v]
    BY <1>1, <1>5, <2>1, <2>5
  <2>7. \A v \in Variants : Out(b)[v] # 0 => sold'[s][v] = sold[s][v] - Out(b)[v] /\ Out(b)[v] < 0
    BY <1>1, <2>1, <2>5
  <2> QED BY <1>1, <1>5, <2>3, <2>4, <2>6, <2>7, MovementDebt DEF Live
<1> QED BY <1>1, <1>3, <1>4, <1>5, LedgerMoves

\* A store that is deleted held no lot, so that its balance was not positive.
LEMMA DeleteDebt ==
    ASSUME DebtInv, LifeInv, NEW s \in Stores, DeleteStore(s)
    PROVE  DebtInv'
<1>1. /\ TypeOK /\ NoRowNoStock /\ LotsOfLotted /\ LotsCoverStock /\ RowsOfLiving /\ SoldHasRow
      /\ AggregateAtMost /\ AggregateDebt /\ DebtIsSold /\ lotted \subseteq Stores
  BY DEF DebtInv
<1>2. /\ s \in Stores \ {Default} /\ s \notin lotted /\ life[s] = "live"
      /\ life' = [life EXCEPT ![s] = "deleted"]
      /\ rows' = rows \ ({s} \X Variants)
      /\ stock' = [stock EXCEPT ![s] = Nothing]
      /\ takenAt' = [o \in Orders |-> IF takenAt[o] = s THEN NoStore ELSE takenAt[o]]
      /\ UNCHANGED <<onHand, lots, order, lines, consumed, deliveries, transfer, saleVars,
                     adjustVars, lotted>>
  BY DEF DeleteStore, LifeInv, Restricted, Live
<1>3. stock \in Quantities /\ stock' \in Quantities
  BY <1>1, <1>2, NothingType DEF TypeOK, Quantities, Basket
<1>4. /\ \A v \in Variants : stock'[s][v] = 0
      /\ \A t \in Stores, v \in Variants : t # s => stock'[t][v] = stock[t][v]
  BY <1>2, <1>3, NothingType DEF Quantities
<1>5. \A v \in Variants : lots[s][v] = 0 /\ stock[s][v] <= 0
  BY <1>1, <1>2, BalanceTypes DEF LotsOfLotted, LotsCoverStock
<1>6. TypeOK'
  BY <1>1, <1>2, <1>3 DEF TypeOK, Quantities, saleVars, adjustVars
<1>7. \A t \in Stores, v \in Variants : <<t, v>> \in rows' <=> <<t, v>> \in rows /\ t # s
  BY <1>2
<1>8. \A t \in Stores : life'[t] = IF t = s THEN "deleted" ELSE life[t]
  BY <1>2 DEF LifeInv
<1>9. sold' = sold
  BY <1>2 DEF saleVars
<1>10. NoRowNoStock' /\ LotsOfLotted' /\ RowsOfLiving' /\ SoldHasRow'
  BY <1>1, <1>2, <1>4, <1>7, <1>8, <1>9 DEF NoRowNoStock, LotsOfLotted, RowsOfLiving, SoldHasRow
<1>11. LotsCoverStock'
  BY <1>1, <1>2, <1>4, BalanceTypes DEF LotsCoverStock
<1>12. AggregateDebt'
  BY <1>1, <1>2, <1>9 DEF AggregateDebt, SoldByPos
<1>13. DebtIsSold'
  <2> SUFFICES ASSUME NEW t \in Stores, NEW v \in Variants
               PROVE  stock'[t][v] + sold[t][v]
                        + (IF t = Default THEN SoldWhereDeleted(v)' ELSE 0) >= 0
    BY <1>9 DEF DebtIsSold
  <2>1. stock[t][v] + sold[t][v] + (IF t = Default THEN SoldWhereDeleted(v) ELSE 0) >= 0
    BY <1>1 DEF DebtIsSold
  <2>2. CASE t = s
    BY <1>1, <1>2, <1>4, <2>2, BalanceTypes
  <2>3. CASE t # s /\ t # Default
    BY <1>4, <2>1, <2>3
  <2>4. CASE t = Default
    <3> DEFINE f == [x \in Stores |-> IF life[x] = "deleted" THEN sold[x][v] ELSE 0]
               g == [x \in Stores |-> IF life'[x] = "deleted" THEN sold'[x][v] ELSE 0]
    <3>1. f \in [Stores -> Nat] /\ SumFunction(f) \in Nat /\ SoldWhereDeleted(v) = SumFunction(f)
      BY <1>1, DeadType DEF SoldWhereDeleted
    <3>2. /\ g \in [Stores -> Int] /\ f[s] = 0 /\ g[s] = sold[s][v]
          /\ \A x \in Stores : x # s => g[x] = f[x]
      BY <1>1, <1>2, <1>8, <1>9, BalanceTypes
    <3>3. SoldWhereDeleted(v)' = SumFunction(g)
      BY DEF SoldWhereDeleted
    <3>4. f \in [Stores -> Int]
      BY <3>1
    <3> HIDE DEF f, g
    <3>5. SumFunction(g) = SumFunction(f) + (g[s] - f[s])
      BY <3>2, <3>4, SumChange, FiniteAssumption
    <3>6. SoldWhereDeleted(v)' = SoldWhereDeleted(v) + sold[s][v] /\ SoldWhereDeleted(v) \in Nat
      BY <1>1, <3>1, <3>2, <3>3, <3>5, BalanceTypes
    <3>7. stock'[t][v] = stock[t][v]
      BY <1>2, <1>4, <2>4
    <3> QED BY <1>1, <2>1, <2>4, <3>6, <3>7, BalanceTypes
  <2> QED BY <2>2, <2>3, <2>4
<1>14. AggregateAtMost'
  <2> SUFFICES ASSUME NEW v \in Variants
               PROVE  onHand[v] <= IF HasRow(v)' THEN SumOfStores(stock', v) ELSE Opening[v]
    BY <1>2 DEF AggregateAtMost
  <2>1. SumOfStores(stock', v) = SumOfStores(stock, v) - stock[s][v]
    <3>1. SumOfStores(stock', v) = SumOfStores(stock, v) + (stock'[s][v] - stock[s][v])
      BY <1>3, <1>4, SumOfStoresChange
    <3> QED BY <1>1, <1>3, <1>4, <3>1, BalanceTypes, SumOfStoresType
  <2>2. /\ SumOfStores(stock, v) \in Int /\ stock[s][v] \in Int /\ stock[s][v] <= 0
        /\ onHand[v] \in Int /\ Opening[v] \in Nat
    BY <1>1, <1>3, <1>5, BalanceTypes, SumOfStoresType
  <2>3. CASE ~ HasRow(v)
    <3>1. ~ HasRow(v)' /\ onHand[v] <= Opening[v]
      BY <1>1, <1>7, <2>3 DEF HasRow, AggregateAtMost
    <3> QED BY <3>1
  <2>4. CASE HasRow(v)
    <3>1. onHand[v] <= SumOfStores(stock, v)
      BY <1>1, <2>4 DEF AggregateAtMost
    <3>2. CASE HasRow(v)'
      BY <2>1, <2>2, <3>1, <3>2
    <3>3. CASE ~ HasRow(v)'
      <4>1. \A t \in Stores : stock'[t][v] = 0
        BY <1>10, <3>3 DEF HasRow, NoRowNoStock
      <4>2. SumOfStores(stock', v) = 0
        BY <1>3, <4>1, SumOfStoresZero
      <4> QED BY <2>1, <2>2, <3>1, <3>3, <4>2
    <3> QED BY <3>2, <3>3
  <2> QED BY <2>3, <2>4
<1> QED BY <1>1, <1>2, <1>6, <1>10, <1>11, <1>12, <1>13, <1>14 DEF DebtInv

\* The steps that change no table of the ledger.
LEMMA RequestDebt ==
    ASSUME DebtInv, UNCHANGED <<vars, lotted>>,
           \A x \in Stores : life'[x] = "deleted" <=> life[x] = "deleted"
    PROVE  DebtInv'
<1>1. /\ UNCHANGED <<rows, stock, onHand, lots, sold, lotted>>
      /\ TypeOK'
  BY DEF DebtInv, TypeOK, vars, ledgerVars, orderVars, saleVars, adjustVars
<1>2. \A v \in Variants : SoldWhereDeleted(v)' = SoldWhereDeleted(v)
  <2> SUFFICES ASSUME NEW v \in Variants PROVE SoldWhereDeleted(v)' = SoldWhereDeleted(v)
    OBVIOUS
  <2>1. [x \in Stores |-> IF life'[x] = "deleted" THEN sold'[x][v] ELSE 0]
          = [x \in Stores |-> IF life[x] = "deleted" THEN sold[x][v] ELSE 0]
    BY <1>1
  <2> QED BY <2>1 DEF SoldWhereDeleted
<1>3. \A v \in Variants : /\ SoldByPos(v)' = SoldByPos(v) /\ HasRow(v)' = HasRow(v)
                          /\ SumOfStores(stock, v)' = SumOfStores(stock, v)
  BY <1>1 DEF SoldByPos, SumOfStores, HasRow
<1>4. NoRowNoStock' /\ LotsOfLotted' /\ LotsCoverStock' /\ RowsOfLiving' /\ SoldHasRow'
  BY <1>1 DEF DebtInv, NoRowNoStock, LotsOfLotted, LotsCoverStock, RowsOfLiving, SoldHasRow
<1>5. AggregateAtMost' /\ AggregateDebt' /\ DebtIsSold'
  BY <1>1, <1>2, <1>3 DEF DebtInv, AggregateAtMost, AggregateDebt, DebtIsSold
<1> QED BY <1>1, <1>4, <1>5 DEF DebtInv

LEMMA DebtInit == AdminInit => DebtInv
<1> SUFFICES ASSUME AdminInit PROVE DebtInv
  OBVIOUS
<1>1. IInv /\ life[Default] = "live" /\ \A s \in Stores : life[s] # "deleted"
  BY InitInv, StoresAssumption DEF AdminInit
<1>2. TypeOK /\ NoRowNoStock /\ LotsCoverStock /\ NeverOversold
  BY <1>1 DEF IInv, LedgerInv
<1>3. lotted \subseteq Stores /\ LotsOfLotted /\ RowsOfLiving
  BY <1>1, NothingType DEF AdminInit, Init, LotsOfLotted, RowsOfLiving
<1>4. SoldHasRow
  BY NothingType DEF AdminInit, Init, SoldHasRow
<1>5. AggregateAtMost
  <2> SUFFICES ASSUME NEW v \in Variants
               PROVE  onHand[v] <= IF HasRow(v) THEN SumOfStores(stock, v) ELSE Opening[v]
    BY DEF AggregateAtMost
  <2>1. HasRow(v) => onHand[v] = SumOfStores(stock, v)
    BY <1>1 DEF IInv, LedgerInv, AggregateIsSum, HasRow
  <2>2. onHand[v] = Opening[v] /\ Opening[v] \in Int
    BY OpeningType DEF AdminInit, Init
  <2> QED BY <2>1, <2>2
<1>6. AggregateDebt
  <2> SUFFICES ASSUME NEW v \in Variants PROVE onHand[v] + SoldByPos(v) >= 0
    BY DEF AggregateDebt
  <2>1. sold \in Quantities /\ \A s \in Stores : sold[s][v] = 0
    BY <1>2, NothingType DEF AdminInit, Init, TypeOK, Basket, Quantities
  <2>2. SoldByPos(v) = 0
    BY <2>1, SumOfStoresZero DEF SoldByPos
  <2>3. onHand[v] \in Nat
    BY OpeningType DEF AdminInit, Init
  <2> QED BY <2>2, <2>3
<1>7. DebtIsSold
  <2> SUFFICES ASSUME NEW s \in Stores, NEW v \in Variants
               PROVE  stock[s][v] + sold[s][v]
                        + (IF s = Default THEN SoldWhereDeleted(v) ELSE 0) >= 0
    BY DEF DebtIsSold
  <2>1. stock[s][v] + sold[s][v] >= 0
    BY <1>2 DEF NeverOversold
  <2> QED BY <1>2, <2>1, DeadType, BalanceTypes
<1> QED BY <1>2, <1>3, <1>4, <1>5, <1>6, <1>7 DEF DebtInv

LEMMA DebtStep == AdminInv /\ DebtInv /\ [AdminNext]_storeVars => DebtInv'
<1> SUFFICES ASSUME LifeInv, DebtInv, [AdminNext]_storeVars PROVE DebtInv'
  BY DEF AdminInv
<1>1. ASSUME NEW s \in Stores, CreateStore(s) PROVE DebtInv'
  <2>1. \A x \in Stores : life'[x] = "deleted" <=> life[x] = "deleted"
    BY <1>1 DEF CreateStore, LifeInv
  <2> QED BY <1>1, <2>1, RequestDebt DEF CreateStore
<1>2. ASSUME NEW s \in Stores, CheckDelete(s) \/ RefuseDelete(s) PROVE DebtInv'
  BY <1>2, RequestDebt DEF CheckDelete, RefuseDelete
<1>3. ASSUME NEW s \in Stores, DeleteStore(s) PROVE DebtInv'
  BY <1>3, DeleteDebt
<1>4. CASE Moved
  BY <1>4, LedgerDebt DEF Moved, Lotting
<1>5. CASE UNCHANGED storeVars
  BY <1>5, RequestDebt DEF storeVars, adminVars
<1> QED BY <1>1, <1>2, <1>3, <1>4, <1>5 DEF AdminNext

LEMMA DebtInvariance == AdminSpec => []DebtInv
<1>1. AdminInv /\ DebtInv /\ [AdminNext]_storeVars => DebtInv'
  BY DebtStep
<1> QED BY <1>1, DebtInit, AdminInvariance, PTL DEF AdminSpec

\* Every variable keeps its type while stores are created and deleted.
THEOREM AdminTypeCorrect == AdminSpec => []AdminTypeOK
<1>1. AdminInv /\ DebtInv => AdminTypeOK
  BY DEF AdminInv, LifeInv, DebtInv, AdminTypeOK
<1> QED BY <1>1, AdminInvariance, DebtInvariance, PTL

\* The open lots cover the balance of every store, up to the opening stock at
\* the default store, whatever was sold where a store was deleted.
THEOREM LotsCoverStores == AdminSpec => []LotsCoverStock
<1>1. DebtInv => LotsCoverStock
  BY DEF DebtInv
<1> QED BY <1>1, DebtInvariance, PTL

\* Only what a POS sold takes a balance below zero: at the default store also
\* what was sold at stores deleted since, and nowhere more than that.
THEOREM DebtsAreSales == AdminSpec => []DebtIsSold
<1>1. DebtInv => DebtIsSold
  BY DEF DebtInv
<1> QED BY <1>1, DebtInvariance, PTL

-----------------------------------------------------------------------------
(***************************************************************************)
(* FifoCosting.  What the drain does is shown lot by lot, for a queue of   *)
(* any length; FifoInv is the invariant of the ledger, that the lots sum   *)
(* up to its totals, and which consumption rows there are.                 *)
(***************************************************************************)
Lot == [qty : Nat \ {0}, cost : Nat]

LotUnitCosts(lot) == Same(lot.qty, lot.cost)

LEMMA LotUnitCostsType ==
    ASSUME NEW lot \in Lot
    PROVE  LotUnitCosts(lot) \in Seq(Nat) /\ Len(LotUnitCosts(lot)) = lot.qty
<1>1. lot.qty \in Nat /\ lot.cost \in Nat
  BY DEF Lot
<1> QED BY <1>1, SameIsSeq DEF LotUnitCosts

\* UnitCosts collects the units lot by lot.
LEMMA UnitCostsSteps ==
    ASSUME NEW q \in Seq(Lot)
    PROVE  \E U \in [0..Len(q) -> Seq(Nat)] :
             /\ U[0] = <<>>
             /\ \A i \in 1..Len(q) : U[i] = U[i - 1] \o LotUnitCosts(q[i])
             /\ U[Len(q)] = UnitCosts(q)
<1> DEFINE n == Len(q)
           V == Seq(Nat)
           f == [x \in (1..n) \X V |-> x[2] \o LotUnitCosts(q[x[1]])]
<1>1. n \in Nat /\ DOMAIN q = 1..n /\ \A i \in 1..n : q[i] \in Lot
  BY LenProperties, ElementOfSeq
<1>0. Len(q) = n
  OBVIOUS
<1> HIDE DEF n
<1> DEFINE empty == <<>>
<1>2. empty \in V
  BY EmptySeq
<1>3. ASSUME NEW i \in 1..n, NEW u \in V
      PROVE  f[<<i, u>>] = u \o LotUnitCosts(q[i]) /\ f[<<i, u>>] \in V
  <2>1. u \o LotUnitCosts(q[i]) \in V
    BY <1>1, LotUnitCostsType, ConcatProperties
  <2> HIDE DEF V
  <2>2. <<i, u>> \in (1..n) \X V
    OBVIOUS
  <2> QED BY <2>1, <2>2
<1>4. PICK U \in [0..n -> V] : U[0] = empty /\ \A i \in 1..n : U[i] = f[<<i, U[i - 1]>>]
  <2> HIDE DEF f, V, empty
  <2>1. n \in Nat
    BY <1>1
  <2>2. Closed(n, V, f)
    BY <1>3 DEF Closed
  <2>3. PICK g : IsSteps(n, V, empty, f, g)
    BY <1>2, <2>1, <2>2, StepsExist
  <2> QED BY <2>3 DEF IsSteps
<1>5. ASSUME NEW i \in 1..n PROVE U[i] = U[i - 1] \o LotUnitCosts(q[i])
  <2>1. i - 1 \in 0..n
    BY <1>1
  <2>2. U[i - 1] \in V
    <3> HIDE DEF V
    <3> QED BY <1>4, <2>1
  <2> QED BY <1>3, <1>4, <2>2
<1> DEFINE seqs == [i \in 1..n |-> LotUnitCosts(q[i])]
<1>6. UnitCosts(q) = FlattenSeq(seqs)
  <2>1. [i \in DOMAIN q |-> [j \in 1..q[i].qty |-> q[i].cost]] = seqs
    BY <1>1 DEF LotUnitCosts, Same
  <2> QED BY <2>1 DEF UnitCosts
<1>7. Len(seqs) = n
  BY <1>1
<1>8. U[n] = FlattenSeq(seqs)
  <2>1. CASE n = 0
    <3>1. FlattenSeq(seqs) = seqs
      BY <1>7, <2>1 DEF FlattenSeq
    <3>2. seqs = <<>>
      BY <2>1
    <3> QED BY <1>4, <2>1, <3>1, <3>2
  <2>2. CASE n # 0
    <3> DEFINE R(g) == g = [i \in 1..n |-> IF i = 1 THEN seqs[i] ELSE g[i - 1] \o seqs[i]]
               flatten == CHOOSE g : R(g)
               W == [i \in 1..n |-> U[i]]
    <3>1. FlattenSeq(seqs) = flatten[n]
      BY <1>1, <1>7, <2>2 DEF FlattenSeq
    <3>2. U[1] = seqs[1]
      <4>0. 1 \in 1..n /\ 1 - 1 = 0
        BY <1>1, <2>2
      <4>1. U[1] = <<>> \o LotUnitCosts(q[1]) /\ LotUnitCosts(q[1]) \in Seq(Nat)
        <5>1. U[1] = U[1 - 1] \o LotUnitCosts(q[1])
          BY <1>5, <4>0
        <5>2. U[1 - 1] = <<>>
          BY <1>4, <4>0
        <5> QED BY <1>1, <4>0, <5>1, <5>2, LotUnitCostsType
      <4>2. U[1] = LotUnitCosts(q[1])
        BY <4>1, ConcatEmptySeq
      <4> QED BY <1>1, <2>2, <4>2
    <3>3. R(W)
      <4>1. ASSUME NEW i \in 1..n PROVE U[i] = IF i = 1 THEN seqs[i] ELSE W[i - 1] \o seqs[i]
        <5>1. CASE i = 1
          BY <3>2, <5>1
        <5>2. CASE i # 1
          <6>1. i - 1 \in 1..n
            BY <1>1, <5>2
          <6>2. W[i - 1] = U[i - 1]
            BY <6>1
          <6> QED BY <1>5, <5>2, <6>2
        <5> QED BY <5>1, <5>2
      <4> QED BY <4>1
    <3>4. R(flatten)
      <4> HIDE DEF R, W
      <4> QED BY <3>3
    <3>5. \A i \in 1..n : flatten[i] = IF i = 1 THEN seqs[i] ELSE flatten[i - 1] \o seqs[i]
      BY <3>4
    <3> DEFINE h == [i \in 0..n |-> IF i = 0 THEN <<>> ELSE flatten[i]]
    <3> HIDE DEF flatten
    <3>6. h[0] = U[0]
      BY <1>1, <1>4
    <3>7. ASSUME NEW i \in 1..n, h[i - 1] = U[i - 1] PROVE h[i] = U[i]
      <4>1. CASE i = 1
        BY <3>2, <3>5, <4>1
      <4>2. CASE i # 1
        <5>1. flatten[i] = flatten[i - 1] \o seqs[i]
          BY <3>5, <4>2
        <5>2. i - 1 \in 0..n /\ i - 1 # 0
          BY <1>1, <4>2
        <5>3. flatten[i - 1] = U[i - 1]
          BY <3>7, <5>2
        <5>4. h[i] = flatten[i]
          BY <1>1, <4>2
        <5> QED BY <1>5, <5>1, <5>3, <5>4
      <4> QED BY <4>1, <4>2
    <3>8. h[n] = U[n]
      <4>0. n \in Nat
        BY <1>1
      <4> HIDE DEF h
      <4>1. PICK k : k = h
        OBVIOUS
      <4>2. SameSteps(n, k, U)
        BY <3>6, <3>7, <4>1 DEF SameSteps
      <4> HIDE DEF f, V, empty, seqs, R, W
      <4>3. \A i \in 0..n : k[i] = U[i]
        BY <4>0, <4>2, StepsUnique
      <4> QED BY <1>1, <4>1, <4>3
    <3> QED BY <1>1, <2>2, <3>1, <3>8
  <2> QED BY <2>1, <2>2
<1> QED BY <1>0, <1>4, <1>5, <1>6, <1>8

LEMMA UnitCostsType ==
    ASSUME NEW q \in Seq(Lot)
    PROVE  UnitCosts(q) \in Seq(Nat) /\ Len(UnitCosts(q)) \in Nat
<1> DEFINE n == Len(q)
<1>1. n \in Nat
  BY LenProperties
<1>2. PICK U \in [0..n -> Seq(Nat)] : U[n] = UnitCosts(q)
  BY UnitCostsSteps
<1> HIDE DEF n
<1>3. UnitCosts(q) \in Seq(Nat)
  BY <1>1, <1>2
<1> QED BY <1>3, LenProperties

LEMMA UnitCostsEmpty == UnitCosts(<<>>) = <<>>
<1>1. <<>> \in Seq(Lot) /\ Len(<<>>) = 0
  BY EmptySeq
<1> QED BY <1>1, UnitCostsSteps

\* A lot that is appended appends its units.
LEMMA UnitCostsAppend ==
    ASSUME NEW q \in Seq(Lot), NEW lot \in Lot
    PROVE  UnitCosts(Append(q, lot)) = UnitCosts(q) \o LotUnitCosts(lot)
<1> DEFINE n == Len(q)
           r == Append(q, lot)
<1>1. n \in Nat /\ r \in Seq(Lot) /\ Len(r) = n + 1 /\ r[n + 1] = lot /\ \A i \in 1..n : r[i] = q[i]
  BY LenProperties, AppendProperties
<1> HIDE DEF r
<1>0. Len(q) = n
  OBVIOUS
<1>2. PICK U : /\ U[0] = <<>> /\ U[n] = UnitCosts(q)
               /\ \A i \in 1..n : U[i] = U[i - 1] \o LotUnitCosts(q[i])
  BY UnitCostsSteps
<1> HIDE DEF n
<1>3. PICK W : /\ W[0] = <<>> /\ W[n + 1] = UnitCosts(r)
               /\ \A i \in 1..(n + 1) : W[i] = W[i - 1] \o LotUnitCosts(r[i])
  <2>1. r \in Seq(Lot) /\ Len(r) = n + 1
    BY <1>1
  <2>2. \E W : /\ W[0] = <<>> /\ W[Len(r)] = UnitCosts(r)
               /\ \A i \in 1..Len(r) : W[i] = W[i - 1] \o LotUnitCosts(r[i])
    BY <2>1, UnitCostsSteps
  <2> QED BY <2>1, <2>2
<1>4. ASSUME NEW i \in 1..n, W[i - 1] = U[i - 1] PROVE W[i] = U[i]
  <2>1. i \in 1..(n + 1) /\ r[i] = q[i]
    BY <1>1
  <2> QED BY <1>2, <1>3, <1>4, <2>1
<1>5. W[n] = U[n]
  <2>0. SameSteps(n, W, U)
    BY <1>2, <1>3, <1>4 DEF SameSteps
  <2>1. \A i \in 0..n : W[i] = U[i]
    BY <1>1, <2>0, StepsUnique
  <2> QED BY <1>1, <2>1
<1>6. W[n + 1] = W[n] \o LotUnitCosts(lot)
  <2>1. n + 1 \in 1..(n + 1) /\ (n + 1) - 1 = n
    BY <1>1
  <2> QED BY <1>1, <1>3, <2>1
<1> QED BY <1>2, <1>3, <1>5, <1>6 DEF r

-----------------------------------------------------------------------------
(***************************************************************************)
(* consumeFifo takes one lot after the other.                              *)
(***************************************************************************)
Drain == [remaining : Int, cost : Int, left : Seq(Lot)]

LEMMA TakeType ==
    ASSUME NEW drain \in Drain, NEW lot \in Lot
    PROVE  takeFromLot(drain, lot) \in Drain
<1> DEFINE take == Least(lot.qty, drain.remaining)
           rest == [lot EXCEPT !.qty = @ - take]
<1>1. lot.qty \in Nat \ {0} /\ lot.cost \in Nat
  BY DEF Lot
<1>2. drain.remaining \in Int /\ drain.cost \in Int /\ drain.left \in Seq(Lot)
  BY DEF Drain
<1>3. take \in Int /\ take <= lot.qty
  BY <1>1, <1>2 DEF Least
<1>4. rest = [qty |-> lot.qty - take, cost |-> lot.cost]
  BY DEF Lot
<1>5. take # lot.qty => rest \in Lot
  BY <1>1, <1>3, <1>4 DEF Lot
<1>6. take # lot.qty => Append(drain.left, rest) \in Seq(Lot)
  BY <1>2, <1>5, AppendProperties
<1>7. drain.remaining - take \in Int /\ drain.cost + take * lot.cost \in Int
  BY <1>1, <1>2, <1>3
<1> HIDE DEF take, rest
<1> QED BY <1>2, <1>6, <1>7 DEF takeFromLot, Drain, take, rest

LEMMA DrainSteps ==
    ASSUME NEW q \in Seq(Lot), NEW base \in Drain
    PROVE  \E D : /\ D[0] = base
                  /\ \A i \in 1..Len(q) : D[i] = takeFromLot(D[i - 1], q[i])
                  /\ D[Len(q)] = FoldLeft(takeFromLot, base, q)
<1> DEFINE n == Len(q)
           S == 1..n
           top == [s \in SUBSET S |-> Max(s)]
           f == [x \in S \X Drain |-> takeFromLot(x[2], q[x[1]])]
<1>0. Len(q) = n
  OBVIOUS
<1>1. n \in Nat /\ DOMAIN q = S /\ \A i \in S : q[i] \in Lot
  BY LenProperties, ElementOfSeq
<1> HIDE DEF n
<1>2. IsFiniteSet(S)
  BY <1>1, FS_Interval
<1>3. ASSUME NEW s \in SUBSET S, s # {}
      PROVE  Max(s) \in s /\ \A y \in s : Max(s) >= y
  <2>1. \E x \in s : \A y \in s : x >= y
    BY <1>1, <1>3, Greatest
  <2> QED BY <2>1 DEF Max
<1>4. PicksFrom(top, S)
  BY <1>3 DEF PicksFrom
<1>5. f \in [S \X Drain -> Drain]
  <2>1. ASSUME NEW i \in S, NEW d \in Drain PROVE takeFromLot(d, q[i]) \in Drain
    BY <1>1, TakeType
  <2> QED BY <2>1
<1>6. PICK g \in [SUBSET S -> Drain] : IsRecursion(top, f, base, S, g)
  <2> HIDE DEF S, f, top
  <2> QED BY <1>2, <1>4, <1>5, RecursionExists
<1>7. ASSUME NEW s \in SUBSET S
      PROVE  g[s] = IF s = {} THEN base ELSE takeFromLot(g[s \ {Max(s)}], q[Max(s)])
  <2>1. CASE s = {}
    BY <1>6, <2>1 DEF IsRecursion
  <2>2. CASE s # {}
    <3>1. top[s] = Max(s) /\ Max(s) \in S /\ s \ {Max(s)} \in SUBSET S
      BY <1>3, <2>2
    <3>2. g[s \ {Max(s)}] \in Drain
      BY <1>6, <3>1
    <3>3. g[s] = f[<<Max(s), g[s \ {Max(s)}]>>]
      BY <1>6, <2>2, <3>1 DEF IsRecursion
    <3> QED BY <2>2, <3>1, <3>2, <3>3
  <2> QED BY <2>1, <2>2
<1> DEFINE R(h) == h = [s \in SUBSET S |-> IF s = {} THEN base
                                           ELSE takeFromLot(h[s \ {Max(s)}], q[Max(s)])]
           iter == CHOOSE h : R(h)
<1>8. FoldLeft(takeFromLot, base, q) = iter[S]
  BY <1>1 DEF FoldLeft, MapThenFoldSet
<1>9. R(g)
  <2> HIDE DEF S
  <2> QED BY <1>6, <1>7
<1>10. R(iter)
  <2> HIDE DEF R
  <2> QED BY <1>9
<1> HIDE DEF iter
<1>11. iter[S] = g[S]
  <2> DEFINE Bad == {s \in SUBSET S : iter[s] # g[s]}
  <2> SUFFICES ASSUME Bad # {} PROVE FALSE
    OBVIOUS
  <2>1. PICK s \in Bad : \A r \in Bad : r \subseteq s => r = s
    <3>1. Bad \subseteq SUBSET S
      OBVIOUS
    <3> HIDE DEF Bad, S
    <3> QED BY <1>2, <3>1, MinimalSubset
  <2>2. s \in SUBSET S /\ iter[s] # g[s]
    OBVIOUS
  <2>3. iter[s] = IF s = {} THEN base ELSE takeFromLot(iter[s \ {Max(s)}], q[Max(s)])
    BY <1>10, <2>2
  <2>4. s # {}
    BY <1>7, <2>2, <2>3
  <2>5. s \ {Max(s)} \in SUBSET S /\ s \ {Max(s)} # s
    BY <1>3, <2>2, <2>4
  <2>6. iter[s \ {Max(s)}] = g[s \ {Max(s)}]
    BY <2>1, <2>5
  <2> QED BY <1>7, <2>2, <2>3, <2>4, <2>6
<1> DEFINE D == [k \in 0..n |-> g[1..k]]
<1>12. D[0] = base
  <2>1. 1..0 = {} /\ 0 \in 0..n
    BY <1>1
  <2> QED BY <1>7, <2>1
<1>13. ASSUME NEW i \in 1..n PROVE D[i] = takeFromLot(D[i - 1], q[i])
  <2>1. 1..i \in SUBSET S /\ i \in 1..i /\ 1..i # {} /\ i \in S
    <3> HIDE DEF D, f, top, R
    <3>1. i \in Nat /\ 1 <= i /\ i <= n
      BY <1>1
    <3>2. i \in 1..i /\ i \in 1..n
      BY <3>1
    <3>3. \A x \in 1..i : x \in 1..n
      BY <1>1, <3>1
    <3> QED BY <3>2, <3>3
  <2>2. Max(1..i) = i
    <3>1. Max(1..i) \in 1..i /\ Max(1..i) >= i
      BY <1>3, <2>1
    <3> QED BY <1>1, <3>1
  <2>3. (1..i) \ {i} = 1..(i - 1)
    BY <1>1
  <2>4. D[i] = g[1..i] /\ D[i - 1] = g[1..(i - 1)]
    BY <1>1
  <2> HIDE DEF D
  <2> QED BY <1>7, <2>1, <2>2, <2>3, <2>4
<1>14. D[n] = FoldLeft(takeFromLot, base, q)
  BY <1>1, <1>8, <1>11
<1> HIDE DEF D
<1> QED BY <1>0, <1>12, <1>13, <1>14

\* What draining quantity units from a queue that held these units leaves.
IsFifo(drain, quantity, units) ==
    LET k == Least(quantity, Len(units)) IN
    /\ drain \in Drain
    /\ drain.remaining = quantity - k
    /\ drain.cost = SumFunction(SubSeq(units, 1, k))
    /\ UnitCosts(drain.left) = SubSeq(units, k + 1, Len(units))

\* Where units of one more lot are cut.
LEMMA CutBefore ==
    ASSUME NEW s \in Seq(Nat), NEW r \in Seq(Nat), NEW k \in 0..Len(s)
    PROVE  /\ SubSeq(s \o r, 1, k) = SubSeq(s, 1, k)
           /\ SubSeq(s \o r, k + 1, Len(s) + Len(r)) = SubSeq(s, k + 1, Len(s)) \o r
<1> DEFINE u == s \o r
           a == SubSeq(s, k + 1, Len(s))
<1>1. /\ Len(s) \in Nat /\ Len(r) \in Nat
      /\ \A i \in 1..Len(s) : s[i] \in Nat
      /\ u \in Seq(Nat) /\ Len(u) = Len(s) + Len(r)
      /\ \A i \in 1..(Len(s) + Len(r)) : u[i] = IF i <= Len(s) THEN s[i] ELSE r[i - Len(s)]
  BY LenProperties, ElementOfSeq, ConcatProperties
<1>2. \A i \in 1..(Len(s) + Len(r)) : u[i] \in Nat
  BY <1>1, ElementOfSeq
<1> HIDE DEF u
<1>3. SubSeq(u, 1, k) = SubSeq(s, 1, k)
  <2>1. /\ SubSeq(u, 1, k) \in Seq(Nat) /\ Len(SubSeq(u, 1, k)) = k
        /\ \A i \in 1..k : SubSeq(u, 1, k)[i] = u[i]
    BY <1>1, <1>2, SubSeqProperties
  <2>2. /\ SubSeq(s, 1, k) \in Seq(Nat) /\ Len(SubSeq(s, 1, k)) = k
        /\ \A i \in 1..k : SubSeq(s, 1, k)[i] = s[i]
    BY <1>1, SubSeqProperties
  <2>3. ASSUME NEW i \in 1..k PROVE SubSeq(u, 1, k)[i] = SubSeq(s, 1, k)[i]
    <3>1. SubSeq(u, 1, k)[i] = u[i] /\ SubSeq(s, 1, k)[i] = s[i]
      BY <2>1, <2>2
    <3>2. i \in 1..(Len(s) + Len(r)) /\ i <= Len(s)
      BY <1>1
    <3> QED BY <1>1, <3>1, <3>2
  <2> QED BY <2>1, <2>2, <2>3, SeqEqual
<1>4. SubSeq(u, k + 1, Len(s) + Len(r)) = a \o r
  <2> DEFINE b == SubSeq(u, k + 1, Len(s) + Len(r))
             c == a \o r
             n == Len(s) - k
  <2>1. n \in Nat
    BY <1>1
  <2>2. /\ b \in Seq(Nat) /\ Len(b) = n + Len(r)
        /\ \A i \in 1..(n + Len(r)) : b[i] = u[k + i]
    <3>1. k + 1 \in Int /\ Len(s) + Len(r) \in Int /\ \A i \in (k + 1)..(Len(s) + Len(r)) : u[i] \in Nat
      BY <1>1, <1>2
    <3>2. /\ b \in Seq(Nat)
          /\ Len(b) = IF k + 1 <= Len(s) + Len(r) THEN (Len(s) + Len(r)) - (k + 1) + 1 ELSE 0
          /\ \A i \in 1..((Len(s) + Len(r)) - (k + 1) + 1) : b[i] = u[(k + 1) + i - 1]
      BY <3>1, SubSeqProperties
    <3> QED BY <1>1, <3>2
  <2>3. /\ a \in Seq(Nat) /\ Len(a) = n
        /\ \A i \in 1..n : a[i] = s[k + i]
    <3>1. k + 1 \in Int /\ Len(s) \in Int /\ \A i \in (k + 1)..Len(s) : s[i] \in Nat
      BY <1>1
    <3>2. /\ a \in Seq(Nat)
          /\ Len(a) = IF k + 1 <= Len(s) THEN Len(s) - (k + 1) + 1 ELSE 0
          /\ \A i \in 1..(Len(s) - (k + 1) + 1) : a[i] = s[(k + 1) + i - 1]
      BY <3>1, SubSeqProperties
    <3> QED BY <1>1, <3>2
  <2> HIDE DEF a, n, b
  <2>4. /\ c \in Seq(Nat) /\ Len(c) = n + Len(r)
        /\ \A i \in 1..(n + Len(r)) : c[i] = IF i <= n THEN a[i] ELSE r[i - n]
    BY <2>3, ConcatProperties
  <2> HIDE DEF c
  <2>5. ASSUME NEW i \in 1..(n + Len(r)) PROVE b[i] = c[i]
    <3>1. k + i \in 1..(Len(s) + Len(r)) /\ n = Len(s) - k
      BY <1>1, <2>1 DEF n
    <3>2. b[i] = IF k + i <= Len(s) THEN s[k + i] ELSE r[(k + i) - Len(s)]
      BY <1>1, <2>2, <3>1
    <3>3. c[i] = IF i <= n THEN a[i] ELSE r[i - n]
      BY <2>4
    <3>4. CASE i <= n
      <4>1. i \in 1..n /\ k + i <= Len(s)
        BY <1>1, <2>1, <3>1, <3>4
      <4> QED BY <2>3, <3>2, <3>3, <3>4, <4>1
    <3>5. CASE i > n
      <4>1. (k + i) - Len(s) = i - n /\ ~ (k + i <= Len(s)) /\ ~ (i <= n)
        BY <1>1, <2>1, <3>1, <3>5
      <4> QED BY <3>2, <3>3, <4>1
    <3> QED BY <1>1, <2>1, <3>4, <3>5
  <2>6. b = c
    BY <2>2, <2>4, <2>5, SeqEqual
  <2> QED BY <2>6 DEF b, c
<1> QED BY <1>3, <1>4 DEF u

LEMMA CutWithin ==
    ASSUME NEW s \in Seq(Nat), NEW m \in Nat, NEW c \in Nat, NEW j \in 0..m
    PROVE  /\ SubSeq(s \o Same(m, c), 1, Len(s) + j) = s \o Same(j, c)
           /\ SubSeq(s \o Same(m, c), Len(s) + j + 1, Len(s) + m) = Same(m - j, c)
<1> DEFINE n == Len(s)
           u == s \o Same(m, c)
<1>0. n \in Nat /\ j \in Nat /\ m - j \in Nat /\ \A i \in 1..n : s[i] \in Nat
  BY LenProperties, ElementOfSeq
<1>1. /\ n \in Nat /\ j \in Nat /\ m - j \in Nat /\ \A i \in 1..n : s[i] \in Nat
      /\ Same(m, c) \in Seq(Nat) /\ Len(Same(m, c)) = m /\ \A i \in 1..m : Same(m, c)[i] = c
  BY <1>0, SameIsSeq
<1>2. /\ Same(j, c) \in Seq(Nat) /\ Len(Same(j, c)) = j /\ \A i \in 1..j : Same(j, c)[i] = c
      /\ Same(m - j, c) \in Seq(Nat) /\ Len(Same(m - j, c)) = m - j
      /\ \A i \in 1..(m - j) : Same(m - j, c)[i] = c
  BY <1>1, SameIsSeq
<1>3. /\ Len(u) = n + m
      /\ \A i \in 1..(n + m) : u[i] = IF i <= n THEN s[i] ELSE Same(m, c)[i - n]
  BY <1>1, ConcatProperties
<1> HIDE DEF n
<1>4. \A i \in 1..(n + m) : u[i] = IF i <= n THEN s[i] ELSE c
  BY <1>1, <1>3
<1> HIDE DEF u
<1>5. \A i \in 1..(n + m) : u[i] \in Nat
  BY <1>1, <1>4
<1>6. SubSeq(u, 1, n + j) = s \o Same(j, c)
  <2> DEFINE a == SubSeq(u, 1, n + j)
             b == s \o Same(j, c)
  <2>1. /\ a \in Seq(Nat) /\ Len(a) = n + j
        /\ \A i \in 1..(n + j) : a[i] = u[i]
    <3>1. n + j \in Int /\ \A i \in 1..(n + j) : u[i] \in Nat
      BY <1>1, <1>5
    <3>2. /\ a \in Seq(Nat)
          /\ Len(a) = IF 1 <= n + j THEN (n + j) - 1 + 1 ELSE 0
          /\ \A i \in 1..((n + j) - 1 + 1) : a[i] = u[1 + i - 1]
      BY <3>1, SubSeqProperties
    <3> QED BY <1>1, <3>2
  <2>2. /\ b \in Seq(Nat) /\ Len(b) = n + j
        /\ \A i \in 1..(n + j) : b[i] = IF i <= n THEN s[i] ELSE Same(j, c)[i - n]
    <3>1. Same(j, c) \in Seq(Nat) /\ Len(Same(j, c)) = j
      BY <1>2
    <3>2. /\ b \in Seq(Nat) /\ Len(b) = Len(s) + Len(Same(j, c))
          /\ \A i \in 1..(Len(s) + Len(Same(j, c))) :
               b[i] = IF i <= Len(s) THEN s[i] ELSE Same(j, c)[i - Len(s)]
      BY <3>1, ConcatProperties
    <3> QED BY <3>1, <3>2 DEF n
  <2> HIDE DEF a, b
  <2>3. ASSUME NEW i \in 1..(n + j) PROVE a[i] = b[i]
    <3>1. a[i] = u[i] /\ i \in 1..(n + m)
      BY <1>1, <2>1
    <3>2. a[i] = IF i <= n THEN s[i] ELSE c
      BY <1>4, <3>1
    <3>3. ~ (i <= n) => Same(j, c)[i - n] = c
      <4>1. ~ (i <= n) => i - n \in 1..j
        BY <1>1
      <4> QED BY <1>2, <4>1
    <3> QED BY <2>2, <3>2, <3>3
  <2>4. a = b
    BY <2>1, <2>2, <2>3, SeqEqual
  <2> QED BY <2>4 DEF a, b
<1>7. SubSeq(u, n + j + 1, n + m) = Same(m - j, c)
  <2> DEFINE a == SubSeq(u, n + j + 1, n + m)
  <2>1. /\ a \in Seq(Nat) /\ Len(a) = m - j
        /\ \A i \in 1..(m - j) : a[i] = u[n + j + i]
    <3>1. n + j + 1 \in Int /\ n + m \in Int /\ \A i \in (n + j + 1)..(n + m) : u[i] \in Nat
      BY <1>1, <1>5
    <3>2. /\ a \in Seq(Nat)
          /\ Len(a) = IF n + j + 1 <= n + m THEN (n + m) - (n + j + 1) + 1 ELSE 0
          /\ \A i \in 1..((n + m) - (n + j + 1) + 1) : a[i] = u[(n + j + 1) + i - 1]
      BY <3>1, SubSeqProperties
    <3> QED BY <1>1, <3>2
  <2> HIDE DEF a
  <2>2. ASSUME NEW i \in 1..(m - j) PROVE a[i] = c
    <3>1. n + j + i \in 1..(n + m) /\ ~ (n + j + i <= n)
      BY <1>1
    <3> QED BY <1>4, <2>1, <3>1
  <2>3. a = Same(m - j, c)
    BY <1>2, <2>1, <2>2, SeqEqual
  <2> QED BY <2>3 DEF a
<1> QED BY <1>6, <1>7 DEF u, n

\* One more lot in the queue, one more round of the loop.
LEMMA RoundIsFifo ==
    ASSUME NEW quantity \in Nat, NEW units \in Seq(Nat), NEW lot \in Lot, NEW drain,
           IsFifo(drain, quantity, units)
    PROVE  IsFifo(takeFromLot(drain, lot), quantity, units \o LotUnitCosts(lot))
<1> DEFINE n == Len(units)
           m == lot.qty
           c == lot.cost
           new == LotUnitCosts(lot)
           next == takeFromLot(drain, lot)
           all == units \o new
           take == Least(m, drain.remaining)
           rest == [lot EXCEPT !.qty = @ - take]
<1>1. n \in Nat /\ m \in Nat \ {0} /\ c \in Nat /\ drain \in Drain
  BY LenProperties DEF Lot, IsFifo
<1>2. drain.remaining \in Int /\ drain.cost \in Int /\ drain.left \in Seq(Lot)
  BY <1>1 DEF Drain
<1>3. /\ drain.remaining = quantity - Least(quantity, n)
      /\ drain.cost = SumFunction(SubSeq(units, 1, Least(quantity, n)))
      /\ UnitCosts(drain.left) = SubSeq(units, Least(quantity, n) + 1, n)
  BY DEF IsFifo
<1>4. next \in Drain
  BY <1>1, TakeType
<1>5. new \in Seq(Nat) /\ Len(new) = m /\ new = Same(m, c)
  BY LotUnitCostsType DEF LotUnitCosts
<1>6. all \in Seq(Nat) /\ Len(all) = n + m
  BY <1>5, ConcatProperties
<1>7. /\ next.remaining = drain.remaining - take
      /\ next.cost = drain.cost + take * c
      /\ next.left = IF take = m THEN drain.left ELSE Append(drain.left, rest)
  BY DEF takeFromLot
<1>8. rest = [qty |-> m - take, cost |-> c]
  BY DEF Lot
<1> SUFFICES /\ next.remaining = quantity - Least(quantity, n + m)
             /\ next.cost = SumFunction(SubSeq(all, 1, Least(quantity, n + m)))
             /\ UnitCosts(next.left) = SubSeq(all, Least(quantity, n + m) + 1, n + m)
  BY <1>4, <1>6 DEF IsFifo
<1> HIDE DEF n, m, c, new, next, all, take, rest
<1>9. CASE n + m <= quantity
  <2>1. /\ Least(quantity, n) = n /\ Least(quantity, n + m) = n + m
        /\ drain.remaining = quantity - n /\ take = m
    BY <1>1, <1>3, <1>9 DEF Least, take
  <2>2. /\ SubSeq(all, 1, n + m) = all /\ SubSeq(units, 1, n) = units
        /\ SubSeq(all, (n + m) + 1, n + m) = <<>> /\ SubSeq(units, n + 1, n) = <<>>
    BY <1>1, <1>6, SubSeqFull, SubSeqEmpty DEF n
  <2>3. SumFunction(all) = SumFunction(units) + m * c
    <3>1. units \in Seq(Int) /\ new \in Seq(Int)
      BY <1>5
    <3>2. SumFunction(all) = SumFunction(units) + SumFunction(new)
      BY <3>1, SumConcat DEF all
    <3> QED BY <1>1, <1>5, <3>2, SumOfSame
  <2>4. next.remaining = quantity - (n + m)
    BY <1>1, <1>7, <2>1
  <2>5. next.cost = SumFunction(all)
    BY <1>3, <1>7, <2>1, <2>2, <2>3
  <2>6. UnitCosts(next.left) = <<>>
    BY <1>3, <1>7, <2>1, <2>2
  <2> QED BY <2>1, <2>2, <2>4, <2>5, <2>6
<1>10. CASE n <= quantity /\ quantity < n + m
  <2> DEFINE j == quantity - n
  <2>1. /\ Least(quantity, n) = n /\ Least(quantity, n + m) = quantity
        /\ drain.remaining = j /\ take = j /\ take # m /\ j \in 0..m
        /\ n + j = quantity
    BY <1>1, <1>3, <1>10 DEF Least, take
  <2> HIDE DEF j
  <2>2. SubSeq(units, 1, n) = units /\ SubSeq(units, n + 1, n) = <<>>
    BY <1>1, SubSeqFull, SubSeqEmpty DEF n
  <2>3. /\ SubSeq(all, 1, n + j) = units \o Same(j, c)
        /\ SubSeq(all, n + j + 1, n + m) = Same(m - j, c)
    <3>1. /\ SubSeq(units \o Same(m, c), 1, Len(units) + j) = units \o Same(j, c)
          /\ SubSeq(units \o Same(m, c), Len(units) + j + 1, Len(units) + m) = Same(m - j, c)
      <4>1. m \in Nat /\ c \in Nat /\ j \in 0..m
        BY <1>1, <2>1
      <4> QED BY <4>1, CutWithin
    <3>2. all = units \o Same(m, c)
      BY <1>5 DEF all
    <3> QED BY <3>1, <3>2 DEF n
  <2>4. SumFunction(units \o Same(j, c)) = SumFunction(units) + j * c
    <3>0. j \in Nat /\ c \in Int
      BY <1>1, <2>1
    <3>1. units \in Seq(Int) /\ Same(j, c) \in Seq(Int) /\ j \in Nat /\ c \in Int
      BY <3>0, SameIsSeq
    <3>2. SumFunction(units \o Same(j, c)) = SumFunction(units) + SumFunction(Same(j, c))
      BY <3>1, SumConcat
    <3> QED BY <3>1, <3>2, SumOfSame
  <2>5. next.remaining = 0
    BY <1>1, <1>7, <2>1
  <2>6. next.cost = SumFunction(SubSeq(all, 1, n + j))
    BY <1>3, <1>7, <2>1, <2>2, <2>3, <2>4
  <2>7. UnitCosts(next.left) = Same(m - j, c)
    <3>1. rest \in Lot /\ LotUnitCosts(rest) = Same(m - j, c)
      BY <1>1, <1>8, <2>1 DEF Lot, LotUnitCosts
    <3>2. UnitCosts(Append(drain.left, rest)) = UnitCosts(drain.left) \o LotUnitCosts(rest)
      BY <1>2, <3>1, UnitCostsAppend
    <3>3. UnitCosts(drain.left) = <<>>
      BY <1>3, <2>1, <2>2
    <3>4. Same(m - j, c) \in Seq(Nat)
      BY <1>1, <2>1, SameIsSeq
    <3>5. <<>> \o Same(m - j, c) = Same(m - j, c)
      BY <3>4, ConcatEmptySeq
    <3> QED BY <1>7, <2>1, <3>1, <3>2, <3>3, <3>5
  <2>8. quantity - quantity = 0
    OBVIOUS
  <2> QED BY <2>1, <2>3, <2>5, <2>6, <2>7, <2>8
<1>11. CASE quantity < n
  <2>1. /\ Least(quantity, n) = quantity /\ Least(quantity, n + m) = quantity
        /\ drain.remaining = 0 /\ take = 0 /\ take # m /\ quantity \in 0..n
    BY <1>1, <1>3, <1>11 DEF Least, take
  <2>2. /\ SubSeq(all, 1, quantity) = SubSeq(units, 1, quantity)
        /\ SubSeq(all, quantity + 1, n + m) = SubSeq(units, quantity + 1, n) \o new
    BY <1>5, <2>1, CutBefore DEF all, n
  <2>3. next.remaining = 0
    BY <1>7, <2>1
  <2>4. next.cost = SumFunction(SubSeq(all, 1, quantity))
    <3>1. 0 * c = 0
      BY <1>1
    <3>2. next.cost = drain.cost
      BY <1>2, <1>7, <2>1, <3>1
    <3> QED BY <1>3, <2>1, <2>2, <3>2
  <2>5. UnitCosts(next.left) = SubSeq(all, quantity + 1, n + m)
    <3>1. rest \in Lot /\ LotUnitCosts(rest) = new
      BY <1>1, <1>5, <1>8, <2>1 DEF Lot, LotUnitCosts
    <3>2. UnitCosts(Append(drain.left, rest)) = UnitCosts(drain.left) \o LotUnitCosts(rest)
      BY <1>2, <3>1, UnitCostsAppend
    <3> QED BY <1>3, <1>7, <2>1, <2>2, <3>1, <3>2
  <2>6. quantity - quantity = 0
    OBVIOUS
  <2> QED BY <2>1, <2>3, <2>4, <2>5, <2>6
<1> QED BY <1>1, <1>9, <1>10, <1>11

Whole(quantity) == [remaining |-> quantity, cost |-> 0, left |-> <<>>]

\* However the units lie in lots, the loop takes the oldest.
LEMMA DrainIsFifo ==
    ASSUME NEW quantity \in Nat, NEW q \in Seq(Lot)
    PROVE  IsFifo(FoldLeft(takeFromLot, Whole(quantity), q), quantity, UnitCosts(q))
<1> DEFINE n == Len(q)
           base == Whole(quantity)
<1>1. n \in Nat /\ \A i \in 1..n : q[i] \in Lot
  BY LenProperties, ElementOfSeq
<1>2. base \in Drain /\ base.left = <<>> /\ base.remaining = quantity /\ base.cost = 0
  BY EmptySeq DEF Drain, Whole
<1> HIDE DEF base
<1>3. PICK D : /\ D[0] = base
               /\ \A i \in 1..n : D[i] = takeFromLot(D[i - 1], q[i])
               /\ D[n] = FoldLeft(takeFromLot, base, q)
  BY <1>2, DrainSteps
<1>4. PICK U \in [0..n -> Seq(Nat)] :
               /\ U[0] = <<>>
               /\ \A i \in 1..n : U[i] = U[i - 1] \o LotUnitCosts(q[i])
               /\ U[n] = UnitCosts(q)
  BY UnitCostsSteps
<1> HIDE DEF n
<1> DEFINE Good == {i \in 0..n : IsFifo(D[i], quantity, U[i])}
<1>5. 0 \in Good
  <2>1. Len(<<>>) = 0 /\ <<>> \in Seq(Nat)
    BY EmptySeq
  <2>2. Least(quantity, 0) = 0
    BY DEF Least
  <2>3. SubSeq(<<>>, 1, 0) = <<>>
    BY <2>1, SubSeqEmpty
  <2>4. IsFifo(base, quantity, <<>>)
    <3> DEFINE empty == <<>>
    <3>1. UnitCosts(base.left) = <<>>
      BY <1>2, UnitCostsEmpty
    <3>2. SumFunction(SubSeq(<<>>, 1, 0)) = 0
      BY <2>3, SumOfEmpty
    <3>3. quantity - 0 = quantity /\ SubSeq(<<>>, 0 + 1, 0) = <<>>
      BY <2>3
    <3> QED BY <1>2, <2>1, <2>2, <3>1, <3>2, <3>3 DEF IsFifo
  <2>5. 0 \in 0..n
    BY <1>1
  <2> QED BY <1>3, <1>4, <2>4, <2>5
<1>6. ASSUME NEW i \in 1..n, i - 1 \in Good PROVE i \in Good
  <2>1. i - 1 \in 0..n /\ i \in 0..n /\ q[i] \in Lot
    BY <1>1
  <2>2. U[i - 1] \in Seq(Nat) /\ IsFifo(D[i - 1], quantity, U[i - 1])
    BY <1>4, <1>6, <2>1
  <2>3. IsFifo(takeFromLot(D[i - 1], q[i]), quantity, U[i - 1] \o LotUnitCosts(q[i]))
    BY <2>1, <2>2, RoundIsFifo
  <2> QED BY <1>3, <1>4, <2>1, <2>3
<1>7. n \in Good
  <2> HIDE DEF Good
  <2>1. 0..n \subseteq Good
    BY <1>1, <1>5, <1>6, InductionTo
  <2> QED BY <1>1, <2>1
<1>8. IsFifo(D[n], quantity, U[n])
  BY <1>7
<1> QED BY <1>3, <1>4, <1>8 DEF base

NothingDrained == [v \in Variants |-> NoRows]

\* Rows are of what holds units, or was dispatched: nothing else has any.
RowsFollow ==
    /\ \A o \in Orders :
         IF order[o] \in {"fulfilling", "fulfilled"}
         THEN \A v \in Variants : consumption[o][v].units = lines[o][v]
         ELSE consumption[o] = NothingDrained
    /\ \A t \in Transfers : transfer[t].status \in {"none", "draft"} => consumption[t] = NothingDrained
    /\ \A e \in Sales \ processed : consumption[e] = NothingDrained

\* The report counts what orders hold, what the POS sold and what was written off.
CogsAreTaken ==
    \A v \in Variants :
        cogsUnits(v) = TakenByOrders(v) + SoldByPos(v) + consumption[Shrink][v].units

FifoInv ==
    /\ IInv
    /\ CostTypeOK
    /\ LotsAgree
    /\ RowsFollow
    /\ CogsAreTaken

-----------------------------------------------------------------------------
(***************************************************************************)
(* What a movement does to lots and rows.                                  *)
(***************************************************************************)
\* A prefix of natural numbers has a natural sum.
LEMMA PrefixSum ==
    ASSUME NEW units \in Seq(Nat), NEW k \in 0..Len(units)
    PROVE  SumFunction(SubSeq(units, 1, k)) \in Nat
<1>1. Len(units) \in Nat /\ \A i \in 1..Len(units) : units[i] \in Nat
  BY LenProperties, ElementOfSeq
<1>2. SubSeq(units, 1, k) \in Seq(Nat)
  BY <1>1, SubSeqProperties
<1> DEFINE w == SubSeq(units, 1, k)
<1>3. w \in [1..Len(w) -> Nat] /\ Len(w) \in Nat
  BY <1>2, LenProperties
<1> HIDE DEF w
<1> DEFINE S == 1..Len(w)
<1>4. SumFunction(w) \in Nat
  <2>1. IsFiniteSet(S) /\ w \in [S -> Nat]
    BY <1>3, FS_Interval
  <2> HIDE DEF S
  <2> QED BY <2>1, SumNatural
<1> QED BY <1>4 DEF w

\* consumeFifo takes the oldest units.
LEMMA ConsumeOldest ==
    ASSUME NEW queue \in Seq(Lot), NEW quantity \in Nat, NEW fallback \in Nat
    PROVE  LET units == UnitCosts(queue)
               k == Least(quantity, Len(units))
               drain == consumeFifo(queue, quantity, fallback) IN
           /\ units \in Seq(Nat) /\ k \in 0..Len(units)
           /\ drain.left \in Seq(Lot)
           /\ UnitCosts(drain.left) = SubSeq(units, k + 1, Len(units))
           /\ drain.missing = quantity - k
           /\ drain.cost = SumFunction(SubSeq(units, 1, k)) + (quantity - k) * fallback
           /\ drain.missing \in Nat /\ drain.cost \in Nat
<1> DEFINE units == UnitCosts(queue)
           n == Len(units)
           k == Least(quantity, n)
           d == FoldLeft(takeFromLot, Whole(quantity), queue)
           drain == consumeFifo(queue, quantity, fallback)
<1>1. units \in Seq(Nat) /\ n \in Nat
  BY UnitCostsType
<1>2. k \in 0..n /\ quantity - k \in Nat
  BY <1>1 DEF Least
<1>3. IsFifo(d, quantity, units)
  BY DrainIsFifo
<1>4. /\ d.remaining = quantity - k /\ d.cost = SumFunction(SubSeq(units, 1, k))
      /\ UnitCosts(d.left) = SubSeq(units, k + 1, n) /\ d.left \in Seq(Lot)
  BY <1>3 DEF IsFifo, Drain
<1>5. drain.left = d.left /\ drain.missing = d.remaining /\ drain.cost = d.cost + d.remaining * fallback
  BY DEF consumeFifo, Whole
<1>6. SumFunction(SubSeq(units, 1, k)) \in Nat
  BY <1>1, <1>2, PrefixSum
<1> HIDE DEF units, n, k, d, drain
<1>7. (quantity - k) * fallback \in Nat
  BY <1>2
<1>8. drain.cost \in Nat
  BY <1>4, <1>5, <1>6, <1>7
<1> QED BY <1>1, <1>2, <1>4, <1>5, <1>8 DEF units, n, k, drain

LEMMA OpenType ==
    ASSUME CostTypeOK, NEW s \in Stores, NEW v \in Variants
    PROVE  /\ open[s][v] \in Seq(Lot) /\ unitCost[v] \in Nat
           /\ UnitCosts(open[s][v]) \in Seq(Nat) /\ Len(UnitCosts(open[s][v])) \in Nat
<1>1. open[s][v] \in Seq(Lot) /\ unitCost[v] \in Nat
  BY DEF CostTypeOK, Lot
<1> QED BY <1>1, UnitCostsType

\* what the movements of one lot queue do
AfterMove(queue, d, c) ==
    IF d > 0 THEN createStockLot(queue, d, c)
    ELSE IF d < 0 THEN consumeFifo(queue, -d, c).left
    ELSE queue

LEMMA MovedLots ==
    ASSUME NEW queue \in Seq(Lot), NEW d \in Int, NEW c \in Nat
    PROVE  LET units == UnitCosts(queue)
               after == UnitCosts(AfterMove(queue, d, c)) IN
           /\ AfterMove(queue, d, c) \in Seq(Lot)
           /\ d >= 0 => after = units \o Same(d, c) /\ Len(after) = Len(units) + d
           /\ d <= 0 => /\ after = SubSeq(units, Least(-d, Len(units)) + 1, Len(units))
                        /\ Len(after) = IF Len(units) >= -d THEN Len(units) + d ELSE 0
<1> DEFINE units == UnitCosts(queue)
           n == Len(units)
           k == Least(-d, n)
           after == UnitCosts(AfterMove(queue, d, c))
<1>1. units \in Seq(Nat) /\ n \in Nat
  BY UnitCostsType
<1>2. CASE d > 0
  <2> DEFINE lot == [qty |-> d, cost |-> c]
  <2>1. lot \in Lot /\ LotUnitCosts(lot) = Same(d, c)
    BY <1>2 DEF Lot, LotUnitCosts
  <2>2. AfterMove(queue, d, c) = Append(queue, lot)
    BY <1>2 DEF AfterMove, createStockLot
  <2> HIDE DEF lot
  <2>3. after = units \o Same(d, c)
    BY <2>1, <2>2, UnitCostsAppend
  <2>4. AfterMove(queue, d, c) \in Seq(Lot)
    BY <2>1, <2>2, AppendProperties
  <2>5. Same(d, c) \in Seq(Nat) /\ Len(Same(d, c)) = d
    <3>1. d \in Nat
      BY <1>2
    <3> QED BY <3>1, SameIsSeq
  <2>6. Len(after) = n + d
    BY <1>1, <2>3, <2>5, ConcatProperties
  <2> QED BY <1>2, <2>3, <2>4, <2>6
<1>3. CASE d < 0
  <2>1. -d \in Nat
    BY <1>3
  <2> DEFINE drain == consumeFifo(queue, -d, c)
  <2>2. AfterMove(queue, d, c) = drain.left
    BY <1>3 DEF AfterMove
  <2>3. k \in 0..n /\ drain.left \in Seq(Lot) /\ UnitCosts(drain.left) = SubSeq(units, k + 1, n)
    BY <2>1, ConsumeOldest
  <2> HIDE DEF drain
  <2>4. after = SubSeq(units, k + 1, n)
    BY <2>2, <2>3
  <2>5. Len(SubSeq(units, k + 1, n)) = n - k
    <3> HIDE DEF k, units
    <3>1. k + 1 \in Int /\ n \in Int /\ \A i \in (k + 1)..n : units[i] \in Nat
      BY <1>1, <2>3, ElementOfSeq
    <3> HIDE DEF n
    <3>2. Len(SubSeq(units, k + 1, n)) = IF k + 1 <= n THEN n - (k + 1) + 1 ELSE 0
      BY <3>1, SubSeqProperties
    <3> QED BY <1>1, <2>3, <3>2
  <2>6. n - k = IF n >= -d THEN n + d ELSE 0
    <3> HIDE DEF n, units
    <3> QED BY <1>1, <1>3 DEF Least
  <2> HIDE DEF k, n, units, after
  <2>7. Len(after) = IF n >= -d THEN n + d ELSE 0
    BY <2>4, <2>5, <2>6
  <2> QED BY <1>3, <2>2, <2>3, <2>4, <2>7 DEF k, n, units, after
<1>4. CASE d = 0
  <2>1. AfterMove(queue, d, c) = queue /\ after = units
    BY <1>4 DEF AfterMove
  <2>2. Same(0, c) = <<>>
    <3>1. Same(0, c) \in Seq(Nat) /\ Len(Same(0, c)) = 0
      BY SameIsSeq
    <3> QED BY <3>1, EmptySeq
  <2>3. units \o <<>> = units
    BY <1>1, ConcatEmptySeq
  <2>4. k = 0 /\ SubSeq(units, 0 + 1, n) = units
    <3>1. SubSeq(units, 1, n) = units
      BY <1>1, SubSeqFull
    <3> HIDE DEF n, units
    <3>2. Least(0, n) = 0 /\ -d = 0
      <4>1. n \in Nat
        BY <1>1
      <4>2. \A m \in Nat : Least(0, m) = 0
        BY DEF Least
      <4>3. \A i \in Int : i = 0 => -i \in Int /\ -i >= 0 /\ -i <= 0
        OBVIOUS
      <4>4. -d = 0
        <5> DEFINE e == -d
        <5>1. e \in Int /\ e >= 0 /\ e <= 0
          BY <1>4, <4>3
        <5> HIDE DEF e
        <5>2. e = 0
          BY <5>1
        <5> QED BY <5>2 DEF e
      <4> QED BY <4>1, <4>2, <4>4
    <3>3. k = 0
      BY <3>2
    <3> QED BY <3>1, <3>3
  <2>5. Len(after) = n /\ n + d = n /\ n >= -d
    BY <1>1, <1>4, <2>1
  <2> HIDE DEF k, n, units, after
  <2> QED BY <1>4, <2>1, <2>2, <2>3, <2>4, <2>5 DEF k, n, units, after
<1> QED BY <1>2, <1>3, <1>4

OpenLots == [Stores -> [Variants -> Seq(Lot)]]
CostsOf == [Variants -> Nat]

LEMMA MoveLots ==
    ASSUME open \in OpenLots, NEW s \in Stores, NEW d \in Movement, NEW cost \in CostsOf,
           moveLots(s, d, cost)
    PROVE  /\ open' \in OpenLots
           /\ \A x \in Stores : x # s => open'[x] = open[x]
           /\ \A v \in Variants : open'[s][v] = AfterMove(open[s][v], d[v], cost[v])
<1> DEFINE new == [v \in Variants |-> AfterMove(open[s][v], d[v], cost[v])]
<1>1. open' = [open EXCEPT ![s] = new]
  BY DEF moveLots, AfterMove, OpenLots
<1>2. \A v \in Variants : AfterMove(open[s][v], d[v], cost[v]) \in Seq(Lot)
  <2> SUFFICES ASSUME NEW v \in Variants PROVE AfterMove(open[s][v], d[v], cost[v]) \in Seq(Lot)
    OBVIOUS
  <2>1. open[s][v] \in Seq(Lot) /\ d[v] \in Int /\ cost[v] \in Nat
    BY DEF OpenLots, Movement, CostsOf
  <2> QED BY <2>1, MovedLots
<1>3. new \in [Variants -> Seq(Lot)]
  BY <1>2
<1> HIDE DEF new
<1>4. open' \in OpenLots /\ open'[s] = new /\ \A x \in Stores : x # s => open'[x] = open[x]
  BY <1>1, <1>3 DEF OpenLots
<1> USE DEF new
<1> QED BY <1>4

\* Draining lot by lot takes exactly what the open lots hold.
LEMMA MoveAgrees ==
    ASSUME TypeOK, open \in OpenLots, LotsAgree, NEW s \in Stores, NEW d \in Movement,
           NEW cost \in CostsOf, moveLots(s, d, cost), applyStockMovement(s, d)
    PROVE  LotsAgree'
<1> SUFFICES ASSUME NEW x \in Stores, NEW v \in Variants
             PROVE  Len(UnitCosts(open'[x][v])) = lots'[x][v]
  BY DEF LotsAgree
<1>1. Len(UnitCosts(open[x][v])) = lots[x][v] /\ open[x][v] \in Seq(Lot) /\ lots[x][v] \in Nat
  BY DEF LotsAgree, OpenLots, TypeOK, Basket
<1>2. /\ x # s => open'[x] = open[x] /\ lots'[x] = lots[x]
      /\ open'[s][v] = AfterMove(open[s][v], d[v], cost[v])
      /\ lots'[s][v] = LotUnits(s, v, d[v])
  BY MoveLots, MovementLots
<1>3. CASE x # s
  BY <1>1, <1>2, <1>3
<1>4. CASE x = s
  <2> DEFINE after == UnitCosts(AfterMove(open[s][v], d[v], cost[v]))
             n == Len(UnitCosts(open[s][v]))
  <2>1. d[v] \in Int /\ cost[v] \in Nat /\ open[s][v] \in Seq(Lot)
    BY <1>1, <1>4 DEF Movement, CostsOf
  <2>2. /\ d[v] >= 0 => Len(after) = n + d[v]
        /\ d[v] <= 0 => Len(after) = IF n >= -d[v] THEN n + d[v] ELSE 0
    BY <2>1, MovedLots
  <2>3. n = lots[s][v] /\ n \in Nat
    BY <1>1, <1>4
  <2> HIDE DEF after, n
  <2>4. Len(after) = LotUnits(s, v, d[v])
    BY <2>1, <2>2, <2>3 DEF LotUnits
  <2> QED BY <1>2, <1>4, <2>4 DEF after
<1> QED BY <1>3, <1>4

LEMMA DrainedType ==
    ASSUME open \in OpenLots, NEW s \in Stores, NEW d \in Movement, NEW cost \in CostsOf
    PROVE  /\ Drained(s, d, cost) \in [Variants -> Rows]
           /\ \A v \in Variants : Drained(s, d, cost)[v].units = IF d[v] < 0 THEN -d[v] ELSE 0
<1> SUFFICES ASSUME NEW v \in Variants
             PROVE  /\ Drained(s, d, cost)[v] \in Rows
                    /\ Drained(s, d, cost)[v].units = IF d[v] < 0 THEN -d[v] ELSE 0
  BY DEF Drained
<1>1. open[s][v] \in Seq(Lot) /\ d[v] \in Int /\ cost[v] \in Nat
  BY DEF OpenLots, Movement, CostsOf
<1>2. CASE d[v] < 0
  <2> DEFINE r == consumeFifo(open[s][v], -d[v], cost[v])
  <2>1. -d[v] \in Nat
    BY <1>1, <1>2
  <2>2. r.cost \in Nat /\ r.missing \in Nat
    BY <1>1, <2>1, ConsumeOldest
  <2>3. Drained(s, d, cost)[v] = [units |-> -d[v], cost |-> r.cost, missing |-> r.missing]
    BY <1>2 DEF Drained
  <2> HIDE DEF r
  <2> QED BY <1>2, <2>1, <2>2, <2>3 DEF Rows
<1>3. CASE ~ (d[v] < 0)
  BY <1>3 DEF Drained, Rows, NoRows
<1> QED BY <1>2, <1>3

LEMMA AddRowsType ==
    ASSUME NEW r \in [Variants -> Rows], NEW q \in [Variants -> Rows]
    PROVE  /\ AddRows(r, q) \in [Variants -> Rows]
           /\ \A v \in Variants : AddRows(r, q)[v].units = r[v].units + q[v].units
BY DEF AddRows, Rows

\* The unit cost a transfer carries is within half a cent of the exact one.
LEMMA Rounding ==
    ASSUME NEW cost \in Nat, NEW quantity \in Nat
    PROVE  /\ RoundedUnitCost(cost, quantity) \in Nat
           /\ quantity # 0 =>
                2 * (quantity * RoundedUnitCost(cost, quantity) - cost) \in -quantity..quantity
<1>1. CASE quantity = 0
  BY <1>1 DEF RoundedUnitCost
<1>2. CASE quantity # 0
  <2> DEFINE r == (2 * cost + quantity) \div (2 * quantity)
             rest == (2 * cost + quantity) % (2 * quantity)
  <2>1. RoundedUnitCost(cost, quantity) = r
    BY <1>2 DEF RoundedUnitCost
  <2>2. \A a \in Nat, b \in Nat \ {0} : a \div b \in Int /\ a = b * (a \div b) + (a % b) /\ a % b \in 0..(b - 1)
    OBVIOUS
  <2>3. 2 * cost + quantity \in Nat /\ 2 * quantity \in Nat \ {0}
    BY <1>2
  <2>4. r \in Int /\ 2 * cost + quantity = (2 * quantity) * r + rest /\ rest \in 0..(2 * quantity - 1)
    BY <2>2, <2>3
  <2> HIDE DEF r, rest
  <2>5. r >= 0
    BY <1>2, <2>4
  <2>6. 2 * (quantity * r - cost) = quantity - rest
    BY <1>2, <2>4
  <2> QED BY <1>2, <2>1, <2>4, <2>5, <2>6
<1> QED BY <1>1, <1>2

-----------------------------------------------------------------------------
(***************************************************************************)
(* The sums of the report.                                                 *)
(***************************************************************************)
RowsOfConsumers == [Consumers -> [Variants -> Rows]]

LEMMA ReportedFinite == IsFiniteSet(Reported) /\ Reported = Orders \cup Sales \cup {Shrink}
<1>1. Reported = Orders \cup Sales \cup {Shrink}
  BY ConsumersAssumption DEF Reported, Consumers
<1>2. IsFiniteSet(Orders \cup Sales) /\ IsFiniteSet({Shrink})
  BY FiniteAssumption, ConsumersAssumption, FS_Union, FS_Singleton
<1> QED BY <1>1, <1>2, FS_Union

LEMMA CogsType ==
    ASSUME consumption \in RowsOfConsumers, NEW v \in Variants
    PROVE  /\ [k \in Reported |-> consumption[k][v].units] \in [Reported -> Int]
           /\ [k \in Reported |-> consumption[k][v].cost] \in [Reported -> Int]
           /\ cogsUnits(v) \in Int /\ cogsCost(v) \in Int
<1> DEFINE f == [k \in Reported |-> consumption[k][v].units]
           g == [k \in Reported |-> consumption[k][v].cost]
<1>1. ASSUME NEW k \in Reported PROVE consumption[k][v].units \in Nat /\ consumption[k][v].cost \in Nat
  BY DEF RowsOfConsumers, Rows, Reported
<1>2. f \in [Reported -> Int] /\ g \in [Reported -> Int]
  BY <1>1
<1>3. cogsUnits(v) = SumFunction(f) /\ cogsCost(v) = SumFunction(g)
  BY DEF cogsUnits, cogsCost
<1> HIDE DEF f, g
<1>4. SumFunction(f) \in Int /\ SumFunction(g) \in Int
  BY <1>2, ReportedFinite, SumType
<1> QED BY <1>2, <1>3, <1>4 DEF f, g

LEMMA CogsChange ==
    ASSUME consumption \in RowsOfConsumers, consumption' \in RowsOfConsumers,
           NEW k \in Reported, \A j \in Reported : j # k => consumption'[j] = consumption[j],
           NEW v \in Variants
    PROVE  /\ cogsUnits(v)' = cogsUnits(v) + (consumption'[k][v].units - consumption[k][v].units)
           /\ cogsCost(v)' = cogsCost(v) + (consumption'[k][v].cost - consumption[k][v].cost)
<1> DEFINE f == [j \in Reported |-> consumption[j][v].units]
           g == [j \in Reported |-> consumption'[j][v].units]
           p == [j \in Reported |-> consumption[j][v].cost]
           q == [j \in Reported |-> consumption'[j][v].cost]
<1>1. /\ f \in [Reported -> Int] /\ p \in [Reported -> Int]
      /\ g \in [Reported -> Int] /\ q \in [Reported -> Int]
  <2>1. ASSUME NEW j \in Reported
        PROVE  /\ consumption[j][v].units \in Int /\ consumption[j][v].cost \in Int
               /\ consumption'[j][v].units \in Int /\ consumption'[j][v].cost \in Int
    BY DEF RowsOfConsumers, Rows, Reported
  <2> QED BY <2>1
<1>2. \A j \in Reported : j # k => g[j] = f[j] /\ q[j] = p[j]
  OBVIOUS
<1>3. /\ cogsUnits(v) = SumFunction(f) /\ cogsUnits(v)' = SumFunction(g)
      /\ cogsCost(v) = SumFunction(p) /\ cogsCost(v)' = SumFunction(q)
  BY DEF cogsUnits, cogsCost, Reported
<1>4. /\ f[k] = consumption[k][v].units /\ g[k] = consumption'[k][v].units
      /\ p[k] = consumption[k][v].cost /\ q[k] = consumption'[k][v].cost
  OBVIOUS
<1> HIDE DEF f, g, p, q
<1>5. SumFunction(g) = SumFunction(f) + (g[k] - f[k])
  BY <1>1, <1>2, ReportedFinite, SumChange
<1>6. SumFunction(q) = SumFunction(p) + (q[k] - p[k])
  BY <1>1, <1>2, ReportedFinite, SumChange
<1> QED BY <1>3, <1>4, <1>5, <1>6

LEMMA CogsSame ==
    ASSUME \A j \in Reported : consumption'[j] = consumption[j], NEW v \in Variants
    PROVE  cogsUnits(v)' = cogsUnits(v) /\ cogsCost(v)' = cogsCost(v)
<1>1. [j \in Reported |-> consumption'[j][v].units] = [j \in Reported |-> consumption[j][v].units]
  OBVIOUS
<1>2. [j \in Reported |-> consumption'[j][v].cost] = [j \in Reported |-> consumption[j][v].cost]
  OBVIOUS
<1> QED BY <1>1, <1>2 DEF cogsUnits, cogsCost, Reported

LEMMA SoldElsewhere ==
    ASSUME sold \in Quantities, sold' \in Quantities, NEW s \in Stores, NEW v \in Variants,
           \A t \in Stores : t # s => sold'[t][v] = sold[t][v]
    PROVE  SumOfStores(sold', v) = SumOfStores(sold, v) + (sold'[s][v] - sold[s][v])
BY SumOfStoresChange

\* What a POS sells is added to the sales of one store.
LEMMA SoldChange ==
    ASSUME TypeOK, TypeOK', NEW s \in Stores, NEW b \in Basket, NEW v \in Variants,
           sold' = [sold EXCEPT ![s] = [w \in Variants |-> @[w] + b[w]]]
    PROVE  SoldByPos(v)' = SoldByPos(v) + b[v]
<1>1. sold \in Quantities /\ sold' \in Quantities
  BY DEF TypeOK, Basket, Quantities
<1>2. /\ \A t \in Stores : t # s => sold'[t][v] = sold[t][v]
      /\ sold'[s][v] = sold[s][v] + b[v] /\ sold[s][v] \in Nat /\ b[v] \in Nat
  BY DEF TypeOK, Basket
<1>3. SumOfStores(sold', v) = SumOfStores(sold, v) + (sold'[s][v] - sold[s][v])
  BY <1>1, <1>2, SoldElsewhere
<1> QED BY <1>2, <1>3, SumsType DEF SoldByPos

-----------------------------------------------------------------------------
LEMMA CostType ==
    CostTypeOK <=> /\ open \in OpenLots /\ unitCost \in CostsOf
                   /\ carried \in [Transfers -> CostsOf] /\ consumption \in RowsOfConsumers
BY DEF CostTypeOK, OpenLots, Lot, CostsOf, RowsOfConsumers

LEMMA NothingDrainedType ==
    /\ NothingDrained \in [Variants -> Rows]
    /\ \A v \in Variants : /\ NothingDrained[v].units = 0 /\ NothingDrained[v].cost = 0
                           /\ NothingDrained[v].missing = 0
BY DEF NothingDrained, NoRows, Rows

LEMMA FifoInitInv == FifoInit => FifoInv
<1> SUFFICES ASSUME FifoInit PROVE FifoInv
  OBVIOUS
<1>1. IInv /\ Init
  BY InitInv DEF FifoInit
<1>2. /\ open = [s \in Stores |-> [v \in Variants |-> <<>>]] /\ unitCost = InitialCost
      /\ carried = [t \in Transfers |-> Nothing]
      /\ consumption = [k \in Consumers |-> NothingDrained]
  BY DEF FifoInit, NothingDrained
<1>3. CostTypeOK
  <2>1. <<>> \in Seq(Lot)
    BY EmptySeq
  <2>2. open \in OpenLots
    BY <1>2, <2>1 DEF OpenLots
  <2>3. unitCost \in CostsOf /\ carried \in [Transfers -> CostsOf]
    BY <1>2, CostsAssumption, NothingType DEF CostsOf, Basket
  <2>4. consumption \in RowsOfConsumers
    BY <1>2, NothingDrainedType DEF RowsOfConsumers
  <2> QED BY <2>2, <2>3, <2>4, CostType
<1>4. LotsAgree
  <2> SUFFICES ASSUME NEW s \in Stores, NEW v \in Variants
               PROVE  Len(UnitCosts(open[s][v])) = lots[s][v]
    BY DEF LotsAgree
  <2>1. open[s][v] = <<>> /\ lots[s][v] = 0
    BY <1>1, <1>2, NothingType DEF Init
  <2>2. Len(<<>>) = 0
    BY EmptySeq
  <2> QED BY <2>1, <2>2, UnitCostsEmpty
<1>5. RowsFollow
  BY <1>1, <1>2 DEF Init, RowsFollow, Consumers
<1>6. ASSUME NEW v \in Variants
      PROVE  cogsUnits(v) = TakenByOrders(v) + SoldByPos(v) + consumption[Shrink][v].units
  <2>1. cogsUnits(v) = 0
    <3>1. [k \in Reported |-> consumption[k][v].units] = [k \in Reported |-> 0]
      BY <1>2, NothingDrainedType DEF Reported
    <3> QED BY <3>1, ReportedFinite, SumZero DEF cogsUnits
  <2>2. TakenByOrders(v) = 0
    <3>1. [o \in Orders |-> Taken(o, v)] = [o \in Orders |-> 0]
      BY <1>1 DEF Init, Taken
    <3> QED BY <3>1, FiniteAssumption, SumZero DEF TakenByOrders
  <2>3. SoldByPos(v) = 0
    <3>1. [s \in Stores |-> sold[s][v]] = [s \in Stores |-> 0]
      BY <1>1, NothingType DEF Init
    <3> QED BY <3>1, FiniteAssumption, SumZero DEF SoldByPos, SumOfStores
  <2>4. consumption[Shrink][v].units = 0
    BY <1>2, NothingDrainedType DEF Consumers
  <2> QED BY <2>1, <2>2, <2>3, <2>4
<1> QED BY <1>1, <1>3, <1>4, <1>5, <1>6 DEF FifoInv, CogsAreTaken

\* A step of costs is a step of the ledger.
LEMMA FifoStepsLedger == [FifoNext]_fifoVars => [Next]_vars
<1> SUFFICES ASSUME [FifoNext]_fifoVars PROVE [Next]_vars
  OBVIOUS
<1>1. CASE UNCHANGED fifoVars
  BY <1>1 DEF fifoVars
<1>2. ASSUME NEW v \in Variants, NEW c \in Costs, SetUnitCost(v, c) PROVE [Next]_vars
  BY <1>2 DEF SetUnitCost
<1>3. ASSUME NEW s \in Stores, NEW v \in Variants, NEW delta \in Deltas, NEW c,
             AdjustWithCost(s, v, delta, c)
      PROVE  [Next]_vars
  BY <1>3 DEF AdjustWithCost, Next
<1>4. ASSUME NEW o \in Orders, NEW s \in Stores, FulfilAtCost(o, s) \/ RestockAtCost(o, s)
      PROVE  [Next]_vars
  BY <1>4 DEF FulfilAtCost, RestockAtCost, Next, OrderStep
<1>5. ASSUME NEW t \in Transfers, DispatchAtCost(t) \/ ReceiveAtCost(t) \/ RecallAtCost(t)
      PROVE  [Next]_vars
  BY <1>5 DEF DispatchAtCost, ReceiveAtCost, RecallAtCost, Next, TransferStep
<1>6. ASSUME NEW e \in Sales, NEW location \in SaleLocations, NEW b \in Baskets, NEW miss \in BOOLEAN,
             IngestAtCost(e, location, b, miss)
      PROVE  [Next]_vars
  BY <1>6 DEF IngestAtCost, Next, SaleStep
<1>7. CASE Unpriced
  BY <1>7 DEF Unpriced, Next, OrderStep, TransferStep
<1> QED BY <1>1, <1>2, <1>3, <1>4, <1>5, <1>6, <1>7 DEF FifoNext

LEMMA FifoTypes ==
    ASSUME FifoInv
    PROVE  /\ TypeOK /\ open \in OpenLots /\ unitCost \in CostsOf
           /\ carried \in [Transfers -> CostsOf] /\ consumption \in RowsOfConsumers
           /\ LotsAgree /\ RowsFollow /\ CogsAreTaken
BY CostType DEF FifoInv, IInv

LEMMA PricedMove ==
    ASSUME FifoInv, NEW s \in Stores, NEW d \in Movement, NEW cost \in CostsOf,
           applyStockMovement(s, d), moveLots(s, d, cost)
    PROVE  open' \in OpenLots /\ LotsAgree'
BY FifoTypes, MoveLots, MoveAgrees

\* A step that writes the rows r of the consumer k.
LEMMA RowsWritten ==
    ASSUME FifoInv, NEW k \in Consumers, NEW r \in [Variants -> Rows],
           consumption' = [consumption EXCEPT ![k] = r]
    PROVE  /\ consumption' \in RowsOfConsumers
           /\ consumption'[k] = r /\ \A j \in Consumers : j # k => consumption'[j] = consumption[j]
<1>1. consumption \in RowsOfConsumers
  BY FifoTypes
<1> QED BY <1>1 DEF RowsOfConsumers

LEMMA CogsWritten ==
    ASSUME FifoInv, NEW k \in Consumers, NEW r \in [Variants -> Rows],
           consumption' = [consumption EXCEPT ![k] = r], NEW v \in Variants
    PROVE  /\ k \in Reported => cogsUnits(v)' = cogsUnits(v) + (r[v].units - consumption[k][v].units)
           /\ k \in Transfers => cogsUnits(v)' = cogsUnits(v)
<1>1. consumption \in RowsOfConsumers
  BY FifoTypes
<1>2. /\ consumption' \in RowsOfConsumers
      /\ consumption'[k] = r /\ \A j \in Consumers : j # k => consumption'[j] = consumption[j]
  BY RowsWritten
<1>3. Reported \subseteq Consumers /\ (k \in Transfers => k \notin Reported)
  BY DEF Reported
<1>4. ASSUME k \in Reported
      PROVE  cogsUnits(v)' = cogsUnits(v) + (r[v].units - consumption[k][v].units)
  BY <1>1, <1>2, <1>3, <1>4, CogsChange
<1>5. ASSUME k \in Transfers PROVE cogsUnits(v)' = cogsUnits(v)
  BY <1>2, <1>3, <1>5, CogsSame
<1> QED BY <1>4, <1>5

\* What the sums of CogsAreTaken are.
LEMMA CogsSumsType ==
    ASSUME FifoInv, NEW v \in Variants
    PROVE  /\ cogsUnits(v) \in Int /\ TakenByOrders(v) \in Int /\ SoldByPos(v) \in Int
           /\ Shrink \in Consumers /\ consumption[Shrink][v].units \in Nat
           /\ cogsUnits(v) = TakenByOrders(v) + SoldByPos(v) + consumption[Shrink][v].units
<1>1. TypeOK /\ consumption \in RowsOfConsumers /\ CogsAreTaken
  BY FifoTypes
<1>2. Shrink \in Consumers /\ consumption[Shrink][v].units \in Nat
  BY <1>1 DEF Consumers, RowsOfConsumers, Rows
<1> QED BY <1>1, <1>2, CogsType, SumsType DEF CogsAreTaken

LEMMA SetUnitCostInv ==
    ASSUME FifoInv, IInv', NEW v \in Variants, NEW c \in Costs, SetUnitCost(v, c)
    PROVE  FifoInv'
<1>1. /\ unitCost' = [unitCost EXCEPT ![v] = c] /\ c \in Nat
      /\ UNCHANGED <<vars, open, carried, consumption>>
  BY CostsAssumption DEF SetUnitCost
<1>2. CostTypeOK'
  <2>1. unitCost' \in CostsOf
    BY <1>1, FifoTypes DEF CostsOf
  <2> QED BY <1>1, <2>1, FifoTypes, CostType
     DEF CostTypeOK, OpenLots, Lot, CostsOf, RowsOfConsumers
<1>3. LotsAgree' /\ RowsFollow'
  BY <1>1, FifoTypes DEF LotsAgree, RowsFollow, vars, ledgerVars, orderVars, saleVars
<1>4. ASSUME NEW w \in Variants
      PROVE  /\ cogsUnits(w)' = cogsUnits(w) /\ TakenByOrders(w)' = TakenByOrders(w)
             /\ SoldByPos(w)' = SoldByPos(w)
  BY <1>1, CogsSame, SumsUnchanged DEF vars, orderVars, saleVars
<1>5. CogsAreTaken'
  BY <1>1, <1>4, FifoTypes DEF CogsAreTaken
<1> QED BY <1>2, <1>3, <1>5 DEF FifoInv

LEMMA AdjustWithCostInv ==
    ASSUME FifoInv, IInv', NEW s \in Stores, NEW v \in Variants, NEW delta \in Deltas,
           NEW c \in Costs \cup {unitCost[v]}, AdjustWithCost(s, v, delta, c)
    PROVE  FifoInv'
<1> DEFINE d == [w \in Variants |-> IF w = v THEN delta ELSE 0]
           cost == [w \in Variants |-> c]
           drained == Drained(s, d, cost)
           r == AddRows(consumption[Shrink], drained)
<1>1. d \in Movement /\ cost \in CostsOf
  <2>1. c \in Nat
    BY FifoTypes, CostsAssumption DEF CostsOf
  <2> QED BY <2>1, DeltasAssumption DEF Movement, CostsOf
<1>2. /\ applyStockMovement(s, d) /\ moveLots(s, d, cost)
      /\ consumption' = [consumption EXCEPT ![Shrink] = r]
      /\ UNCHANGED <<unitCost, carried, reprices, orderVars, transfer, saleVars>>
  <2>1. consumption \in RowsOfConsumers /\ Shrink \in Consumers
    BY FifoTypes DEF Consumers
  <2> QED BY <2>1 DEF AdjustWithCost, AdjustStock, RowsOfConsumers
<1>3. drained \in [Variants -> Rows] /\ consumption[Shrink] \in [Variants -> Rows] /\ Shrink \in Consumers
  BY <1>1, FifoTypes, DrainedType DEF RowsOfConsumers, Consumers
<1> HIDE DEF d, cost, drained
<1>4. r \in [Variants -> Rows]
  BY <1>3, AddRowsType
<1> HIDE DEF r
<1>5. open' \in OpenLots /\ LotsAgree'
  BY <1>1, <1>2, PricedMove
<1>6. /\ consumption' \in RowsOfConsumers /\ consumption'[Shrink] = r
      /\ \A j \in Consumers : j # Shrink => consumption'[j] = consumption[j]
  BY <1>2, <1>3, <1>4, RowsWritten
<1>7. CostTypeOK'
  BY <1>2, <1>5, <1>6, FifoTypes, CostType
     DEF CostTypeOK, OpenLots, Lot, CostsOf, RowsOfConsumers
<1>8. RowsFollow'
  BY <1>2, <1>6, FifoTypes, ConsumersAssumption DEF RowsFollow, Consumers, orderVars, saleVars
<1>9. CogsAreTaken'
  <2> SUFFICES ASSUME NEW w \in Variants
               PROVE  cogsUnits(w)' = TakenByOrders(w)' + SoldByPos(w)' + consumption'[Shrink][w].units
    BY DEF CogsAreTaken
  <2>1. TakenByOrders(w)' = TakenByOrders(w) /\ SoldByPos(w)' = SoldByPos(w)
    BY <1>2, SumsUnchanged DEF orderVars, saleVars
  <2>2. r[w].units \in Nat
    BY <1>4 DEF Rows
  <2>3. cogsUnits(w)' = cogsUnits(w) + (r[w].units - consumption[Shrink][w].units)
    BY <1>2, <1>3, <1>4, CogsWritten, ReportedFinite
  <2> QED BY <1>6, <2>1, <2>2, <2>3, CogsSumsType
<1> QED BY <1>5, <1>7, <1>8, <1>9 DEF FifoInv

LEMMA FulfilAtCostInv ==
    ASSUME FifoInv, IInv', NEW o \in Orders, NEW s \in Stores, FulfilAtCost(o, s)
    PROVE  FifoInv'
<1> DEFINE d == Out(lines[o])
           drained == Drained(s, d, unitCost)
<1>1. lines[o] \in Basket /\ d \in Movement /\ \A v \in Variants : d[v] = -lines[o][v] /\ lines[o][v] \in Nat
  BY FifoTypes, OutType DEF TypeOK
<1>2. /\ order[o] = "paid" /\ order' = [order EXCEPT ![o] = "fulfilling"]
      /\ applyStockMovement(s, d) /\ moveLots(s, d, unitCost)
      /\ consumption' = [consumption EXCEPT ![o] = drained]
      /\ UNCHANGED <<lines, transfer, saleVars, unitCost, carried>>
  BY DEF FulfilAtCost, StartFulfilling, MoveOrder, canTransition, ALLOWED_TRANSITIONS
<1> HIDE DEF d
<1>3. /\ drained \in [Variants -> Rows] /\ o \in Consumers
      /\ \A v \in Variants : drained[v].units = lines[o][v]
  BY <1>1, FifoTypes, DrainedType DEF Consumers
<1> HIDE DEF drained
<1>4. open' \in OpenLots /\ LotsAgree'
  BY <1>1, <1>2, FifoTypes, PricedMove
<1>5. o \in Reported /\ o # Shrink /\ \A v \in Variants : consumption[o][v].units = 0
  BY <1>2, ReportedFinite, ConsumersAssumption, FifoTypes, NothingDrainedType DEF RowsFollow
<1>6. /\ consumption' \in RowsOfConsumers /\ consumption'[o] = drained
      /\ \A j \in Consumers : j # o => consumption'[j] = consumption[j]
  BY <1>2, <1>3, RowsWritten
<1>7. CostTypeOK'
  BY <1>2, <1>4, <1>6, FifoTypes, CostType
     DEF CostTypeOK, OpenLots, Lot, CostsOf, RowsOfConsumers
<1>8. order'[o] = "fulfilling" /\ \A u \in Orders : u # o => order'[u] = order[u]
  BY <1>2, FifoTypes DEF TypeOK
<1>9. RowsFollow'
  BY <1>2, <1>3, <1>6, <1>8, FifoTypes, ConsumersAssumption DEF RowsFollow, Consumers, saleVars
<1>10. CogsAreTaken'
  <2> SUFFICES ASSUME NEW v \in Variants
               PROVE  cogsUnits(v)' = TakenByOrders(v)' + SoldByPos(v)' + consumption'[Shrink][v].units
    BY DEF CogsAreTaken
  <2>1. TakenByOrders(v)' = TakenByOrders(v) + (Taken(o, v)' - Taken(o, v))
    BY <1>2, <1>8, TakenChange DEF FifoInv, IInv
  <2>2. Taken(o, v)' = lines[o][v] /\ Taken(o, v) = 0
    BY <1>2, <1>8 DEF Taken
  <2>3. SoldByPos(v)' = SoldByPos(v) /\ consumption'[Shrink] = consumption[Shrink]
    BY <1>2, <1>5, <1>6, SumsUnchanged DEF saleVars, Consumers
  <2>4. cogsUnits(v)' = cogsUnits(v) + lines[o][v]
    <3>1. cogsUnits(v)' = cogsUnits(v) + (drained[v].units - consumption[o][v].units)
      BY <1>2, <1>3, <1>5, CogsWritten
    <3> QED BY <1>1, <1>3, <1>5, <3>1
  <2> QED BY <1>1, <2>1, <2>2, <2>3, <2>4, CogsSumsType
<1> QED BY <1>4, <1>7, <1>9, <1>10 DEF FifoInv

LEMMA RestockAtCostInv ==
    ASSUME FifoInv, IInv', NEW o \in Orders, NEW s \in Stores, RestockAtCost(o, s)
    PROVE  FifoInv'
<1> DEFINE d == lines[o]
<1>1. d \in Movement /\ d \in Basket /\ \A v \in Variants : d[v] \in Nat
  BY FifoTypes, OutType DEF TypeOK, Basket
<1>2. /\ order[o] = "fulfilling" /\ order' = [order EXCEPT ![o] = "cancelled"]
      /\ applyStockMovement(s, d) /\ moveLots(s, d, unitCost)
      /\ consumption' = [consumption EXCEPT ![o] = NothingDrained]
      /\ UNCHANGED <<lines, transfer, saleVars, unitCost, carried>>
  BY DEF RestockAtCost, CancelFulfilling, MoveOrder, NothingDrained
<1>3. o \in Consumers /\ o \in Reported /\ o # Shrink
  BY ReportedFinite, ConsumersAssumption DEF Consumers
<1>4. open' \in OpenLots /\ LotsAgree'
  BY <1>1, <1>2, FifoTypes, PricedMove
<1>5. /\ consumption' \in RowsOfConsumers /\ consumption'[o] = NothingDrained
      /\ \A j \in Consumers : j # o => consumption'[j] = consumption[j]
  BY <1>2, <1>3, NothingDrainedType, RowsWritten
<1>6. CostTypeOK'
  BY <1>2, <1>4, <1>5, FifoTypes, CostType
     DEF CostTypeOK, OpenLots, Lot, CostsOf, RowsOfConsumers
<1>7. order'[o] = "cancelled" /\ \A u \in Orders : u # o => order'[u] = order[u]
  BY <1>2, FifoTypes DEF TypeOK
<1>8. RowsFollow'
  BY <1>2, <1>5, <1>7, FifoTypes, ConsumersAssumption DEF RowsFollow, Consumers, saleVars
<1>9. CogsAreTaken'
  <2> SUFFICES ASSUME NEW v \in Variants
               PROVE  cogsUnits(v)' = TakenByOrders(v)' + SoldByPos(v)' + consumption'[Shrink][v].units
    BY DEF CogsAreTaken
  <2>1. TakenByOrders(v)' = TakenByOrders(v) + (Taken(o, v)' - Taken(o, v))
    BY <1>2, <1>7, TakenChange DEF FifoInv, IInv
  <2>2. Taken(o, v)' = 0 /\ Taken(o, v) = d[v]
    BY <1>2, <1>7 DEF Taken
  <2>3. SoldByPos(v)' = SoldByPos(v) /\ consumption'[Shrink] = consumption[Shrink]
    BY <1>2, <1>3, <1>5, SumsUnchanged DEF saleVars, Consumers
  <2>4. cogsUnits(v)' = cogsUnits(v) - d[v]
    <3>1. cogsUnits(v)' = cogsUnits(v) + (NothingDrained[v].units - consumption[o][v].units)
      BY <1>2, <1>3, NothingDrainedType, CogsWritten
    <3>2. consumption[o][v].units = d[v]
      BY <1>2, FifoTypes DEF RowsFollow
    <3> QED BY <1>1, <3>1, <3>2, CogsSumsType, NothingDrainedType
  <2> QED BY <1>1, <2>1, <2>2, <2>3, <2>4, CogsSumsType
<1> QED BY <1>4, <1>6, <1>8, <1>9 DEF FifoInv

LEMMA DispatchAtCostInv ==
    ASSUME FifoInv, IInv', NEW t \in Transfers, DispatchAtCost(t)
    PROVE  FifoInv'
<1> DEFINE s == transfer[t].from
           items == transfer[t].items
           d == Out(items)
           drained == Drained(s, d, unitCost)
           unit == [v \in Variants |-> RoundedUnitCost(drained[v].cost, items[v])]
<1>1. s \in Stores /\ items \in Basket /\ d \in Movement
  BY FifoTypes, TransferType, OutType
<1>2. /\ MoveTransfer(t, "in_transit") /\ transfer' = [transfer EXCEPT ![t].status = "in_transit"]
      /\ applyStockMovement(s, d) /\ moveLots(s, d, unitCost)
      /\ consumption' = [consumption EXCEPT ![t] = drained]
      /\ carried' = [carried EXCEPT ![t] = unit]
      /\ UNCHANGED <<orderVars, saleVars, unitCost>>
  BY DEF DispatchAtCost, DispatchTransfer, MoveTransfer
<1> HIDE DEF s, d
<1>3. drained \in [Variants -> Rows] /\ t \in Consumers
  BY <1>1, FifoTypes, DrainedType DEF Consumers
<1> HIDE DEF drained, items
<1>4. unit \in CostsOf
  <2>1. ASSUME NEW v \in Variants PROVE RoundedUnitCost(drained[v].cost, items[v]) \in Nat
    BY <1>1, <1>3, Rounding DEF Rows, Basket
  <2> QED BY <2>1 DEF CostsOf
<1> HIDE DEF unit
<1>5. open' \in OpenLots /\ LotsAgree'
  BY <1>1, <1>2, FifoTypes, PricedMove
<1>6. carried' \in [Transfers -> CostsOf]
  BY <1>2, <1>4, FifoTypes
<1>7. /\ consumption' \in RowsOfConsumers /\ consumption'[t] = drained
      /\ \A j \in Consumers : j # t => consumption'[j] = consumption[j]
  BY <1>2, <1>3, RowsWritten
<1>8. CostTypeOK'
  BY <1>2, <1>5, <1>6, <1>7, FifoTypes, CostType
     DEF CostTypeOK, OpenLots, Lot, CostsOf, RowsOfConsumers
<1>9. transfer'[t].status = "in_transit" /\ \A u \in Transfers : u # t => transfer'[u] = transfer[u]
  BY <1>2, FifoTypes DEF TypeOK, Transfer
<1>10. RowsFollow'
  BY <1>2, <1>7, <1>9, FifoTypes, ConsumersAssumption DEF RowsFollow, Consumers, orderVars, saleVars
<1>11. CogsAreTaken'
  <2> SUFFICES ASSUME NEW v \in Variants
               PROVE  cogsUnits(v)' = TakenByOrders(v)' + SoldByPos(v)' + consumption'[Shrink][v].units
    BY DEF CogsAreTaken
  <2>1. TakenByOrders(v)' = TakenByOrders(v) /\ SoldByPos(v)' = SoldByPos(v)
    BY <1>2, SumsUnchanged DEF orderVars, saleVars
  <2>2. cogsUnits(v)' = cogsUnits(v)
    BY <1>2, <1>3, CogsWritten
  <2>3. consumption'[Shrink] = consumption[Shrink]
    BY <1>7, ConsumersAssumption DEF Consumers
  <2> QED BY <2>1, <2>2, <2>3, CogsSumsType
<1> QED BY <1>5, <1>8, <1>10, <1>11 DEF FifoInv

\* What was dispatched becomes a lot at one of the stores of the transfer.
LEMMA ArriveAtCostInv ==
    ASSUME FifoInv, IInv', NEW t \in Transfers, ReceiveAtCost(t) \/ RecallAtCost(t)
    PROVE  FifoInv'
<1>1. PICK s \in Stores, to \in {"received", "cancelled"} :
        /\ MoveTransfer(t, to)
        /\ applyStockMovement(s, transfer[t].items) /\ moveLots(s, transfer[t].items, carried[t])
        /\ UNCHANGED <<unitCost, carried, consumption>>
  BY FifoTypes, TransferType DEF ReceiveAtCost, RecallAtCost, ReceiveTransfer, RecallTransfer
<1>2. transfer[t].items \in Movement /\ carried[t] \in CostsOf
  BY FifoTypes, TransferType, OutType
<1>3. open' \in OpenLots /\ LotsAgree'
  BY <1>1, <1>2, PricedMove
<1>4. CostTypeOK'
  BY <1>1, <1>3, FifoTypes, CostType DEF CostTypeOK, OpenLots, Lot, CostsOf, RowsOfConsumers
<1>5. /\ transfer'[t].status = to /\ \A u \in Transfers : u # t => transfer'[u] = transfer[u]
      /\ UNCHANGED <<orderVars, saleVars>>
  BY <1>1, FifoTypes DEF TypeOK, Transfer, MoveTransfer
<1>6. RowsFollow'
  BY <1>1, <1>5, FifoTypes DEF RowsFollow, orderVars, saleVars
<1>7. CogsAreTaken'
  <2> SUFFICES ASSUME NEW v \in Variants
               PROVE  cogsUnits(v)' = TakenByOrders(v)' + SoldByPos(v)' + consumption'[Shrink][v].units
    BY DEF CogsAreTaken
  <2>1. TakenByOrders(v)' = TakenByOrders(v) /\ SoldByPos(v)' = SoldByPos(v)
    BY <1>5, SumsUnchanged DEF orderVars, saleVars
  <2>2. cogsUnits(v)' = cogsUnits(v)
    BY <1>1, CogsSame
  <2> QED BY <1>1, <2>1, <2>2, CogsSumsType
<1> QED BY <1>3, <1>4, <1>6, <1>7 DEF FifoInv

LEMMA IngestAtCostInv ==
    ASSUME FifoInv, IInv', NEW e \in Sales, NEW location, NEW b \in Baskets, NEW miss \in BOOLEAN,
           IngestAtCost(e, location, b, miss)
    PROVE  FifoInv'
<1> DEFINE s == IF location \in Stores THEN location ELSE Default
           d == Out(b)
           drained == Drained(s, d, unitCost)
<1>1. s \in Stores /\ b \in Basket /\ d \in Movement /\ \A v \in Variants : d[v] = -b[v] /\ b[v] \in Nat
  BY StoresAssumption, BasketsAssumption, OutType
<1>2. /\ e \notin processed /\ processed' = processed \cup {e}
      /\ applyStockMovement(s, d) /\ moveLots(s, d, unitCost)
      /\ sold' = [sold EXCEPT ![s] = [v \in Variants |-> @[v] + b[v]]]
      /\ consumption' = [consumption EXCEPT ![e] = drained]
      /\ UNCHANGED <<orderVars, transfer, unitCost, carried>>
  BY DEF IngestAtCost, IngestSale, FirstDelivery
<1> HIDE DEF s, d
<1>3. /\ drained \in [Variants -> Rows] /\ e \in Consumers
      /\ \A v \in Variants : drained[v].units = b[v]
  BY <1>1, FifoTypes, DrainedType DEF Consumers
<1> HIDE DEF drained
<1>4. open' \in OpenLots /\ LotsAgree'
  BY <1>1, <1>2, FifoTypes, PricedMove
<1>5. e \in Reported /\ e # Shrink /\ \A v \in Variants : consumption[e][v].units = 0
  BY <1>2, ReportedFinite, ConsumersAssumption, FifoTypes, NothingDrainedType DEF RowsFollow
<1>6. /\ consumption' \in RowsOfConsumers /\ consumption'[e] = drained
      /\ \A j \in Consumers : j # e => consumption'[j] = consumption[j]
  BY <1>2, <1>3, RowsWritten
<1>7. CostTypeOK'
  BY <1>2, <1>4, <1>6, FifoTypes, CostType
     DEF CostTypeOK, OpenLots, Lot, CostsOf, RowsOfConsumers
<1>8. RowsFollow'
  BY <1>2, <1>6, FifoTypes, ConsumersAssumption DEF RowsFollow, Consumers, orderVars
<1>9. CogsAreTaken'
  <2> SUFFICES ASSUME NEW v \in Variants
               PROVE  cogsUnits(v)' = TakenByOrders(v)' + SoldByPos(v)' + consumption'[Shrink][v].units
    BY DEF CogsAreTaken
  <2>1. SoldByPos(v)' = SoldByPos(v) + b[v]
    BY <1>1, <1>2, SoldChange DEF FifoInv, IInv
  <2>2. TakenByOrders(v)' = TakenByOrders(v) /\ consumption'[Shrink] = consumption[Shrink]
    BY <1>2, <1>5, <1>6, SumsUnchanged DEF orderVars, Consumers
  <2>3. cogsUnits(v)' = cogsUnits(v) + b[v]
    <3>1. cogsUnits(v)' = cogsUnits(v) + (drained[v].units - consumption[e][v].units)
      BY <1>2, <1>3, <1>5, CogsWritten
    <3> QED BY <1>1, <1>3, <1>5, <3>1
  <2> QED BY <1>1, <2>1, <2>2, <2>3, CogsSumsType
<1> QED BY <1>4, <1>7, <1>8, <1>9 DEF FifoInv

LEMMA UnpricedInv ==
    ASSUME FifoInv, IInv', Unpriced
    PROVE  FifoInv'
<1>1. UNCHANGED costVars
  BY DEF Unpriced
<1>2. CostTypeOK'
  BY <1>1, FifoTypes, CostType DEF costVars, CostTypeOK, OpenLots, Lot, CostsOf, RowsOfConsumers
<1>3. UNCHANGED <<lots, saleVars>>
  BY DEF Unpriced, PlaceOrder, PayOrder, FinishOrder, CancelUnfulfilled, DraftTransfer,
         CancelDraftTransfer, MoveTransfer, ledgerVars
<1>4. LotsAgree'
  BY <1>1, <1>3, FifoTypes DEF LotsAgree, costVars
<1> DEFINE Held == {"fulfilling", "fulfilled"}
<1>5. ASSUME NEW o \in Orders
      PROVE  /\ order'[o] \in Held <=> order[o] \in Held
             /\ order[o] \in Held => lines'[o] = lines[o]
  <2>1. CASE \E t \in Transfers : \/ \E from, to \in Stores, b \in Baskets : DraftTransfer(t, from, to, b)
                                  \/ CancelDraftTransfer(t)
    BY <2>1 DEF DraftTransfer, CancelDraftTransfer, MoveTransfer, orderVars
  <2>2. ASSUME NEW u \in Orders, NEW b \in Baskets, PlaceOrder(u, b)
        PROVE  /\ order'[o] \in Held <=> order[o] \in Held
               /\ order[o] \in Held => lines'[o] = lines[o]
    BY <2>2, FifoTypes DEF PlaceOrder, TypeOK
  <2>3. ASSUME NEW u \in Orders, PayOrder(u) \/ FinishOrder(u) \/ CancelUnfulfilled(u)
        PROVE  /\ order'[o] \in Held <=> order[o] \in Held
               /\ order[o] \in Held => lines'[o] = lines[o]
    BY <2>3, FifoTypes DEF PayOrder, FinishOrder, CancelUnfulfilled, MoveOrder, canTransition,
                           ALLOWED_TRANSITIONS, TypeOK
  <2> QED BY <2>1, <2>2, <2>3 DEF Unpriced
<1>6. ASSUME NEW t \in Transfers, transfer'[t].status \in {"none", "draft"}
      PROVE  transfer[t].status \in {"none", "draft"}
  <2>1. CASE UNCHANGED transfer
    BY <1>6, <2>1
  <2>2. ASSUME NEW u \in Transfers, NEW from \in Stores, NEW to \in Stores, NEW b \in Baskets,
               DraftTransfer(u, from, to, b)
        PROVE  transfer[t].status \in {"none", "draft"}
    BY <1>6, <2>2, FifoTypes DEF DraftTransfer, TypeOK
  <2>3. ASSUME NEW u \in Transfers, CancelDraftTransfer(u)
        PROVE  transfer[t].status \in {"none", "draft"}
    BY <1>6, <2>3, FifoTypes DEF CancelDraftTransfer, MoveTransfer, TypeOK, Transfer
  <2> QED BY <2>1, <2>2, <2>3 DEF Unpriced, PlaceOrder, PayOrder, FinishOrder, CancelUnfulfilled
<1>7. RowsFollow'
  BY <1>1, <1>3, <1>5, <1>6, FifoTypes DEF RowsFollow, costVars, saleVars
<1>8. CogsAreTaken'
  <2> SUFFICES ASSUME NEW v \in Variants
               PROVE  cogsUnits(v)' = TakenByOrders(v)' + SoldByPos(v)' + consumption'[Shrink][v].units
    BY DEF CogsAreTaken
  <2>1. cogsUnits(v)' = cogsUnits(v) /\ SoldByPos(v)' = SoldByPos(v)
    BY <1>1, <1>3, CogsSame, SumsUnchanged DEF costVars, saleVars
  <2>2. TakenByOrders(v)' = TakenByOrders(v)
    <3>1. \A o \in Orders : Taken(o, v)' = Taken(o, v)
      BY <1>5 DEF Taken
    <3>2. [o \in Orders |-> Taken(o, v)'] = [o \in Orders |-> Taken(o, v)]
      BY <3>1
    <3> QED BY <3>2 DEF TakenByOrders
  <2> QED BY <1>1, <2>1, <2>2, CogsSumsType DEF costVars
<1> QED BY <1>2, <1>4, <1>7, <1>8 DEF FifoInv

LEMMA FifoStepInv == FifoInv /\ [FifoNext]_fifoVars => FifoInv'
<1> SUFFICES ASSUME FifoInv, [FifoNext]_fifoVars PROVE FifoInv'
  OBVIOUS
<1>1. IInv'
  BY FifoStepsLedger, StepInv DEF FifoInv
<1>2. CASE UNCHANGED fifoVars
  <2>1. UNCHANGED vars /\ UNCHANGED costVars
    BY <1>2 DEF fifoVars
  <2>2. CostTypeOK' /\ LotsAgree' /\ RowsFollow'
    BY <2>1, FifoTypes, CostType DEF vars, ledgerVars, orderVars, saleVars, costVars, CostTypeOK,
       LotsAgree, RowsFollow, OpenLots, Lot, CostsOf, RowsOfConsumers
  <2>3. ASSUME NEW v \in Variants
        PROVE  /\ cogsUnits(v)' = cogsUnits(v) /\ TakenByOrders(v)' = TakenByOrders(v)
               /\ SoldByPos(v)' = SoldByPos(v)
    BY <2>1, CogsSame, SumsUnchanged DEF vars, orderVars, saleVars, costVars
  <2>4. CogsAreTaken'
    BY <2>1, <2>3, FifoTypes DEF CogsAreTaken, costVars
  <2> QED BY <1>1, <2>2, <2>4 DEF FifoInv
<1>3. CASE FifoNext
  BY <1>1, <1>3, SetUnitCostInv, AdjustWithCostInv, FulfilAtCostInv, RestockAtCostInv,
     DispatchAtCostInv, ArriveAtCostInv, IngestAtCostInv, UnpricedInv DEF FifoNext
<1> QED BY <1>2, <1>3

LEMMA FifoInvariance == FifoSpec => []FifoInv
BY FifoInitInv, FifoStepInv, PTL DEF FifoSpec

-----------------------------------------------------------------------------
\* Costs only add to the ledger: what is proved of it holds with them.
THEOREM CostsRefineLedger == FifoSpec => Spec
<1>1. FifoInit => Init
  BY DEF FifoInit
<1> QED BY <1>1, FifoStepsLedger, PTL DEF FifoSpec, Spec

\* Lots, costs and consumption rows keep their types: a lot is never empty and
\* no cost is negative.
THEOREM CostTypeCorrect == FifoSpec => []CostTypeOK
<1>1. FifoInv => CostTypeOK
  BY DEF FifoInv
<1> QED BY <1>1, FifoInvariance, PTL

\* The open lots are the totals that StockLedger keeps.
THEOREM LotsAreTotals == FifoSpec => []LotsAgree
<1>1. FifoInv => LotsAgree
  BY DEF FifoInv
<1> QED BY <1>1, FifoInvariance, PTL

\* A drain takes the oldest units, whatever lots receipts, restocks and recalls
\* have built.
THEOREM DrainsAreFifo == FifoSpec => []OldestFirst
<1>1. FifoInv => OldestFirst
  <2> SUFFICES ASSUME FifoInv, NEW s \in Stores, NEW v \in Variants,
                      NEW n \in 0..(Len(UnitCosts(open[s][v])) + 1)
               PROVE  LET units == UnitCosts(open[s][v])
                          drain == consumeFifo(open[s][v], n, unitCost[v])
                          k == Least(n, Len(units)) IN
                      /\ UnitCosts(drain.left) = SubSeq(units, k + 1, Len(units))
                      /\ drain.missing = n - k
                      /\ drain.cost = SumFunction(SubSeq(units, 1, k)) + (n - k) * unitCost[v]
    BY DEF OldestFirst
  <2>1. open[s][v] \in Seq(Lot) /\ unitCost[v] \in Nat
    BY FifoTypes DEF OpenLots, CostsOf
  <2>2. n \in Nat
    BY <2>1, UnitCostsType
  <2> QED BY <2>1, <2>2, ConsumeOldest
<1> QED BY <1>1, FifoInvariance, PTL

\* The units the report counts are gone, once.
THEOREM ReportIsGone == FifoSpec => []ReportedIsGone
<1>1. FifoInv => ReportedIsGone
  <2> SUFFICES ASSUME FifoInv, NEW v \in Variants, Backfilled(v)
               PROVE  onHand[v] + InTransit(v) + cogsUnits(v) = Opening[v] + Received(v)
    BY DEF ReportedIsGone
  <2>1. onHand[v] + InTransit(v) + TakenByOrders(v) + SoldByPos(v) = Opening[v] + adjusted[v]
    BY DEF FifoInv, IInv, UnitsConserved
  <2>2. onHand[v] \in Int /\ adjusted[v] \in Int /\ Opening[v] \in Int /\ InTransit(v) \in Int
    BY FifoTypes, OpeningType, SumsType DEF TypeOK
  <2> QED BY <2>1, <2>2, CogsSumsType DEF Received
<1> QED BY <1>1, FifoInvariance, PTL

-----------------------------------------------------------------------------
(***************************************************************************)
(* What lots, transfers and the report are worth, and how a movement       *)
(* changes it.                                                             *)
(***************************************************************************)
ValueOf(queue) == SumFunction(UnitCosts(queue))

LEMMA ValueType ==
    ASSUME NEW queue \in Seq(Lot)
    PROVE  ValueOf(queue) \in Int
<1>1. UnitCosts(queue) \in Seq(Int)
  BY UnitCostsType
<1> QED BY <1>1, SumOfSeqType DEF ValueOf

\* A receipt adds its units at its cost.
LEMMA ReceiptValue ==
    ASSUME NEW queue \in Seq(Lot), NEW d \in Nat, NEW c \in Nat
    PROVE  ValueOf(AfterMove(queue, d, c)) = ValueOf(queue) + d * c
<1> DEFINE units == UnitCosts(queue)
<1>1. units \in Seq(Int) /\ Same(d, c) \in Seq(Int)
  <2>1. c \in Int /\ units \in Seq(Nat)
    BY UnitCostsType
  <2> QED BY <2>1, SameIsSeq
<1>2. UnitCosts(AfterMove(queue, d, c)) = units \o Same(d, c)
  BY MovedLots
<1> HIDE DEF units
<1>3. SumFunction(units \o Same(d, c)) = SumFunction(units) + d * c
  BY <1>1, SumConcat, SumOfSame
<1> QED BY <1>2, <1>3 DEF ValueOf, units

\* A drain takes the cost of its rows, but for what no lot held.
LEMMA DrainValue ==
    ASSUME NEW queue \in Seq(Lot), NEW d \in Int, d < 0, NEW c \in Nat,
           consumeFifo(queue, -d, c).missing = 0
    PROVE  ValueOf(AfterMove(queue, d, c)) = ValueOf(queue) - consumeFifo(queue, -d, c).cost
<1> DEFINE units == UnitCosts(queue)
           n == Len(units)
           k == Least(-d, n)
           drain == consumeFifo(queue, -d, c)
           prefix == SubSeq(units, 1, k)
           suffix == SubSeq(units, k + 1, n)
<1>1. -d \in Nat /\ d <= 0
  OBVIOUS
<1>2. /\ units \in Seq(Nat) /\ k \in 0..n /\ n \in Nat
      /\ drain.missing = -d - k
      /\ drain.cost = SumFunction(prefix) + (-d - k) * c
      /\ UnitCosts(drain.left) = suffix
  BY <1>1, ConsumeOldest, UnitCostsType
<1>3. UnitCosts(AfterMove(queue, d, c)) = suffix
  BY <1>1, MovedLots
<1>4. drain.cost = SumFunction(prefix)
  <2>1. SumFunction(prefix) \in Nat
    BY <1>2, PrefixSum
  <2>2. -d - k = 0
    BY <1>2
  <2> HIDE DEF drain, prefix, k
  <2>3. drain.cost = SumFunction(prefix) + 0 * c
    BY <1>2, <2>2
  <2> QED BY <2>1, <2>3
<1> HIDE DEF k
<1>5. prefix \o suffix = units
  <2> HIDE DEF units, n
  <2>1. 1 \in 1..(n + 1) /\ k \in (1 - 1)..n /\ n \in k..n
    BY <1>2
  <2>2. SubSeq(units, 1, k) \o SubSeq(units, k + 1, n) = SubSeq(units, 1, n)
    <3> HIDE DEF prefix, suffix
    <3>1. /\ 1 \in 1..(Len(units) + 1) /\ k \in (1 - 1)..Len(units)
          /\ n \in k..Len(units) /\ units \in Seq(Nat)
      BY <1>2, <2>1 DEF n
    <3> QED BY <3>1, ConcatAdjacentSubSeq
  <2>3. SubSeq(units, 1, n) = units
    BY <1>2, SubSeqFull DEF n
  <2> QED BY <2>2, <2>3
<1>6. prefix \in Seq(Int) /\ suffix \in Seq(Int)
  <2> HIDE DEF units
  <2>1. \A i \in 1..n : units[i] \in Int
    BY <1>2, ElementOfSeq
  <2> HIDE DEF n
  <2>2. /\ 1 \in Int /\ k \in Int /\ k + 1 \in Int /\ n \in Int
        /\ \A i \in 1..k : units[i] \in Int
        /\ \A i \in (k + 1)..n : units[i] \in Int
    BY <1>2, <2>1
  <2> QED BY <2>2, SubSeqProperties
<1> HIDE DEF prefix, suffix, units, n, drain
<1>7. SumFunction(units) = SumFunction(prefix) + SumFunction(suffix)
  BY <1>5, <1>6, SumConcat
<1>8. SumFunction(prefix) \in Int /\ SumFunction(suffix) \in Int
  BY <1>6, SumOfSeqType
<1>9. SumFunction(suffix) = SumFunction(units) - drain.cost
  BY <1>4, <1>7, <1>8
<1> QED BY <1>3, <1>9 DEF ValueOf, units, drain

LEMMA LotWorthType ==
    ASSUME open \in OpenLots, NEW v \in Variants
    PROVE  /\ [s \in Stores |-> ValueOf(open[s][v])] \in [Stores -> Int]
           /\ LotWorth(v) \in Int
           /\ LotWorth(v) = SumFunction([s \in Stores |-> ValueOf(open[s][v])])
<1> DEFINE f == [s \in Stores |-> ValueOf(open[s][v])]
<1>1. f \in [Stores -> Int]
  BY ValueType DEF OpenLots
<1>2. LotWorth(v) = SumFunction(f)
  BY DEF LotWorth, ValueOf
<1> HIDE DEF f
<1>3. SumFunction(f) \in Int
  BY <1>1, SumType, FiniteAssumption
<1> QED BY <1>1, <1>2, <1>3 DEF f

\* The worth of the lots after a movement at store s, of which every unit that
\* left came from a lot.
LEMMA LotWorthChange ==
    ASSUME open \in OpenLots, NEW s \in Stores, NEW d \in Movement, NEW cost \in CostsOf,
           moveLots(s, d, cost), NEW v \in Variants
    PROVE  /\ d[v] >= 0 => LotWorth(v)' = LotWorth(v) + d[v] * cost[v]
           /\ d[v] <= 0 /\ Drained(s, d, cost)[v].missing = 0 =>
                LotWorth(v)' = LotWorth(v) - Drained(s, d, cost)[v].cost
<1> DEFINE f == [x \in Stores |-> ValueOf(open[x][v])]
           g == [x \in Stores |-> ValueOf(open'[x][v])]
           queue == open[s][v]
           delta == d[v]
           c == cost[v]
<1>1. /\ open' \in OpenLots
      /\ \A x \in Stores : x # s => open'[x] = open[x]
      /\ open'[s][v] = AfterMove(queue, delta, c)
  BY MoveLots
<1>2. f \in [Stores -> Int] /\ LotWorth(v) = SumFunction(f) /\ LotWorth(v) \in Int
  BY LotWorthType
<1>3. g \in [Stores -> Int]
  BY <1>1, ValueType DEF OpenLots
<1>4. LotWorth(v)' = SumFunction(g)
  BY DEF LotWorth, ValueOf
<1>5. f[s] = ValueOf(queue) /\ g[s] = ValueOf(AfterMove(queue, delta, c))
  BY <1>1
<1>6. \A x \in Stores : x # s => g[x] = f[x]
  BY <1>1
<1>7. queue \in Seq(Lot) /\ delta \in Int /\ c \in Nat
  BY DEF OpenLots, Movement, CostsOf
<1> HIDE DEF f, g
<1>8. SumFunction(g) = SumFunction(f) + (g[s] - f[s])
  BY <1>2, <1>3, <1>6, SumChange, FiniteAssumption
<1>9. LotWorth(v)' = LotWorth(v) + (ValueOf(AfterMove(queue, delta, c)) - ValueOf(queue))
  BY <1>2, <1>4, <1>5, <1>8
<1>10. ValueOf(queue) \in Int
  BY <1>7, ValueType
<1>11. ASSUME delta >= 0 PROVE LotWorth(v)' = LotWorth(v) + delta * c
  <2>1. delta \in Nat
    BY <1>7, <1>11
  <2> HIDE DEF queue, delta, c
  <2>2. ValueOf(AfterMove(queue, delta, c)) = ValueOf(queue) + delta * c
    BY <1>7, <2>1, ReceiptValue
  <2>3. delta * c \in Int
    BY <1>7
  <2> QED BY <1>2, <1>9, <1>10, <2>2, <2>3
<1>12. ASSUME delta < 0, Drained(s, d, cost)[v].missing = 0
       PROVE  LotWorth(v)' = LotWorth(v) - Drained(s, d, cost)[v].cost
  <2> DEFINE r == consumeFifo(queue, -delta, c)
  <2>1. Drained(s, d, cost)[v].missing = r.missing /\ Drained(s, d, cost)[v].cost = r.cost
    BY <1>12 DEF Drained
  <2>2. -delta \in Nat
    BY <1>7, <1>12
  <2> HIDE DEF queue, delta, c
  <2>3. ValueOf(AfterMove(queue, delta, c)) = ValueOf(queue) - r.cost
    BY <1>7, <1>12, <2>1, DrainValue
  <2>4. r.cost \in Nat
    BY <1>7, <2>2, ConsumeOldest
  <2> HIDE DEF r
  <2> QED BY <1>2, <1>9, <1>10, <2>1, <2>3, <2>4
<1>13. ASSUME delta = 0 PROVE LotWorth(v)' = LotWorth(v) - Drained(s, d, cost)[v].cost
  <2>1. Drained(s, d, cost)[v].cost = 0
    BY <1>13 DEF Drained, NoRows
  <2>2. AfterMove(queue, delta, c) = queue
    BY <1>13 DEF AfterMove
  <2> HIDE DEF queue, delta, c
  <2> QED BY <1>2, <1>9, <1>10, <2>1, <2>2
<1> QED BY <1>7, <1>11, <1>12, <1>13

LEMMA LotWorthSame ==
    ASSUME UNCHANGED open, NEW v \in Variants
    PROVE  LotWorth(v)' = LotWorth(v)
BY DEF LotWorth

LEMMA CarriedWorthType ==
    ASSUME TypeOK, carried \in [Transfers -> CostsOf], NEW v \in Variants
    PROVE  /\ [t \in Transfers |-> Carried(t, v) * carried[t][v]] \in [Transfers -> Int]
           /\ CarriedWorth(v) \in Int
<1> DEFINE f == [t \in Transfers |-> Carried(t, v) * carried[t][v]]
<1>1. f \in [Transfers -> Int]
  <2>1. ASSUME NEW t \in Transfers PROVE Carried(t, v) * carried[t][v] \in Int
    <3>1. Carried(t, v) \in Int
      BY TransferType DEF Basket, Carried
    <3>2. carried[t][v] \in Int
      BY DEF CostsOf
    <3> QED BY <3>1, <3>2
  <2> QED BY <2>1
<1> HIDE DEF f
<1>2. SumFunction(f) \in Int
  BY <1>1, SumType, FiniteAssumption
<1> QED BY <1>1, <1>2 DEF CarriedWorth, f

LEMMA CarriedWorthChange ==
    ASSUME TypeOK, TypeOK', carried \in [Transfers -> CostsOf], carried' \in [Transfers -> CostsOf],
           NEW t \in Transfers, NEW v \in Variants,
           \A u \in Transfers : u # t => transfer'[u] = transfer[u] /\ carried'[u] = carried[u]
    PROVE  CarriedWorth(v)' = CarriedWorth(v) + (Carried(t, v)' * carried'[t][v] - Carried(t, v) * carried[t][v])
<1> DEFINE f == [u \in Transfers |-> Carried(u, v) * carried[u][v]]
           g == [u \in Transfers |-> Carried(u, v)' * carried'[u][v]]
<1>1. f \in [Transfers -> Int]
  BY CarriedWorthType
<1>2. g \in [Transfers -> Int]
  <2>1. ASSUME NEW u \in Transfers PROVE Carried(u, v)' * carried'[u][v] \in Int
    <3>1. Carried(u, v)' \in Int
      BY DEF TypeOK, Transfer, Basket, Carried
    <3>2. carried'[u][v] \in Int
      BY DEF CostsOf
    <3> QED BY <3>1, <3>2
  <2> QED BY <2>1
<1>3. \A u \in Transfers : u # t => g[u] = f[u]
  BY DEF Carried
<1>4. CarriedWorth(v) = SumFunction(f) /\ CarriedWorth(v)' = SumFunction(g)
  BY DEF CarriedWorth
<1>5. f[t] = Carried(t, v) * carried[t][v] /\ g[t] = Carried(t, v)' * carried'[t][v]
  OBVIOUS
<1> HIDE DEF f, g
<1>6. SumFunction(g) = SumFunction(f) + (g[t] - f[t])
  BY <1>1, <1>2, <1>3, SumChange, FiniteAssumption
<1> QED BY <1>4, <1>5, <1>6

\* The sum of the missing units grows with the rows of one consumer.
LEMMA MissingChange ==
    ASSUME consumption \in RowsOfConsumers, consumption' \in RowsOfConsumers,
           NEW k \in Consumers, \A j \in Consumers : j # k => consumption'[j] = consumption[j],
           NEW v \in Variants, Missing(v)' = Missing(v)
    PROVE  consumption'[k][v].missing = consumption[k][v].missing
<1> DEFINE f == [j \in Consumers |-> consumption[j][v].missing]
           g == [j \in Consumers |-> consumption'[j][v].missing]
<1>1. f \in [Consumers -> Int] /\ g \in [Consumers -> Int]
  <2>1. ASSUME NEW j \in Consumers
        PROVE  consumption[j][v].missing \in Int /\ consumption'[j][v].missing \in Int
    BY DEF RowsOfConsumers, Rows
  <2> QED BY <2>1
<1>2. \A j \in Consumers : j # k => g[j] = f[j]
  OBVIOUS
<1>3. Missing(v) = SumFunction(f) /\ Missing(v)' = SumFunction(g)
  BY DEF Missing, Consumers
<1>4. f[k] = consumption[k][v].missing /\ g[k] = consumption'[k][v].missing
  OBVIOUS
<1>5. IsFiniteSet(Consumers)
  <2>1. Consumers = Reported \cup Transfers
    BY DEF Reported, Consumers
  <2> QED BY <2>1, ReportedFinite, FiniteAssumption, FS_Union
<1> HIDE DEF f, g
<1>6. SumFunction(g) = SumFunction(f) + (g[k] - f[k])
  BY <1>1, <1>2, <1>5, SumChange
<1>7. SumFunction(f) \in Int
  BY <1>1, <1>5, SumType
<1> QED BY <1>1, <1>3, <1>4, <1>6, <1>7

\* The part of ValueKept that a step has to show.
Keeps(v) == 2 * (Worth(v)' - Worth(v)) \in -Dispatched(v)..Dispatched(v)

LEMMA WorthTypes ==
    ASSUME FifoInv, NEW v \in Variants
    PROVE  /\ LotWorth(v) \in Int /\ CarriedWorth(v) \in Int /\ cogsCost(v) \in Int
           /\ InTransit(v) \in Int
BY FifoTypes, LotWorthType, CarriedWorthType, CogsType, SumsType

LEMMA SameWorth ==
    ASSUME FifoInv, NEW v \in Variants, InTransit(v)' \in Int,
           LotWorth(v)' + CarriedWorth(v)' + cogsCost(v)' = LotWorth(v) + CarriedWorth(v) + cogsCost(v)
    PROVE  Keeps(v)
<1>1. Worth(v)' = Worth(v) /\ Worth(v) \in Int
  BY WorthTypes DEF Worth
<1>2. Dispatched(v) \in Nat
  BY WorthTypes DEF Dispatched
<1> HIDE DEF Worth, Dispatched
<1>3. 2 * (Worth(v)' - Worth(v)) = 0
  BY <1>1
<1> QED BY <1>2, <1>3 DEF Keeps

\* Nothing moves.
LEMMA UnmovedKeeps ==
    ASSUME FifoInv, NEW v \in Variants, UNCHANGED <<open, carried, consumption>>,
           \A t \in Transfers : Carried(t, v)' = Carried(t, v)
    PROVE  Keeps(v)
<1>1. LotWorth(v)' = LotWorth(v) /\ cogsCost(v)' = cogsCost(v)
  BY LotWorthSame, CogsSame
<1>2. CarriedWorth(v)' = CarriedWorth(v) /\ InTransit(v)' = InTransit(v)
  <2>1. /\ [t \in Transfers |-> Carried(t, v)'] = [t \in Transfers |-> Carried(t, v)]
        /\ [t \in Transfers |-> Carried(t, v)' * carried'[t][v]]
             = [t \in Transfers |-> Carried(t, v) * carried[t][v]]
    OBVIOUS
  <2> QED BY <2>1 DEF CarriedWorth, InTransit
<1> QED BY <1>1, <1>2, WorthTypes, SameWorth

\* What leaves the lots is counted by the report.
LEMMA DrainKeeps ==
    ASSUME FifoInv, FifoInv', NEW k \in Reported, NEW v \in Variants,
           NEW s \in Stores, NEW d \in Movement, NEW cost \in CostsOf, moveLots(s, d, cost), d[v] <= 0,
           \A j \in Consumers : j # k => consumption'[j] = consumption[j],
           consumption'[k][v].cost = consumption[k][v].cost + Drained(s, d, cost)[v].cost,
           consumption'[k][v].missing = consumption[k][v].missing + Drained(s, d, cost)[v].missing,
           Missing(v)' = Missing(v), UNCHANGED <<transfer, carried>>
    PROVE  Keeps(v)
<1> DEFINE r == Drained(s, d, cost)[v]
<1>1. /\ open \in OpenLots /\ consumption \in RowsOfConsumers /\ consumption' \in RowsOfConsumers
      /\ k \in Consumers
  <2>1. (CostTypeOK)'
    BY DEF FifoInv
  <2>2. consumption' \in RowsOfConsumers
    BY <2>1 DEF CostTypeOK, RowsOfConsumers
  <2> QED BY <2>2, FifoTypes DEF Reported
<1>2. r \in Rows /\ consumption[k][v] \in Rows
  BY <1>1, DrainedType DEF RowsOfConsumers
<1>3. r.cost \in Nat /\ r.missing \in Nat /\ consumption[k][v].cost \in Nat /\ consumption[k][v].missing \in Nat
  BY <1>2 DEF Rows
<1>4. r.missing = 0
  <2>1. consumption'[k][v].missing = consumption[k][v].missing
    BY <1>1, MissingChange
  <2> HIDE DEF r
  <2>2. consumption'[k][v].missing = consumption[k][v].missing + r.missing
    BY DEF r
  <2> QED BY <1>3, <2>1, <2>2
<1>5. LotWorth(v)' = LotWorth(v) - r.cost
  BY <1>1, <1>4, LotWorthChange
<1>6. cogsCost(v)' = cogsCost(v) + r.cost
  <2>1. \A j \in Reported : j # k => consumption'[j] = consumption[j]
    BY DEF Reported
  <2>2. cogsCost(v)' = cogsCost(v) + (consumption'[k][v].cost - consumption[k][v].cost)
    BY <1>1, <2>1, CogsChange
  <2> HIDE DEF r
  <2>3. consumption'[k][v].cost = consumption[k][v].cost + r.cost
    BY DEF r
  <2> QED BY <1>3, <2>2, <2>3, WorthTypes
<1>7. CarriedWorth(v)' = CarriedWorth(v) /\ InTransit(v)' = InTransit(v)
  BY DEF CarriedWorth, InTransit, Carried
<1> HIDE DEF r
<1> QED BY <1>3, <1>5, <1>6, <1>7, WorthTypes, SameWorth

LEMMA AdjustKeeps ==
    ASSUME FifoInv, FifoInv', NEW s \in Stores, NEW w \in Variants, NEW delta \in Deltas,
           NEW c \in Costs \cup {unitCost[w]}, AdjustWithCost(s, w, delta, c),
           NEW v \in Variants, AllInLots(v)
    PROVE  Keeps(v)
<1> DEFINE d == [x \in Variants |-> IF x = w THEN delta ELSE 0]
           cost == [x \in Variants |-> c]
           r == AddRows(consumption[Shrink], Drained(s, d, cost))
<1>1. d \in Movement /\ cost \in CostsOf /\ delta \in Int
  <2>1. c \in Nat
    BY FifoTypes, CostsAssumption DEF CostsOf
  <2> QED BY <2>1, DeltasAssumption DEF Movement, CostsOf
<1>2. /\ moveLots(s, d, cost) /\ adjusted' = [adjusted EXCEPT ![w] = @ + delta]
      /\ consumption' = [consumption EXCEPT ![Shrink] = r]
      /\ UNCHANGED <<carried, transfer>>
  <2>1. consumption \in RowsOfConsumers /\ Shrink \in Consumers
    BY FifoTypes DEF Consumers
  <2> QED BY <2>1 DEF AdjustWithCost, AdjustStock, RowsOfConsumers
<1>3. d[v] <= 0
  <2>1. adjusted \in [Variants -> Int] /\ adjusted'[v] <= adjusted[v]
    BY FifoTypes DEF TypeOK, AllInLots
  <2> QED BY <1>1, <1>2, <2>1
<1> HIDE DEF d, cost
<1>4. /\ Shrink \in Consumers /\ Shrink \in Reported
      /\ consumption'[Shrink] = r /\ \A j \in Consumers : j # Shrink => consumption'[j] = consumption[j]
  BY <1>2, ReportedFinite, FifoTypes DEF Consumers, RowsOfConsumers
<1>5. /\ r[v].cost = consumption[Shrink][v].cost + Drained(s, d, cost)[v].cost
      /\ r[v].missing = consumption[Shrink][v].missing + Drained(s, d, cost)[v].missing
  BY DEF AddRows
<1>6. Missing(v)' = Missing(v)
  BY DEF AllInLots
<1> HIDE DEF r
<1> QED BY <1>1, <1>2, <1>3, <1>4, <1>5, <1>6, DrainKeeps

\* The rows of an order or a sale that takes its units are its first.
LEMMA TakeKeeps ==
    ASSUME FifoInv, FifoInv', NEW k \in Reported, consumption[k] = NothingDrained,
           NEW s \in Stores, NEW b \in Basket, moveLots(s, Out(b), unitCost),
           consumption' = [consumption EXCEPT ![k] = Drained(s, Out(b), unitCost)],
           UNCHANGED <<transfer, carried>>, NEW v \in Variants, AllInLots(v)
    PROVE  Keeps(v)
<1> DEFINE d == Out(b)
           r == Drained(s, d, unitCost)
<1>1. d \in Movement /\ unitCost \in CostsOf /\ d[v] <= 0
  BY OutType, FifoTypes
<1> HIDE DEF d
<1>2. r \in [Variants -> Rows]
  BY <1>1, FifoTypes, DrainedType
<1>3. consumption'[k] = r /\ \A j \in Consumers : j # k => consumption'[j] = consumption[j]
  BY FifoTypes DEF d, RowsOfConsumers, Reported
<1>4. /\ consumption'[k][v].cost = consumption[k][v].cost + r[v].cost
      /\ consumption'[k][v].missing = consumption[k][v].missing + r[v].missing
  BY <1>2, <1>3, NothingDrainedType DEF Rows
<1>5. Missing(v)' = Missing(v) /\ moveLots(s, d, unitCost)
  BY DEF AllInLots, d
<1> HIDE DEF r
<1> QED BY <1>1, <1>3, <1>4, <1>5, DrainKeeps DEF r

LEMMA FulfilKeeps ==
    ASSUME FifoInv, FifoInv', NEW o \in Orders, NEW s \in Stores, FulfilAtCost(o, s),
           NEW v \in Variants, AllInLots(v)
    PROVE  Keeps(v)
<1>1. /\ order[o] = "paid" /\ moveLots(s, Out(lines[o]), unitCost)
      /\ consumption' = [consumption EXCEPT ![o] = Drained(s, Out(lines[o]), unitCost)]
      /\ UNCHANGED <<transfer, carried>>
  BY DEF FulfilAtCost, StartFulfilling, MoveOrder, canTransition, ALLOWED_TRANSITIONS
<1>2. lines[o] \in Basket /\ o \in Reported /\ consumption[o] = NothingDrained
  BY <1>1, ReportedFinite, FifoTypes DEF TypeOK, RowsFollow
<1> QED BY <1>1, <1>2, TakeKeeps

LEMMA IngestKeeps ==
    ASSUME FifoInv, FifoInv', NEW e \in Sales, NEW location, NEW b \in Baskets, NEW miss \in BOOLEAN,
           IngestAtCost(e, location, b, miss), NEW v \in Variants, AllInLots(v)
    PROVE  Keeps(v)
<1> DEFINE s == IF location \in Stores THEN location ELSE Default
<1>1. /\ e \notin processed /\ moveLots(s, Out(b), unitCost)
      /\ consumption' = [consumption EXCEPT ![e] = Drained(s, Out(b), unitCost)]
      /\ UNCHANGED <<transfer, carried>>
  BY DEF IngestAtCost, IngestSale, FirstDelivery
<1>2. s \in Stores /\ b \in Basket /\ e \in Reported /\ consumption[e] = NothingDrained
  BY <1>1, StoresAssumption, BasketsAssumption, ReportedFinite, FifoTypes DEF RowsFollow
<1> HIDE DEF s
<1> QED BY <1>1, <1>2, TakeKeeps

\* A cancellation out of fulfillment is not kept: its units come back at the
\* default cost.
LEMMA RestockExcluded ==
    ASSUME FifoInv, NEW o \in Orders, NEW s \in Stores, RestockAtCost(o, s), NEW v \in Variants
    PROVE  ~ AllInLots(v)
<1>1. order[o] = "fulfilling" /\ order' = [order EXCEPT ![o] = "cancelled"]
  BY DEF RestockAtCost, CancelFulfilling, MoveOrder
<1>2. order'[o] = "cancelled"
  BY <1>1, FifoTypes DEF TypeOK
<1> QED BY <1>1, <1>2 DEF AllInLots, Cancelled

LEMMA DispatchKeeps ==
    ASSUME FifoInv, FifoInv', NEW t \in Transfers, DispatchAtCost(t), NEW v \in Variants, AllInLots(v)
    PROVE  Keeps(v)
<1> DEFINE s == transfer[t].from
           items == transfer[t].items
           d == Out(items)
           drained == Drained(s, d, unitCost)
           n == items[v]
           cost == drained[v].cost
           unit == RoundedUnitCost(cost, n)
<1>1. /\ s \in Stores /\ items \in Basket /\ d \in Movement /\ d[v] <= 0 /\ d[v] = -n /\ n \in Nat
      /\ unitCost \in CostsOf /\ open \in OpenLots
  BY FifoTypes, TransferType, OutType
<1>2. /\ transfer[t].status = "draft" /\ transfer' = [transfer EXCEPT ![t].status = "in_transit"]
      /\ moveLots(s, d, unitCost)
      /\ consumption' = [consumption EXCEPT ![t] = drained]
      /\ carried' = [carried EXCEPT ![t] = [w \in Variants |-> RoundedUnitCost(drained[w].cost, items[w])]]
  BY DEF DispatchAtCost, DispatchTransfer, MoveTransfer, ALLOWED_TRANSFER_TRANSITIONS
<1>3. /\ Carried(t, v)' = n /\ Carried(t, v) = 0 /\ carried'[t][v] = unit
      /\ \A u \in Transfers : u # t => transfer'[u] = transfer[u] /\ carried'[u] = carried[u]
  BY <1>2, FifoTypes DEF TypeOK, Transfer, Carried
<1> HIDE DEF s, d, items
<1>4. drained \in [Variants -> Rows]
  BY <1>1, DrainedType
<1> HIDE DEF drained
<1>5. cost \in Nat /\ drained[v].missing \in Nat
  BY <1>4 DEF Rows
<1>6. /\ t \in Consumers /\ consumption'[t] = drained /\ consumption[t] = NothingDrained
      /\ \A j \in Consumers : j # t => consumption'[j] = consumption[j]
      /\ consumption' \in RowsOfConsumers
  BY <1>2, <1>4, FifoTypes DEF RowsOfConsumers, Consumers, RowsFollow
<1>7. drained[v].missing = 0
  BY <1>6, FifoTypes, NothingDrainedType, MissingChange DEF AllInLots
<1>8. LotWorth(v)' = LotWorth(v) - cost
  BY <1>1, <1>2, <1>7, LotWorthChange DEF drained
<1>9. cogsCost(v)' = cogsCost(v)
  BY <1>6, CogsSame DEF Reported
<1> HIDE DEF n, cost, unit
<1>10. unit \in Nat /\ (n # 0 => 2 * (n * unit - cost) \in -n..n)
  BY <1>1, <1>5, Rounding DEF unit
<1>11. CarriedWorth(v)' = CarriedWorth(v) + n * unit
  <2>1. TypeOK /\ TypeOK' /\ carried \in [Transfers -> CostsOf] /\ carried' \in [Transfers -> CostsOf]
    <3>1. CostTypeOK' /\ TypeOK'
      BY DEF FifoInv, IInv
    <3> QED BY <3>1, FifoTypes DEF CostTypeOK, CostsOf
  <2>2. CarriedWorth(v)' = CarriedWorth(v) + (n * unit - 0 * carried[t][v])
    BY <1>3, <2>1, CarriedWorthChange
  <2>3. carried[t][v] \in Int /\ n * unit \in Int
    BY <1>1, <1>10, <2>1 DEF CostsOf
  <2>4. 0 * carried[t][v] = 0
    BY <2>3
  <2> QED BY <2>2, <2>3, <2>4
<1>12. InTransit(v)' = InTransit(v) + n
  <2>1. InTransit(v)' = InTransit(v) + (n - 0)
    BY <1>3, InTransitChange DEF FifoInv, IInv
  <2> QED BY <1>1, <2>1
<1>13. n = 0 => cost = 0
  BY <1>1, <1>5 DEF cost, drained, Drained, NoRows
<1>14. n * unit \in Int /\ (n = 0 => n * unit = 0)
  BY <1>1, <1>10
<1>15. Worth(v)' - Worth(v) = n * unit - cost
  <2> DEFINE m == n * unit
  <2>1. m \in Int
    BY <1>14
  <2> HIDE DEF m
  <2>2. CarriedWorth(v)' = CarriedWorth(v) + m
    BY <1>11 DEF m
  <2>3. Worth(v)' - Worth(v) = m - cost
    BY <1>5, <1>8, <1>9, <2>1, <2>2, WorthTypes DEF Worth
  <2> QED BY <2>3 DEF m
<1>16. Dispatched(v) = n
  BY <1>1, <1>12, WorthTypes DEF Dispatched
<1>17. 2 * (n * unit - cost) \in -n..n
  <2>1. CASE n = 0
    <3>1. n * unit - cost = 0 /\ -n..n = {0}
      BY <1>13, <1>14, <2>1
    <3> QED BY <3>1
  <2> QED BY <1>10, <2>1
<1> QED BY <1>15, <1>16, <1>17 DEF Keeps

LEMMA ArriveKeeps ==
    ASSUME FifoInv, FifoInv', NEW t \in Transfers, ReceiveAtCost(t) \/ RecallAtCost(t), NEW v \in Variants
    PROVE  Keeps(v)
<1> DEFINE items == transfer[t].items
           worth == items[v] * carried[t][v]
<1>1. PICK s \in Stores, to \in {"received", "cancelled"} :
        /\ transfer[t].status = "in_transit" /\ transfer' = [transfer EXCEPT ![t].status = to]
        /\ moveLots(s, items, carried[t])
        /\ UNCHANGED <<carried, consumption>>
  BY FifoTypes, TransferType DEF ReceiveAtCost, RecallAtCost, ReceiveTransfer, RecallTransfer, MoveTransfer,
     ALLOWED_TRANSFER_TRANSITIONS
<1>2. /\ items \in Basket /\ items \in Movement /\ carried[t] \in CostsOf /\ open \in OpenLots
      /\ items[v] \in Nat /\ carried[t][v] \in Nat
  BY FifoTypes, TransferType, OutType DEF CostsOf
<1>3. /\ Carried(t, v)' = 0 /\ Carried(t, v) = items[v]
      /\ \A u \in Transfers : u # t => transfer'[u] = transfer[u] /\ carried'[u] = carried[u]
  BY <1>1, FifoTypes DEF TypeOK, Transfer, Carried
<1> HIDE DEF items
<1>4. worth \in Int
  BY <1>2
<1>5. LotWorth(v)' = LotWorth(v) + worth
  <2>1. items[v] >= 0
    BY <1>2
  <2> QED BY <1>1, <1>2, <2>1, LotWorthChange
<1>6. cogsCost(v)' = cogsCost(v)
  BY <1>1, CogsSame
<1>7. CarriedWorth(v)' = CarriedWorth(v) - worth
  <2>1. TypeOK /\ TypeOK' /\ carried \in [Transfers -> CostsOf] /\ carried' \in [Transfers -> CostsOf]
    BY <1>1, FifoTypes DEF FifoInv, IInv
  <2>2. CarriedWorth(v)' = CarriedWorth(v) + (0 * carried'[t][v] - worth)
    BY <1>3, <2>1, CarriedWorthChange
  <2>3. 0 * carried'[t][v] = 0
    BY <1>1, <1>2
  <2> HIDE DEF worth
  <2> QED BY <1>4, <2>2, <2>3, WorthTypes
<1>8. InTransit(v)' \in Int
  <2>1. InTransit(v)' = InTransit(v) + (0 - items[v])
    BY <1>3, InTransitChange DEF FifoInv, IInv
  <2> QED BY <1>2, <2>1, WorthTypes
<1> HIDE DEF worth
<1> QED BY <1>4, <1>5, <1>6, <1>7, <1>8, WorthTypes, SameWorth

LEMMA UnpricedKeeps ==
    ASSUME FifoInv, Unpriced, NEW v \in Variants
    PROVE  Keeps(v)
<1>1. UNCHANGED <<open, carried, consumption>>
  BY DEF Unpriced, costVars
<1>2. ASSUME NEW t \in Transfers PROVE Carried(t, v)' = Carried(t, v)
  <2>1. CASE UNCHANGED transfer
    BY <2>1 DEF Carried
  <2>2. ASSUME NEW u \in Transfers, NEW from \in Stores, NEW to \in Stores, NEW b \in Baskets,
               DraftTransfer(u, from, to, b)
        PROVE  Carried(t, v)' = Carried(t, v)
    BY <2>2, FifoTypes DEF DraftTransfer, TypeOK, Carried
  <2>3. ASSUME NEW u \in Transfers, CancelDraftTransfer(u)
        PROVE  Carried(t, v)' = Carried(t, v)
    BY <2>3, FifoTypes DEF CancelDraftTransfer, MoveTransfer, TypeOK, Transfer, Carried
  <2> QED BY <2>1, <2>2, <2>3 DEF Unpriced, PlaceOrder, PayOrder, FinishOrder, CancelUnfulfilled
<1> QED BY <1>1, <1>2, UnmovedKeeps

LEMMA StepKeeps == FifoInv /\ FifoInv' /\ FifoNext => \A v \in Variants : AllInLots(v) => Keeps(v)
<1> SUFFICES ASSUME FifoInv, FifoInv', FifoNext, NEW v \in Variants, AllInLots(v) PROVE Keeps(v)
  OBVIOUS
<1>1. ASSUME NEW w \in Variants, NEW c \in Costs, SetUnitCost(w, c) PROVE Keeps(v)
  <2>1. UNCHANGED <<open, carried, consumption>> /\ \A t \in Transfers : Carried(t, v)' = Carried(t, v)
    BY <1>1 DEF SetUnitCost, vars, Carried
  <2> QED BY <2>1, UnmovedKeeps
<1> QED BY <1>1, AdjustKeeps, FulfilKeeps, RestockExcluded, DispatchKeeps, ArriveKeeps, IngestKeeps,
           UnpricedKeeps DEF FifoNext

\* Money is neither made nor lost on the way, but for half a cent per unit that
\* a transfer carries.
THEOREM WorthIsKept == FifoSpec => ValueKept
<1> DEFINE Kept == \A v \in Variants : AllInLots(v) => 2 * (Worth(v)' - Worth(v)) \in -Dispatched(v)..Dispatched(v)
<1>1. FifoInv /\ FifoInv' /\ [FifoNext]_fifoVars => [Kept]_fifoVars
  BY StepKeeps DEF Keeps
<1>2. [][Kept]_fifoVars <=> ValueKept
  BY DEF ValueKept
<1> HIDE DEF Kept
<1> QED BY <1>1, <1>2, FifoInvariance, PTL DEF FifoSpec
=============================================================================

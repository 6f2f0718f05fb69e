--------------------------- MODULE PosOrderProofs ---------------------------
(***************************************************************************)
(* Proofs about PosOrder, for any orders, intents, overlapping syncs,      *)
(* edits, cancellations and faults: its type, and that no order is         *)
(* published twice, no quick sale booked twice, no queued op forgotten,    *)
(* and that offline tenders are settled in the order of their capture.     *)
(* Then about PickupOrder, for any pickup orders and overlapping webhook   *)
(* deliveries, with all that staff and the queue may do to such an order:  *)
(* its type, that a Stripe payment is recorded once, and that an order is  *)
(* published only when it is paid, unless its lines change later.          *)
(***************************************************************************)
EXTENDS PickupOrder, FiniteSetTheorems, TLAPS

(***************************************************************************)
(* The amounts due and the totals of an order are numbers.                 *)
(***************************************************************************)
LEMMA DuesAreNat == ASSUME NEW n \in Nat PROVE DuesOf(n) \subseteq Nat
  BY MoneyAssumption DEF DuesOf

LEMMA RecordPaymentType ==
  ASSUME TypeOK, NEW i \in Intents, NEW due \in Nat, RecordPayment(i, due)
  PROVE  /\ status' \in [Orders -> OrderStatus]
         /\ paid' \in [Orders -> Nat]
         /\ booked' \in [Intents -> Nat]
<1>1. OrderOf[i] \in Orders /\ Amount[i] \in Nat
  BY IntentsAssumption
<1>2. paid[OrderOf[i]] + Amount[i] \in Nat /\ booked[i] + 1 \in Nat
  BY <1>1 DEF TypeOK
<1>3. status' \in [Orders -> OrderStatus]
  BY DEF TypeOK, RecordPayment, OrderStatus
<1>4. paid' \in [Orders -> Nat]
  BY <1>1, <1>2 DEF TypeOK, RecordPayment
<1>5. booked' \in [Intents -> Nat]
  BY <1>2 DEF TypeOK, RecordPayment
<1> QED BY <1>3, <1>4, <1>5

LEMMA BookOpType ==
  ASSUME TypeOK, NEW i \in Intents, NEW completed, BookOp(i, completed)
  PROVE  /\ status' \in [Orders -> OrderStatus]
         /\ subtotal' \in [Orders -> Nat]
         /\ paid' \in [Orders -> Nat]
         /\ booked' \in [Intents -> Nat]
         /\ refs' \subseteq Intents
         /\ refused' \subseteq Intents
<1>1. CASE RejectedOp(i)
  BY <1>1 DEF RejectedOp, TypeOK
<1>2. CASE DuplicateOp(i)
  BY <1>2 DEF DuplicateOp, moneyVars, TypeOK
<1>3. ASSUME NEW n \in Totals(i), NEW due \in DuesOf(n), AppliedOp(i, n, due)
      PROVE  /\ status' \in [Orders -> OrderStatus]
             /\ subtotal' \in [Orders -> Nat]
             /\ paid' \in [Orders -> Nat]
             /\ booked' \in [Intents -> Nat]
             /\ refs' \subseteq Intents
             /\ refused' \subseteq Intents
  <2>1. n \in Nat
    BY IntentsAssumption, MoneyAssumption DEF Totals, TypeOK
  <2>2. due \in Nat
    BY <2>1, DuesAreNat
  <2>3. RecordPayment(i, due)
    BY <1>3 DEF AppliedOp
  <2> QED BY <1>3, <2>1, <2>2, <2>3, RecordPaymentType DEF AppliedOp, TypeOK
<1> QED BY <1>1, <1>2, <1>3 DEF BookOp

LEMMA PublishType ==
  ASSUME TypeOK, NEW O, Publish(O)
  PROVE  published' \in [Orders -> Nat]
  BY DEF TypeOK, Publish

LEMMA SendChunkType == ASSUME NEW I \in SUBSET Intents PROVE SendChunk(I) \in Sync
  BY DEF SendChunk, Oldest, NoSync, Sync

LEMMA SettleType ==
  ASSUME TypeOK, NEW s \in Syncs, NEW i \in Intents, NEW completed \in SUBSET Orders,
         Settle(s, i, completed)
  PROVE  sync' \in [Syncs -> Sync]
<1>1. sync[s] \in Sync
  BY DEF TypeOK
<1>2. [sync[s] EXCEPT !.batch = @ \ {i}, !.settled = @ \cup {i}, !.looked = {},
                      !.completed = @ \cup completed] \in Sync
  BY <1>1 DEF Sync
<1>3. sync' = [sync EXCEPT ![s] = [sync[s] EXCEPT !.batch = @ \ {i}, !.settled = @ \cup {i},
                                     !.looked = {}, !.completed = @ \cup completed]]
  BY <1>1 DEF Settle, TypeOK, Sync
<1> QED BY <1>2, <1>3 DEF TypeOK

-----------------------------------------------------------------------------
(***************************************************************************)
(* Type correctness, one lemma per kind of step.                           *)
(***************************************************************************)
LEMMA StaffType == ASSUME TypeOK, StaffStep PROVE TypeOK'
<1> USE DEF TypeOK
<1>1. ASSUME NEW o \in Orders, CreateOrder(o) PROVE TypeOK'
  BY <1>1, MoneyAssumption
  DEF CreateOrder, OrderStatus, registerVars, staffVars, boundVars
<1>2. ASSUME NEW o \in Orders, CancelCheck(o) PROVE TypeOK'
  BY <1>2 DEF CancelCheck, Progress, moneyVars, registerVars, boundVars
<1>3. ASSUME NEW o \in Orders, CancelWrite(o) PROVE TypeOK'
  BY <1>3 DEF CancelWrite, Progress, OrderStatus, registerVars, boundVars
<1>4. ASSUME NEW e \in Edits, EditCheck(e) PROVE TypeOK'
  BY <1>4 DEF EditCheck, Progress, moneyVars, registerVars, boundVars
<1>5. ASSUME NEW e \in Edits, EditWrite(e) PROVE TypeOK'
  <2>1. PICK n \in Subtotals \cup {0} : subtotal' = [subtotal EXCEPT ![EditOf[e]] = n]
    BY <1>5 DEF EditWrite
  <2>2. n \in Nat
    BY MoneyAssumption
  <2>3. subtotal' \in [Orders -> Nat]
    BY <2>1, <2>2
  <2>4. edit' \in [Edits -> Progress]
    BY <1>5 DEF EditWrite, Progress
  <2> QED BY <1>5, <2>3, <2>4 DEF EditWrite, registerVars, boundVars
<1> QED BY <1>1, <1>2, <1>3, <1>4, <1>5 DEF StaffStep

LEMMA RegisterType == ASSUME TypeOK, RegisterStep PROVE TypeOK'
<1> USE DEF TypeOK
<1>1. ASSUME NEW i \in Intents, Send(i) PROVE TypeOK'
  BY <1>1 DEF Send, moneyVars, staffVars, boundVars
<1>2. ASSUME NEW i \in Intents, Answer(i) PROVE TypeOK'
  BY <1>2 DEF Answer, moneyVars, staffVars, boundVars
<1>3. ASSUME NEW i \in Intents, NetworkError(i) PROVE TypeOK'
  <2>1. Cardinality({j \in Intents : seq[j] > 0}) \in Nat
    BY IntentsAssumption, FS_Subset, FS_CardinalityType
  <2> QED BY <1>3, <2>1 DEF NetworkError, NetworkFault, moneyVars, staffVars
<1> QED BY <1>1, <1>2, <1>3 DEF RegisterStep

LEMMA ServerType == ASSUME TypeOK, ServerStep PROVE TypeOK'
<1>1. ASSUME NEW i \in Intents, Tender(i) PROVE TypeOK'
  <2> DEFINE o == OrderOf[i]
  <2>1. o \in Orders /\ subtotal[o] \in Nat
    BY IntentsAssumption DEF TypeOK
  <2>2. ASSUME NEW due \in DuesOf(subtotal[o]), RecordPayment(i, due)
        PROVE  /\ status' \in [Orders -> OrderStatus]
               /\ paid' \in [Orders -> Nat]
               /\ booked' \in [Intents -> Nat]
    BY <2>1, <2>2, DuesAreNat, RecordPaymentType
  <2>3. /\ status' \in [Orders -> OrderStatus]
        /\ paid' \in [Orders -> Nat]
        /\ booked' \in [Intents -> Nat]
    BY <1>1, <2>2 DEF Tender, TypeOK
  <2>4. published' \in [Orders -> Nat]
    BY <1>1, <2>1 DEF Tender, TypeOK
  <2> QED BY <1>1, <2>3, <2>4 DEF Tender, TypeOK, staffVars, boundVars
<1>2. ASSUME NEW i \in Intents, QuickSale(i) PROVE TypeOK'
  <2>1. CASE DuplicateOp(i) /\ UNCHANGED published
    BY <1>2, <2>1 DEF QuickSale, DuplicateOp, moneyVars, TypeOK, staffVars, boundVars
  <2>2. ASSUME NEW completed, BookOp(i, completed), Publish(completed) PROVE TypeOK'
    <3>1. published' \in [Orders -> Nat]
      BY <2>2, PublishType
    <3>2. /\ status' \in [Orders -> OrderStatus] /\ subtotal' \in [Orders -> Nat]
          /\ paid' \in [Orders -> Nat] /\ booked' \in [Intents -> Nat]
          /\ refs' \subseteq Intents /\ refused' \subseteq Intents
      BY <2>2, BookOpType
    <3> QED BY <1>2, <3>1, <3>2 DEF QuickSale, TypeOK, staffVars, boundVars
  <2> QED BY <1>2, <2>1, <2>2 DEF QuickSale
<1> QED BY <1>1, <1>2 DEF ServerStep

LEMMA SyncType == ASSUME TypeOK, NEW s \in Syncs, SyncStep(s) PROVE TypeOK'
<1>1. CASE StartSync(s)
  <2>1. SendChunk(queue) \in Sync
    BY SendChunkType DEF TypeOK
  <2> QED BY <1>1, <2>1 DEF StartSync, TypeOK, moneyVars, registerVars, staffVars, boundVars
<1>2. CASE SyncLookup(s)
  <2>1. PICK i \in sync[s].batch :
          /\ IF Duplicate(i) THEN Settle(s, i, {}) ELSE sync' = [sync EXCEPT ![s].looked = {i}]
          /\ UNCHANGED <<moneyVars, published, registerVars, staffVars, boundVars>>
    BY <1>2 DEF SyncLookup
  <2>2. sync[s] \in Sync /\ i \in Intents
    BY DEF TypeOK, Sync
  <2>3. sync' \in [Syncs -> Sync]
    <3>1. CASE Duplicate(i)
      BY <2>1, <2>2, <3>1, SettleType
    <3>2. CASE ~ Duplicate(i)
      <4>1. sync' = [sync EXCEPT ![s] = [sync[s] EXCEPT !.looked = {i}]]
        BY <2>1, <3>2
      <4>2. [sync[s] EXCEPT !.looked = {i}] \in Sync
        BY <2>2 DEF Sync
      <4> QED BY <4>1, <4>2 DEF TypeOK
    <3> QED BY <3>1, <3>2
  <2> QED BY <2>1, <2>3 DEF TypeOK, moneyVars, registerVars, staffVars, boundVars
<1>3. CASE SyncOp(s)
  <2>1. PICK i \in sync[s].looked :
          /\ \E completed \in Completes(i) : BookOp(i, completed) /\ Settle(s, i, completed)
          /\ UNCHANGED <<published, registerVars, staffVars, boundVars>>
    BY <1>3 DEF SyncOp
  <2>2. PICK completed \in Completes(i) : BookOp(i, completed) /\ Settle(s, i, completed)
    BY <2>1
  <2>3. i \in Intents
    BY DEF TypeOK, Sync
  <2>4. completed \in SUBSET Orders
    BY <2>3, IntentsAssumption DEF Completes
  <2>5. sync' \in [Syncs -> Sync]
    BY <2>2, <2>3, <2>4, SettleType
  <2>6. /\ status' \in [Orders -> OrderStatus] /\ subtotal' \in [Orders -> Nat]
        /\ paid' \in [Orders -> Nat] /\ booked' \in [Intents -> Nat]
        /\ refs' \subseteq Intents /\ refused' \subseteq Intents
    BY <2>2, <2>3, BookOpType
  <2> QED BY <2>1, <2>5, <2>6 DEF TypeOK, registerVars, staffVars, boundVars
<1>4. CASE EndBatch(s)
  <2>1. sync[s].rest \in SUBSET Intents
    BY DEF TypeOK, Sync
  <2>2. SendChunk(sync[s].rest) \in Sync
    BY <2>1, SendChunkType
  <2>3. published' \in [Orders -> Nat]
    BY <1>4, PublishType DEF EndBatch
  <2> QED BY <1>4, <2>2, <2>3 DEF EndBatch, TypeOK, moneyVars, staffVars, boundVars
<1>5. CASE LoseAnswer(s)
  <2>1. sync[s] \in Sync /\ NoSync \in Sync
    BY DEF TypeOK, Sync, NoSync
  <2>2. [sync[s] EXCEPT !.listening = FALSE, !.rest = {}] \in Sync
    BY <2>1 DEF Sync
  <2>3. sync' \in [Syncs -> Sync]
    <3>1. CASE sync' = [sync EXCEPT ![s].listening = FALSE, ![s].rest = {}]
      <4>1. sync' = [sync EXCEPT ![s] = [sync[s] EXCEPT !.listening = FALSE, !.rest = {}]]
        BY <2>1, <3>1 DEF TypeOK, Sync
      <4> QED BY <2>2, <4>1 DEF TypeOK
    <3>2. CASE sync' = [sync EXCEPT ![s] = NoSync]
      BY <2>1, <3>2 DEF TypeOK
    <3> QED BY <1>5, <3>1, <3>2 DEF LoseAnswer
  <2> QED BY <1>5, <2>3 DEF LoseAnswer, NetworkFault, TypeOK, moneyVars, registerVars, staffVars
<1>6. CASE ServerError(s)
  <2>1. NoSync \in Sync
    BY DEF Sync, NoSync
  <2> QED BY <1>6, <2>1 DEF ServerError, TypeOK, moneyVars, registerVars, staffVars
<1> QED BY <1>1, <1>2, <1>3, <1>4, <1>5, <1>6 DEF SyncStep

(***************************************************************************)
(* Every variable keeps its type.                                          *)
(***************************************************************************)
THEOREM TypeCorrect == Spec => []TypeOK
<1>1. Init => TypeOK
  BY DEF Init, TypeOK, OrderStatus, Progress, NoSync, Sync
<1>2. TypeOK /\ [Next]_vars => TypeOK'
  <2> SUFFICES ASSUME TypeOK, [Next]_vars PROVE TypeOK'
    OBVIOUS
  <2>1. CASE UNCHANGED vars
    BY <2>1 DEF vars, moneyVars, registerVars, staffVars, boundVars, TypeOK
  <2> QED BY <2>1, StaffType, RegisterType, ServerType, SyncType DEF Next
<1> QED BY <1>1, <1>2, PTL DEF Spec

-----------------------------------------------------------------------------
(***************************************************************************)
(* The inductive invariant.  An order that was published, or whose event a *)
(* batch still holds, can never be paid again: a table order is closed or  *)
(* cancelled, the externalRef of a quick sale is taken.  So an order that  *)
(* a payment closes was neither published nor in a batch before.           *)
(***************************************************************************)
Ended == {"closed", "cancelled"}

Finished(o) ==
    /\ o \in TableOrders => status[o] \in Ended
    /\ \A i \in QuickSales : OrderOf[i] = o => i \in refs

PublishedAreFinished ==
    /\ \A o \in Orders : published[o] <= 1
    /\ \A o \in Orders : published[o] > 0 => Finished(o)

BatchesAreFinished ==
    /\ \A s \in Syncs : \A o \in sync[s].completed : Finished(o) /\ published[o] = 0
    /\ \A s, t \in Syncs : s # t => sync[s].completed \cap sync[t].completed = {}

PublishInv == PublishedAreFinished /\ BatchesAreFinished

\* a quick sale is booked exactly when its externalRef is taken
BookedByRef == \A i \in QuickSales : booked[i] = IF i \in refs THEN 1 ELSE 0

\* what a batch reports as settled is booked or refused
SettledAreKnown == \A s \in Syncs : sync[s].settled \subseteq refs \cup refused

MoneyInv == TypeOK /\ PublishInv /\ BookedByRef /\ SettledAreKnown

\* no step takes back a payment, a refusal or the end of an order
Kept ==
    /\ refs \subseteq refs' /\ refused \subseteq refused'
    /\ \A o \in TableOrders : status[o] \in Ended => status'[o] \in Ended

LEMMA FinishedStays == ASSUME Kept, NEW o PROVE Finished(o) => Finished(o)'
  BY DEF Kept, Finished

LEMMA PublishStays ==
  ASSUME PublishInv, Kept, published' = published,
         \A s \in Syncs : sync'[s].completed \subseteq sync[s].completed
  PROVE  PublishInv'
<1>1. PublishedAreFinished'
  BY FinishedStays DEF PublishInv, PublishedAreFinished
<1>2. BatchesAreFinished'
  <2>1. ASSUME NEW s \in Syncs, NEW o \in sync'[s].completed
        PROVE  Finished(o)' /\ published'[o] = 0
    BY <2>1, FinishedStays DEF PublishInv, BatchesAreFinished
  <2>2. ASSUME NEW s \in Syncs, NEW t \in Syncs, s # t
        PROVE  sync'[s].completed \cap sync'[t].completed = {}
    BY <2>2 DEF PublishInv, BatchesAreFinished
  <2> QED BY <2>1, <2>2 DEF BatchesAreFinished
<1> QED BY <1>1, <1>2 DEF PublishInv

(***************************************************************************)
(* A request that ends orders and publishes them at once.                  *)
(***************************************************************************)
LEMMA PublishNew ==
  ASSUME TypeOK, PublishInv, Kept, sync' = sync, NEW O \in SUBSET Orders, Publish(O),
         \A o \in O : ~ Finished(o) /\ Finished(o)'
  PROVE  PublishInv'
<1>1. \A o \in Orders : published[o] \in Nat
  BY DEF TypeOK
<1>2. \A o \in Orders : published'[o] = IF o \in O THEN published[o] + 1 ELSE published[o]
  BY DEF Publish
<1>3. \A o \in O : published[o] = 0
  BY <1>1 DEF PublishInv, PublishedAreFinished
<1>4. PublishedAreFinished'
  BY <1>1, <1>2, <1>3, FinishedStays DEF PublishInv, PublishedAreFinished
<1>5. BatchesAreFinished'
  <2>1. ASSUME NEW s \in Syncs, NEW o \in sync'[s].completed
        PROVE  Finished(o)' /\ published'[o] = 0
    <3>1. Finished(o) /\ published[o] = 0 /\ o \in Orders
      BY <2>1 DEF PublishInv, BatchesAreFinished, TypeOK, Sync
    <3>2. o \notin O
      BY <3>1
    <3> QED BY <1>2, <3>1, <3>2, FinishedStays
  <2> QED BY <2>1 DEF BatchesAreFinished, PublishInv
<1> QED BY <1>4, <1>5 DEF PublishInv

(***************************************************************************)
(* An op that ends orders whose events wait for the rest of the batch.     *)
(***************************************************************************)
LEMMA PublishLater ==
  ASSUME TypeOK, PublishInv, Kept, published' = published, NEW s \in Syncs,
         NEW O \in SUBSET Orders, \A o \in O : ~ Finished(o) /\ Finished(o)',
         sync'[s].completed = sync[s].completed \cup O,
         \A t \in Syncs \ {s} : sync'[t].completed = sync[t].completed
  PROVE  PublishInv'
<1>1. \A o \in Orders : published[o] \in Nat
  BY DEF TypeOK
<1>2. \A o \in O : published[o] = 0
  BY <1>1 DEF PublishInv, PublishedAreFinished
<1>3. \A t \in Syncs : O \cap sync[t].completed = {}
  BY DEF PublishInv, BatchesAreFinished
<1>4. PublishedAreFinished'
  BY FinishedStays DEF PublishInv, PublishedAreFinished
<1>5. ASSUME NEW t \in Syncs, NEW o \in sync'[t].completed
      PROVE  Finished(o)' /\ published'[o] = 0
  <2>1. CASE o \in O
    BY <1>2, <2>1
  <2>2. CASE o \in sync[t].completed
    BY <2>2, FinishedStays DEF PublishInv, BatchesAreFinished
  <2> QED BY <1>5, <2>1, <2>2
<1>6. ASSUME NEW t \in Syncs, NEW u \in Syncs, t # u
      PROVE  sync'[t].completed \cap sync'[u].completed = {}
  <2>1. sync[t].completed \cap sync[u].completed = {}
    BY <1>6 DEF PublishInv, BatchesAreFinished
  <2> QED BY <1>3, <1>6, <2>1
<1> QED BY <1>4, <1>5, <1>6 DEF PublishInv, BatchesAreFinished

(***************************************************************************)
(* The end of a batch publishes what it holds and holds nothing more.      *)
(***************************************************************************)
LEMMA PublishBatch ==
  ASSUME TypeOK, PublishInv, Kept, NEW s \in Syncs, Publish(sync[s].completed),
         sync'[s].completed = {},
         \A t \in Syncs \ {s} : sync'[t].completed = sync[t].completed
  PROVE  PublishInv'
<1> DEFINE O == sync[s].completed
<1>1. O \subseteq Orders
  BY DEF TypeOK, Sync
<1>2. \A o \in Orders : published[o] \in Nat
  BY DEF TypeOK
<1>3. \A o \in Orders : published'[o] = IF o \in O THEN published[o] + 1 ELSE published[o]
  BY DEF Publish
<1>4. \A o \in O : published[o] = 0 /\ Finished(o)
  BY DEF PublishInv, BatchesAreFinished
<1>5. PublishedAreFinished'
  BY <1>2, <1>3, <1>4, FinishedStays DEF PublishInv, PublishedAreFinished
<1>6. ASSUME NEW t \in Syncs, NEW o \in sync'[t].completed
      PROVE  Finished(o)' /\ published'[o] = 0
  <2>1. t # s /\ o \in sync[t].completed /\ o \in Orders
    BY <1>6 DEF TypeOK, Sync
  <2>2. o \notin O /\ Finished(o) /\ published[o] = 0
    BY <2>1 DEF PublishInv, BatchesAreFinished
  <2> QED BY <1>3, <2>1, <2>2, FinishedStays
<1>7. \A t, u \in Syncs : t # u => sync'[t].completed \cap sync'[u].completed = {}
  BY DEF PublishInv, BatchesAreFinished
<1> QED BY <1>5, <1>6, <1>7 DEF PublishInv, BatchesAreFinished

-----------------------------------------------------------------------------
(***************************************************************************)
(* What booking a payment does to an order.                                *)
(***************************************************************************)
LEMMA OrdersApart ==
  ASSUME NEW i \in Intents, i \notin QuickSales
  PROVE  OrderOf[i] \in TableOrders /\ \A j \in QuickSales : OrderOf[j] # OrderOf[i]
  BY IntentsAssumption, QuickSalesAssumption DEF TableOrders

(***************************************************************************)
(* A payment of a table order ends it if it covers it, and the order was   *)
(* not finished before.                                                    *)
(***************************************************************************)
LEMMA TablePayment ==
  ASSUME TypeOK, NEW i \in Intents, i \notin QuickSales, NEW due, Payable(OrderOf[i]),
         RecordPayment(i, due), refs \subseteq refs', refused \subseteq refused'
  PROVE  /\ Kept
         /\ Covers(i, due) => ~ Finished(OrderOf[i]) /\ Finished(OrderOf[i])'
         /\ \A j \in QuickSales : booked'[j] = booked[j]
<1>1. OrderOf[i] \in TableOrders /\ OrderOf[i] \in Orders
  BY OrdersApart, IntentsAssumption
<1>2. Kept
  BY <1>1 DEF Kept, Ended, RecordPayment, Payable, TypeOK
<1>3. ~ Finished(OrderOf[i])
  BY <1>1 DEF Finished, Payable, Ended
<1>4. Covers(i, due) => Finished(OrderOf[i])'
  BY <1>1, OrdersApart DEF Finished, RecordPayment, Ended, TypeOK
<1>5. \A j \in QuickSales : booked'[j] = booked[j]
  BY QuickSalesAssumption DEF RecordPayment, TypeOK
<1> QED BY <1>2, <1>3, <1>4, <1>5

(***************************************************************************)
(* The transaction of an op: it settles the op, keeps what was ended, and  *)
(* completes only an order that was not finished before and is now.        *)
(***************************************************************************)
LEMMA BookOpStep ==
  ASSUME TypeOK, BookedByRef, NEW i \in Intents, NEW completed, BookOp(i, completed)
  PROVE  /\ Kept
         /\ completed \in SUBSET Orders
         /\ \A o \in completed : ~ Finished(o) /\ Finished(o)'
         /\ i \in refs' \cup refused'
         /\ BookedByRef'
<1>1. CASE completed = {} /\ RejectedOp(i)
  BY <1>1 DEF RejectedOp, Kept, BookedByRef
<1>2. CASE completed = {} /\ DuplicateOp(i)
  BY <1>2 DEF DuplicateOp, Duplicate, moneyVars, Kept, BookedByRef
<1>3. ASSUME AcceptedOp(i), NEW n \in Totals(i), NEW due \in DuesOf(n), AppliedOp(i, n, due),
             completed = IF Covers(i, due) THEN {OrderOf[i]} ELSE {}
      PROVE  /\ Kept
             /\ completed \in SUBSET Orders
             /\ \A o \in completed : ~ Finished(o) /\ Finished(o)'
             /\ i \in refs' \cup refused'
             /\ BookedByRef'
  <2>1. OrderOf[i] \in Orders /\ completed \in SUBSET Orders
    BY <1>3, IntentsAssumption
  <2>2. RecordPayment(i, due) /\ refs' = refs \cup {i} /\ refused' = refused /\ i \notin refs
    BY <1>3 DEF AppliedOp, Duplicate
  <2>3. CASE i \notin QuickSales
    <3>1. Payable(OrderOf[i])
      BY <1>3, <2>3 DEF AcceptedOp
    <3>2. /\ Kept
          /\ Covers(i, due) => ~ Finished(OrderOf[i]) /\ Finished(OrderOf[i])'
          /\ \A j \in QuickSales : booked'[j] = booked[j]
      BY <2>2, <2>3, <3>1, TablePayment
    <3>3. BookedByRef'
      BY <2>2, <2>3, <3>2 DEF BookedByRef
    <3> QED BY <1>3, <2>1, <2>2, <3>2, <3>3
  <2>4. CASE i \in QuickSales
    <3>1. OrderOf[i] \notin TableOrders
      BY <2>4 DEF TableOrders
    <3>2. \A o \in TableOrders : status'[o] = status[o]
      BY <2>2, <3>1 DEF RecordPayment, TypeOK, TableOrders
    <3>3. Kept
      BY <2>2, <3>2 DEF Kept
    <3>4. ~ Finished(OrderOf[i])
      BY <2>2, <2>4 DEF Finished
    <3>5. \A j \in QuickSales : OrderOf[j] = OrderOf[i] => j = i
      BY <2>4, QuickSalesAssumption
    <3>6. Finished(OrderOf[i])'
      BY <2>2, <3>1, <3>5 DEF Finished
    <3>7. BookedByRef'
      <4>1. booked'[i] = booked[i] + 1 /\ booked[i] = 0
        BY <2>2, <2>4 DEF RecordPayment, TypeOK, BookedByRef
      <4>2. \A j \in QuickSales \ {i} : booked'[j] = booked[j]
        BY <2>2, QuickSalesAssumption DEF RecordPayment, TypeOK
      <4> QED BY <2>2, <4>1, <4>2 DEF BookedByRef
    <3> QED BY <1>3, <2>1, <2>2, <3>3, <3>4, <3>6, <3>7
  <2> QED BY <2>3, <2>4
<1> QED BY <1>1, <1>2, <1>3 DEF BookOp

-----------------------------------------------------------------------------
(***************************************************************************)
(* The invariant holds and stays, one lemma per kind of step.              *)
(***************************************************************************)
LEMMA MoneyInit == Init => MoneyInv
<1> SUFFICES ASSUME Init PROVE MoneyInv
  OBVIOUS
<1>1. TypeOK
  BY DEF Init, TypeOK, OrderStatus, Progress, NoSync, Sync
<1>2. PublishInv
  BY DEF Init, PublishInv, PublishedAreFinished, BatchesAreFinished, NoSync
<1>3. BookedByRef
  BY QuickSalesAssumption DEF Init, BookedByRef
<1>4. SettledAreKnown
  BY DEF Init, SettledAreKnown, NoSync
<1> QED BY <1>1, <1>2, <1>3, <1>4 DEF MoneyInv

\* a step that leaves the syncs, the payments and the publications alone
LEMMA QuietStep ==
  ASSUME MoneyInv, TypeOK', Kept, UNCHANGED <<refs, refused, booked, published, sync>>
  PROVE  MoneyInv'
<1>1. PublishInv'
  BY PublishStays DEF MoneyInv
<1> QED BY <1>1 DEF MoneyInv, BookedByRef, SettledAreKnown

LEMMA StaffMoney == ASSUME MoneyInv, TypeOK', StaffStep PROVE MoneyInv'
<1>1. UNCHANGED <<refs, refused, booked, published, sync>>
  BY DEF StaffStep, CreateOrder, CancelCheck, CancelWrite, EditCheck, EditWrite, moneyVars
<1>2. \A o \in Orders : status[o] \in Ended => status'[o] \in Ended
  <2>1. ASSUME NEW c \in Orders, CreateOrder(c)
        PROVE  \A o \in Orders : status[o] \in Ended => status'[o] \in Ended
    BY <2>1 DEF CreateOrder, Ended, MoneyInv, TypeOK
  <2>2. ASSUME NEW c \in Orders, CancelWrite(c)
        PROVE  \A o \in Orders : status[o] \in Ended => status'[o] \in Ended
    BY <2>2 DEF CancelWrite, Ended, MoneyInv, TypeOK
  <2> QED BY <2>1, <2>2 DEF StaffStep, CancelCheck, EditCheck, EditWrite, moneyVars
<1>3. Kept
  BY <1>1, <1>2 DEF Kept, TableOrders
<1> QED BY <1>1, <1>3, QuietStep

LEMMA RegisterMoney == ASSUME MoneyInv, TypeOK', RegisterStep PROVE MoneyInv'
<1>1. UNCHANGED <<moneyVars, published, sync>>
  BY DEF RegisterStep, Send, Answer, NetworkError
<1>2. Kept
  BY <1>1 DEF Kept, moneyVars
<1> QED BY <1>1, <1>2, QuietStep DEF moneyVars

LEMMA ServerMoney == ASSUME MoneyInv, TypeOK', ServerStep PROVE MoneyInv'
<1>1. ASSUME NEW i \in Intents, Tender(i) PROVE MoneyInv'
  <2> DEFINE o == OrderOf[i]
  <2>1. /\ i \notin QuickSales /\ o \in Orders
        /\ refs' = refs /\ refused' = refused /\ sync' = sync
    BY <1>1, IntentsAssumption DEF Tender
  <2>2. ASSUME Payable(o), NEW due \in DuesOf(subtotal[o]), RecordPayment(i, due),
               published' = IF Covers(i, due) THEN [published EXCEPT ![o] = @ + 1] ELSE published
        PROVE  MoneyInv'
    <3>1. /\ Kept
          /\ Covers(i, due) => ~ Finished(o) /\ Finished(o)'
          /\ \A j \in QuickSales : booked'[j] = booked[j]
      BY <2>1, <2>2, TablePayment DEF MoneyInv
    <3>2. PublishInv'
      <4>1. CASE Covers(i, due)
        <5>1. Publish({o})
          BY <2>1, <2>2, <4>1 DEF Publish, MoneyInv, TypeOK
        <5> QED BY <2>1, <3>1, <4>1, <5>1, PublishNew DEF MoneyInv
      <4>2. CASE ~ Covers(i, due)
        BY <2>1, <2>2, <3>1, <4>2, PublishStays DEF MoneyInv
      <4> QED BY <4>1, <4>2
    <3> QED BY <2>1, <3>1, <3>2 DEF MoneyInv, BookedByRef, SettledAreKnown
  <2>3. ASSUME UNCHANGED <<paid, booked, status, published>> PROVE MoneyInv'
    BY <2>1, <2>3, QuietStep DEF Kept
  <2> QED BY <1>1, <2>2, <2>3 DEF Tender
<1>2. ASSUME NEW i \in Intents, QuickSale(i) PROVE MoneyInv'
  <2>1. CASE DuplicateOp(i) /\ UNCHANGED published
    BY <1>2, <2>1, QuietStep DEF QuickSale, DuplicateOp, moneyVars, Kept
  <2>2. ASSUME NEW completed, BookOp(i, completed), Publish(completed) PROVE MoneyInv'
    <3>1. /\ Kept
          /\ completed \in SUBSET Orders
          /\ \A o \in completed : ~ Finished(o) /\ Finished(o)'
          /\ BookedByRef'
      BY <2>2, BookOpStep DEF MoneyInv
    <3>2. sync' = sync
      BY <1>2 DEF QuickSale
    <3>3. PublishInv'
      BY <2>2, <3>1, <3>2, PublishNew DEF MoneyInv
    <3> QED BY <3>1, <3>2, <3>3 DEF MoneyInv, SettledAreKnown, Kept
  <2> QED BY <1>2, <2>1, <2>2 DEF QuickSale
<1> QED BY <1>1, <1>2 DEF ServerStep

\* a step of a sync that only drops ops or events
LEMMA DroppingSync ==
  ASSUME MoneyInv, TypeOK', UNCHANGED <<moneyVars, published>>,
         \A t \in Syncs : /\ sync'[t].completed \subseteq sync[t].completed
                          /\ sync'[t].settled \subseteq refs \cup refused
  PROVE  MoneyInv'
<1>1. Kept
  BY DEF Kept, moneyVars
<1>2. PublishInv'
  BY <1>1, PublishStays DEF MoneyInv
<1> QED BY <1>2 DEF MoneyInv, BookedByRef, SettledAreKnown, moneyVars

LEMMA SettleFields ==
  ASSUME TypeOK, NEW s \in Syncs, NEW i, NEW completed, Settle(s, i, completed)
  PROVE  /\ sync'[s].completed = sync[s].completed \cup completed
         /\ sync'[s].settled = sync[s].settled \cup {i}
         /\ \A t \in Syncs \ {s} : sync'[t] = sync[t]
  BY DEF Settle, TypeOK, Sync

LEMMA SendChunkFields ==
  ASSUME NEW I PROVE SendChunk(I).completed = {} /\ SendChunk(I).settled = {}
  BY DEF SendChunk, NoSync

LEMMA SyncMoney == ASSUME MoneyInv, TypeOK', NEW s \in Syncs, SyncStep(s) PROVE MoneyInv'
<1>0. TypeOK /\ sync[s] \in Sync
  BY DEF MoneyInv, TypeOK
<1>1. CASE StartSync(s)
  <2>1. sync'[s] = SendChunk(queue) /\ \A t \in Syncs \ {s} : sync'[t] = sync[t]
    BY <1>0, <1>1 DEF StartSync, TypeOK
  <2>2. \A t \in Syncs : /\ sync'[t].completed \subseteq sync[t].completed
                         /\ sync'[t].settled \subseteq refs \cup refused
    BY <2>1, SendChunkFields DEF MoneyInv, SettledAreKnown
  <2> QED BY <1>1, <2>2, DroppingSync DEF StartSync
<1>2. CASE SyncLookup(s)
  <2>1. PICK i \in sync[s].batch :
          /\ IF Duplicate(i) THEN Settle(s, i, {}) ELSE sync' = [sync EXCEPT ![s].looked = {i}]
          /\ UNCHANGED <<moneyVars, published, registerVars, staffVars, boundVars>>
    BY <1>2 DEF SyncLookup
  <2>2. \A t \in Syncs : /\ sync'[t].completed \subseteq sync[t].completed
                         /\ sync'[t].settled \subseteq refs \cup refused
    <3>1. CASE Duplicate(i)
      BY <1>0, <2>1, <3>1, SettleFields DEF Duplicate, MoneyInv, SettledAreKnown
    <3>2. CASE ~ Duplicate(i)
      <4>1. /\ sync'[s].completed = sync[s].completed /\ sync'[s].settled = sync[s].settled
            /\ \A t \in Syncs \ {s} : sync'[t] = sync[t]
        BY <1>0, <2>1, <3>2 DEF TypeOK, Sync
      <4> QED BY <4>1 DEF MoneyInv, SettledAreKnown
    <3> QED BY <3>1, <3>2
  <2> QED BY <2>1, <2>2, DroppingSync
<1>3. CASE SyncOp(s)
  <2>1. PICK i \in sync[s].looked :
          /\ \E completed \in Completes(i) : BookOp(i, completed) /\ Settle(s, i, completed)
          /\ UNCHANGED <<published, registerVars, staffVars, boundVars>>
    BY <1>3 DEF SyncOp
  <2>2. PICK completed \in Completes(i) : BookOp(i, completed) /\ Settle(s, i, completed)
    BY <2>1
  <2>3. i \in Intents
    BY <1>0 DEF Sync
  <2>4. /\ Kept
        /\ completed \in SUBSET Orders
        /\ \A o \in completed : ~ Finished(o) /\ Finished(o)'
        /\ i \in refs' \cup refused'
        /\ BookedByRef'
    BY <2>2, <2>3, BookOpStep DEF MoneyInv
  <2>5. /\ sync'[s].completed = sync[s].completed \cup completed
        /\ sync'[s].settled = sync[s].settled \cup {i}
        /\ \A t \in Syncs \ {s} : sync'[t] = sync[t]
    BY <1>0, <2>2, SettleFields
  <2>6. PublishInv'
    BY <1>0, <2>1, <2>4, <2>5, PublishLater DEF MoneyInv
  <2>7. SettledAreKnown'
    BY <2>4, <2>5 DEF SettledAreKnown, MoneyInv, Kept
  <2> QED BY <2>4, <2>6, <2>7 DEF MoneyInv
<1>4. CASE EndBatch(s)
  <2>1. sync'[s] = SendChunk(sync[s].rest) /\ \A t \in Syncs \ {s} : sync'[t] = sync[t]
    BY <1>0, <1>4 DEF EndBatch, TypeOK
  <2>2. Kept
    BY <1>4 DEF EndBatch, moneyVars, Kept
  <2>3. Publish(sync[s].completed)
    BY <1>4 DEF EndBatch
  <2>4. PublishInv'
    BY <1>0, <2>1, <2>2, <2>3, SendChunkFields, PublishBatch DEF MoneyInv
  <2> QED BY <1>4, <2>1, <2>4, SendChunkFields
      DEF EndBatch, moneyVars, MoneyInv, BookedByRef, SettledAreKnown
<1>5. CASE LoseAnswer(s)
  <2>1. \A t \in Syncs \ {s} : sync'[t] = sync[t]
    BY <1>0, <1>5 DEF LoseAnswer, TypeOK
  <2>2. /\ sync'[s].completed \subseteq sync[s].completed
        /\ sync'[s].settled \subseteq sync[s].settled
    <3>1. CASE sync' = [sync EXCEPT ![s].listening = FALSE, ![s].rest = {}]
      BY <1>0, <3>1 DEF TypeOK, Sync
    <3>2. CASE sync' = [sync EXCEPT ![s] = NoSync]
      BY <1>0, <3>2 DEF TypeOK, NoSync
    <3> QED BY <1>5, <3>1, <3>2 DEF LoseAnswer
  <2> QED BY <1>5, <2>1, <2>2, DroppingSync DEF LoseAnswer, MoneyInv, SettledAreKnown
<1>6. CASE ServerError(s)
  <2>1. sync'[s] = NoSync /\ \A t \in Syncs \ {s} : sync'[t] = sync[t]
    BY <1>0, <1>6 DEF ServerError, TypeOK
  <2> QED BY <1>6, <2>1, DroppingSync DEF ServerError, NoSync, MoneyInv, SettledAreKnown
<1> QED BY <1>1, <1>2, <1>3, <1>4, <1>5, <1>6 DEF SyncStep

\* what server, queue and wire know of money holds of every step of the register
THEOREM MoneyInvariant == Spec => []MoneyInv
<1>1. MoneyInv /\ TypeOK' /\ [Next]_vars => MoneyInv'
  <2> SUFFICES ASSUME MoneyInv, TypeOK', [Next]_vars PROVE MoneyInv'
    OBVIOUS
  <2>1. CASE UNCHANGED vars
    <3>1. UNCHANGED <<refs, refused, booked, published, sync>> /\ Kept
      BY <2>1 DEF vars, moneyVars, Kept
    <3> QED BY <3>1, QuietStep
  <2> QED BY <2>1, StaffMoney, RegisterMoney, ServerMoney, SyncMoney DEF Next
<1> QED BY <1>1, MoneyInit, TypeCorrect, PTL DEF Spec

(***************************************************************************)
(* However many tenders, replays, retries, edits and cancellations of an   *)
(* order overlap, its transaction.completed is published at most once.     *)
(***************************************************************************)
THEOREM OrdersPublishedOnce == Spec => []PublishedOnce
<1>1. MoneyInv => PublishedOnce
  BY DEF MoneyInv, PublishInv, PublishedAreFinished, PublishedOnce
<1> QED BY <1>1, MoneyInvariant, PTL

(***************************************************************************)
(* A quick sale is booked at most once, however often it is replayed.      *)
(***************************************************************************)
THEOREM QuickSalesBookedOnce == Spec => []QuickSaleOnce
<1>1. MoneyInv => QuickSaleOnce
  BY DEF MoneyInv, BookedByRef, QuickSaleOnce
<1> QED BY <1>1, MoneyInvariant, PTL

(***************************************************************************)
(* An op leaves the queue only once the server has booked or refused it.   *)
(***************************************************************************)
THEOREM NoOpForgotten == Spec => NothingForgotten
<1>1. MoneyInv /\ [Next]_vars => [\A i \in queue \ queue' : i \in refs \cup refused]_vars
  <2> SUFFICES ASSUME MoneyInv, Next, NEW i \in queue \ queue'
               PROVE  i \in refs \cup refused
    OBVIOUS
  <2>1. ASSUME NEW s \in Syncs, SyncStep(s) PROVE i \in refs \cup refused
    <3>1. CASE EndBatch(s)
      BY <3>1 DEF EndBatch, Settled, MoneyInv, SettledAreKnown
    <3>2. CASE ~ EndBatch(s)
      BY <2>1, <3>2 DEF SyncStep, StartSync, SyncLookup, SyncOp, LoseAnswer, ServerError, registerVars
    <3> QED BY <3>1, <3>2
  <2>2. queue \subseteq queue' \/ \E s \in Syncs : SyncStep(s)
    BY DEF Next, StaffStep, RegisterStep, ServerStep, CreateOrder, CancelCheck, CancelWrite,
           EditCheck, EditWrite, Send, Answer, NetworkError, Tender, QuickSale, registerVars
  <2> QED BY <2>1, <2>2
<1> QED BY <1>1, MoneyInvariant, PTL DEF Spec, NothingForgotten

-----------------------------------------------------------------------------
(***************************************************************************)
(* Offline tenders are settled in the order of their capture.  A request   *)
(* takes its ops in turn: whatever was captured before an op it holds is   *)
(* settled, or comes earlier in the same request or run.  Keys are given   *)
(* out in ascending order, and an op without a key was never replayed.     *)
(***************************************************************************)
Captured == {i \in Intents : seq[i] > 0}

InTurn(r, done, key) ==
    /\ \A i \in r.batch \cup r.rest : key[i] > 0
    /\ \A i \in r.batch, j \in Intents : key[j] > 0 /\ key[j] < key[i] => j \in done \cup r.batch
    /\ \A i \in r.rest, j \in Intents : key[j] > 0 /\ key[j] < key[i] => j \in done \cup r.batch \cup r.rest
    /\ r.looked \subseteq r.batch
    /\ \A i \in r.looked, j \in r.batch : key[i] <= key[j]

KeysInv ==
    /\ \A i \in Intents : seq[i] > 0 <=> client[i] = "queued"
    /\ \A i \in Intents : seq[i] <= Cardinality(Captured)
    /\ (refs \cup refused) \ QuickSales \subseteq Captured
    /\ queue \subseteq Captured
    /\ Captured \subseteq queue \cup refs \cup refused

TurnsInv == \A s \in Syncs : InTurn(sync[s], refs \cup refused, seq)

OrderInv == KeysInv /\ TurnsInv /\ InCaptureOrder

\* what a run does not hold any more was settled, and nothing is unsettled
LEMMA StillInTurn ==
  ASSUME NEW r, NEW shorter, NEW done, NEW more, NEW key, InTurn(r, done, key), done \subseteq more,
         shorter.batch = r.batch, shorter.rest \subseteq r.rest, shorter.rest \in {{}, r.rest},
         shorter.looked = r.looked
  PROVE  InTurn(shorter, more, key)
  BY DEF InTurn

LEMMA SettledInTurn ==
  ASSUME NEW r, NEW shorter, NEW i, NEW done, NEW more, NEW key, InTurn(r, done, key),
         done \subseteq more, i \in more,
         shorter.batch = r.batch \ {i}, shorter.rest = r.rest, shorter.looked = {}
  PROVE  InTurn(shorter, more, key)
  BY DEF InTurn

LEMMA LookedInTurn ==
  ASSUME NEW r, NEW same, NEW i \in r.batch, NEW done, NEW key, InTurn(r, done, key),
         \A j \in r.batch : key[i] <= key[j],
         same.batch = r.batch, same.rest = r.rest, same.looked = {i}
  PROVE  InTurn(same, done, key)
  BY DEF InTurn

LEMMA NoSyncInTurn == ASSUME NEW done, NEW key PROVE InTurn(NoSync, done, key)
  BY DEF InTurn, NoSync

\* the oldest ops of a run come before the others
LEMMA OldestFirstInRun ==
  ASSUME TypeOK, NEW I \in SUBSET Intents, NEW i \in Oldest(I), NEW j \in I, seq[j] <= seq[i]
  PROVE  j \in Oldest(I)
<1> DEFINE Earlier(k) == {l \in I : seq[l] < seq[k]}
<1>1. i \in I /\ \A k \in I : seq[k] \in Nat
  BY DEF TypeOK, Oldest
<1>2. IsFiniteSet(I)
  BY IntentsAssumption, FS_Subset
<1>3. Earlier(j) \subseteq Earlier(i)
  BY <1>1
<1>4. IsFiniteSet(Earlier(i))
  BY <1>2, FS_Subset
<1>5. /\ Cardinality(Earlier(j)) <= Cardinality(Earlier(i))
      /\ Cardinality(Earlier(j)) \in Nat /\ Cardinality(Earlier(i)) \in Nat
  BY <1>3, <1>4, FS_Subset, FS_CardinalityType
<1>6. Cardinality(Earlier(i)) < Chunk
  BY DEF Oldest
<1>7. Cardinality(Earlier(j)) < Chunk
  BY <1>5, <1>6, BoundsAssumption
<1> QED BY <1>7 DEF Oldest

LEMMA ChunkInTurn ==
  ASSUME TypeOK, NEW I \in SUBSET Intents, NEW done,
         \A i \in I : seq[i] > 0,
         \A i \in I, j \in Intents : seq[j] > 0 /\ seq[j] < seq[i] => j \in done \cup I
  PROVE  InTurn(SendChunk(I), done, seq)
<1>1. CASE I = {}
  BY <1>1, NoSyncInTurn DEF SendChunk
<1>2. CASE I # {}
  <2>1. /\ SendChunk(I).batch = Oldest(I) /\ SendChunk(I).rest = I \ Oldest(I)
        /\ SendChunk(I).looked = {}
    BY <1>2 DEF SendChunk, NoSync
  <2>2. Oldest(I) \subseteq I
    BY DEF Oldest
  <2>3. \A i \in I : seq[i] \in Nat
    BY DEF TypeOK
  <2>4. \A i \in Oldest(I), j \in I : seq[j] < seq[i] => j \in Oldest(I)
    BY <2>2, <2>3, OldestFirstInRun
  <2> QED BY <2>1, <2>2, <2>4 DEF InTurn
<1> QED BY <1>1, <1>2

LEMMA OrderInit == Init => OrderInv
<1> SUFFICES ASSUME Init PROVE OrderInv
  OBVIOUS
<1>1. Captured = {}
  BY DEF Init, Captured
<1>2. KeysInv
  BY <1>1, FS_EmptySet DEF Init, KeysInv
<1>3. TurnsInv
  BY NoSyncInTurn DEF Init, TurnsInv
<1> QED BY <1>2, <1>3 DEF Init, OrderInv, InCaptureOrder

\* a step that gives out no key and settles at most quick sales
LEMMA QuietOrder ==
  ASSUME OrderInv, UNCHANGED <<client, queue, seq, sync>>,
         refs \cup refused \subseteq refs' \cup refused',
         (refs' \cup refused') \ QuickSales \subseteq refs \cup refused
  PROVE  OrderInv'
<1>1. KeysInv'
  BY DEF OrderInv, KeysInv, Captured
<1>2. TurnsInv'
  <2> SUFFICES ASSUME NEW s \in Syncs PROVE InTurn(sync[s], refs' \cup refused', seq)
    BY DEF TurnsInv
  <2>1. InTurn(sync[s], refs \cup refused, seq)
    BY DEF OrderInv, TurnsInv
  <2> QED BY <2>1 DEF InTurn
<1>3. InCaptureOrder'
  BY DEF OrderInv, InCaptureOrder
<1> QED BY <1>1, <1>2, <1>3 DEF OrderInv

\* the last key is the greatest
LEMMA NextKey ==
  ASSUME TypeOK, OrderInv, NEW i \in Intents, NetworkError(i)
  PROVE  /\ seq[i] = 0 /\ seq'[i] = 1 + Cardinality(Captured)
         /\ \A j \in Intents \ {i} : seq'[j] = seq[j]
         /\ \A j \in Intents : seq[j] < seq'[i]
         /\ Captured' = Captured \cup {i}
         /\ Cardinality(Captured') = 1 + Cardinality(Captured)
         /\ Cardinality(Captured) \in Nat
<1>1. IsFiniteSet(Captured) /\ Cardinality(Captured) \in Nat
  BY IntentsAssumption, FS_Subset, FS_CardinalityType DEF Captured
<1>2. seq[i] = 0 /\ i \notin Captured
  BY DEF NetworkError, OrderInv, KeysInv, Captured, TypeOK
<1>3. seq'[i] = 1 + Cardinality(Captured) /\ \A j \in Intents \ {i} : seq'[j] = seq[j]
  BY DEF NetworkError, Captured, TypeOK
<1>4. Captured' = Captured \cup {i}
  BY <1>1, <1>3 DEF Captured
<1>5. Cardinality(Captured') = 1 + Cardinality(Captured)
  BY <1>1, <1>2, <1>4, FS_AddElement
<1>6. \A j \in Intents : seq[j] < seq'[i]
  BY <1>1, <1>3 DEF OrderInv, KeysInv, TypeOK
<1> QED BY <1>1, <1>2, <1>3, <1>4, <1>5, <1>6

LEMMA RegisterOrder == ASSUME TypeOK, OrderInv, RegisterStep PROVE OrderInv'
<1>1. ASSUME NEW i \in Intents, Send(i) \/ Answer(i) PROVE OrderInv'
  <2>1. UNCHANGED <<refs, refused, queue, seq, sync>>
    BY <1>1 DEF Send, Answer, moneyVars
  <2>2. KeysInv'
    BY <1>1, <2>1 DEF Send, Answer, OrderInv, KeysInv, Captured, TypeOK
  <2> QED BY <2>1, <2>2 DEF OrderInv, TurnsInv, InCaptureOrder
<1>2. ASSUME NEW i \in Intents, NetworkError(i) PROVE OrderInv'
  <2>1. UNCHANGED <<refs, refused, sync>> /\ queue' = queue \cup {i}
    BY <1>2 DEF NetworkError, moneyVars
  <2>2. /\ seq[i] = 0 /\ seq'[i] = 1 + Cardinality(Captured)
        /\ \A j \in Intents \ {i} : seq'[j] = seq[j]
        /\ \A j \in Intents : seq[j] < seq'[i]
        /\ Captured' = Captured \cup {i}
        /\ Cardinality(Captured') = 1 + Cardinality(Captured)
        /\ Cardinality(Captured) \in Nat
    BY <1>2, NextKey
  <2>3. client'[i] = "queued" /\ \A j \in Intents \ {i} : client'[j] = client[j]
    BY <1>2 DEF NetworkError, TypeOK
  <2>4. KeysInv'
    <3>1. \A j \in Intents : seq'[j] > 0 <=> client'[j] = "queued"
      BY <2>2, <2>3 DEF OrderInv, KeysInv
    <3>2. \A j \in Intents : seq'[j] <= Cardinality(Captured')
      BY <2>2 DEF OrderInv, KeysInv, TypeOK
    <3>3. /\ (refs \cup refused) \ QuickSales \subseteq Captured'
          /\ queue' \subseteq Captured'
          /\ Captured' \subseteq queue' \cup refs \cup refused
      BY <2>1, <2>2 DEF OrderInv, KeysInv
    <3> QED BY <2>1, <3>1, <3>2, <3>3 DEF KeysInv
  <2>5. TurnsInv'
    <3> SUFFICES ASSUME NEW s \in Syncs PROVE InTurn(sync[s], refs \cup refused, seq')
      BY <2>1 DEF TurnsInv
    <3>1. InTurn(sync[s], refs \cup refused, seq)
      BY DEF OrderInv, TurnsInv
    <3>2. /\ sync[s].batch \subseteq Intents /\ sync[s].rest \subseteq Intents
          /\ sync[s].looked \subseteq sync[s].batch
      BY <3>1 DEF TypeOK, Sync, InTurn
    <3>3. \A j \in sync[s].batch \cup sync[s].rest : j # i /\ seq'[j] = seq[j]
      BY <2>2, <3>1, <3>2 DEF InTurn
    <3>4. \A j \in sync[s].batch \cup sync[s].rest, k \in Intents :
             seq'[k] > 0 /\ seq'[k] < seq'[j] => seq[k] > 0 /\ seq[k] < seq[j]
      <4> SUFFICES ASSUME NEW j \in sync[s].batch \cup sync[s].rest, NEW k \in Intents,
                          seq'[k] > 0, seq'[k] < seq'[j]
                   PROVE  seq[k] > 0 /\ seq[k] < seq[j]
        OBVIOUS
      <4>1. j \in Intents /\ seq'[j] = seq[j] /\ seq[j] \in Nat /\ seq[j] < seq'[i]
        BY <2>2, <3>2, <3>3 DEF TypeOK
      <4>2. k # i
        BY <2>2, <4>1
      <4> QED BY <2>2, <4>1, <4>2
    <3> QED BY <3>1, <3>2, <3>3, <3>4 DEF InTurn
  <2>6. InCaptureOrder'
    <3> SUFFICES ASSUME NEW j \in (refs \cup refused) \ QuickSales, NEW k \in Intents,
                        seq'[k] > 0, seq'[k] < seq'[j]
                 PROVE  k \in refs \cup refused
      BY <2>1 DEF InCaptureOrder
    <3>1. j \in Intents \ {i} /\ seq[j] \in Nat
      BY <2>2 DEF OrderInv, KeysInv, Captured, TypeOK
    <3>2. k # i
      BY <2>2, <3>1
    <3> QED BY <2>2, <3>1, <3>2 DEF OrderInv, InCaptureOrder
  <2> QED BY <2>4, <2>5, <2>6 DEF OrderInv
<1> QED BY <1>1, <1>2 DEF RegisterStep

LEMMA BookOpSettles ==
  ASSUME NEW i, NEW completed, BookOp(i, completed)
  PROVE  refs' \cup refused' = refs \cup refused \cup {i}
  BY DEF BookOp, RejectedOp, AppliedOp, DuplicateOp, Duplicate, moneyVars

LEMMA ServerOrder == ASSUME OrderInv, ServerStep PROVE OrderInv'
<1>1. ASSUME NEW i \in Intents, Tender(i) PROVE OrderInv'
  BY <1>1, QuietOrder DEF Tender
<1>2. ASSUME NEW i \in Intents, QuickSale(i) PROVE OrderInv'
  <2>1. UNCHANGED <<client, queue, seq, sync>> /\ i \in QuickSales
    BY <1>2 DEF QuickSale
  <2>2. CASE DuplicateOp(i)
    BY <2>1, <2>2, QuietOrder DEF DuplicateOp, moneyVars
  <2>3. ASSUME NEW completed, BookOp(i, completed) PROVE OrderInv'
    BY <2>1, <2>3, BookOpSettles, QuietOrder
  <2> QED BY <1>2, <2>2, <2>3 DEF QuickSale
<1> QED BY <1>1, <1>2 DEF ServerStep

\* a step of one sync that gives out no key
LEMMA OneTurn ==
  ASSUME OrderInv, NEW s \in Syncs, UNCHANGED <<client, seq>>,
         refs \cup refused \subseteq refs' \cup refused',
         \A t \in Syncs \ {s} : sync'[t] = sync[t],
         InTurn(sync'[s], refs' \cup refused', seq)
  PROVE  TurnsInv'
<1> SUFFICES ASSUME NEW t \in Syncs PROVE InTurn(sync'[t], refs' \cup refused', seq)
  BY DEF TurnsInv
<1>1. CASE t = s
  BY <1>1
<1>2. CASE t # s
  <2>1. InTurn(sync[t], refs \cup refused, seq) /\ sync'[t] = sync[t]
    BY <1>2 DEF OrderInv, TurnsInv
  <2> QED BY <2>1, StillInTurn
<1> QED BY <1>1, <1>2

\* a step of one sync that settles nothing
LEMMA SameOrder ==
  ASSUME OrderInv, UNCHANGED <<client, seq, refs, refused>>, TurnsInv', queue' \subseteq queue,
         queue \subseteq queue' \cup refs \cup refused
  PROVE  OrderInv'
<1>1. KeysInv'
  BY DEF OrderInv, KeysInv, Captured
<1> QED BY <1>1 DEF OrderInv, InCaptureOrder

LEMMA SyncOrder == ASSUME MoneyInv, OrderInv, NEW s \in Syncs, SyncStep(s) PROVE OrderInv'
<1>0. /\ TypeOK /\ sync[s] \in Sync /\ InTurn(sync[s], refs \cup refused, seq)
      /\ \A i \in Intents : seq[i] \in Nat
  BY DEF MoneyInv, TypeOK, OrderInv, TurnsInv
<1>1. CASE StartSync(s)
  <2>1. sync'[s] = SendChunk(queue) /\ \A t \in Syncs \ {s} : sync'[t] = sync[t]
    BY <1>0, <1>1 DEF StartSync, TypeOK
  <2>2. InTurn(SendChunk(queue), refs \cup refused, seq)
    <3>1. queue \in SUBSET Intents /\ \A i \in queue : seq[i] > 0
      BY <1>0 DEF OrderInv, KeysInv, Captured, TypeOK
    <3>2. \A i \in Intents : seq[i] > 0 => i \in refs \cup refused \cup queue
      BY DEF OrderInv, KeysInv, Captured
    <3> QED BY <1>0, <3>1, <3>2, ChunkInTurn
  <2>3. UNCHANGED <<client, seq, refs, refused, queue>>
    BY <1>1 DEF StartSync, moneyVars, registerVars
  <2>4. TurnsInv'
    BY <2>1, <2>2, <2>3, OneTurn
  <2> QED BY <2>3, <2>4, SameOrder
<1>2. CASE SyncLookup(s)
  <2>1. PICK i \in sync[s].batch :
          /\ Head(s, i)
          /\ IF Duplicate(i) THEN Settle(s, i, {}) ELSE sync' = [sync EXCEPT ![s].looked = {i}]
          /\ UNCHANGED <<moneyVars, published, registerVars, staffVars, boundVars>>
    BY <1>2 DEF SyncLookup
  <2>2. UNCHANGED <<client, seq, refs, refused, queue>>
    BY <2>1 DEF moneyVars, registerVars
  <2>3. CASE Duplicate(i)
    <3>1. /\ sync'[s].batch = sync[s].batch \ {i} /\ sync'[s].rest = sync[s].rest
          /\ sync'[s].looked = {} /\ \A t \in Syncs \ {s} : sync'[t] = sync[t]
      BY <1>0, <2>1, <2>3 DEF Settle, TypeOK, Sync
    <3>2. InTurn(sync'[s], refs \cup refused, seq)
      BY <1>0, <2>3, <3>1, SettledInTurn DEF Duplicate
    <3> QED BY <2>2, <3>1, <3>2, OneTurn, SameOrder
  <2>4. CASE ~ Duplicate(i)
    <3>1. /\ sync'[s].batch = sync[s].batch /\ sync'[s].rest = sync[s].rest
          /\ sync'[s].looked = {i} /\ \A t \in Syncs \ {s} : sync'[t] = sync[t]
      BY <1>0, <2>1, <2>4 DEF TypeOK, Sync
    <3>2. \A j \in sync[s].batch : seq[i] <= seq[j]
      BY <2>1 DEF Head
    <3>3. InTurn(sync'[s], refs \cup refused, seq)
      BY <1>0, <3>1, <3>2, LookedInTurn
    <3> QED BY <2>2, <3>1, <3>3, OneTurn, SameOrder
  <2> QED BY <2>3, <2>4
<1>3. CASE SyncOp(s)
  <2>1. PICK i \in sync[s].looked :
          /\ \E completed \in Completes(i) : BookOp(i, completed) /\ Settle(s, i, completed)
          /\ UNCHANGED <<published, registerVars, staffVars, boundVars>>
    BY <1>3 DEF SyncOp
  <2>2. PICK completed \in Completes(i) : BookOp(i, completed) /\ Settle(s, i, completed)
    BY <2>1
  <2>3. UNCHANGED <<client, seq, queue>> /\ refs' \cup refused' = refs \cup refused \cup {i}
    BY <2>1, <2>2, BookOpSettles DEF registerVars
  <2>4. /\ sync'[s].batch = sync[s].batch \ {i} /\ sync'[s].rest = sync[s].rest
        /\ sync'[s].looked = {} /\ \A t \in Syncs \ {s} : sync'[t] = sync[t]
    BY <1>0, <2>2 DEF Settle, TypeOK, Sync
  <2>5. TurnsInv'
    <3>1. InTurn(sync'[s], refs' \cup refused', seq)
      BY <1>0, <2>3, <2>4, SettledInTurn
    <3> QED BY <2>3, <2>4, <3>1, OneTurn
  <2>6. i \in Intents /\ i \in sync[s].batch /\ seq[i] > 0
    BY <1>0 DEF InTurn, Sync
  <2>7. KeysInv'
    BY <2>3, <2>6 DEF OrderInv, KeysInv, Captured
  <2>8. \A j \in Intents : seq[j] > 0 /\ seq[j] < seq[i] => j \in refs \cup refused
    BY <1>0, <2>6 DEF InTurn
  <2>9. InCaptureOrder'
    BY <2>3, <2>8 DEF OrderInv, InCaptureOrder
  <2> QED BY <2>5, <2>7, <2>9 DEF OrderInv
<1>4. CASE EndBatch(s)
  <2>1. sync'[s] = SendChunk(sync[s].rest) /\ \A t \in Syncs \ {s} : sync'[t] = sync[t]
    BY <1>0, <1>4 DEF EndBatch, TypeOK
  <2>2. UNCHANGED <<client, seq, refs, refused>> /\ sync[s].batch = {}
    BY <1>4 DEF EndBatch, moneyVars
  <2>3. queue' \subseteq queue /\ queue \subseteq queue' \cup refs \cup refused
    BY <1>4 DEF EndBatch, Settled, MoneyInv, SettledAreKnown
  <2>4. InTurn(SendChunk(sync[s].rest), refs \cup refused, seq)
    <3>1. sync[s].rest \in SUBSET Intents /\ \A i \in sync[s].rest : seq[i] > 0
      BY <1>0 DEF InTurn, Sync
    <3>2. \A i \in sync[s].rest, j \in Intents :
             seq[j] > 0 /\ seq[j] < seq[i] => j \in refs \cup refused \cup sync[s].rest
      BY <1>0, <2>2 DEF InTurn
    <3> QED BY <1>0, <3>1, <3>2, ChunkInTurn
  <2> QED BY <2>1, <2>2, <2>3, <2>4, OneTurn, SameOrder
<1>5. CASE LoseAnswer(s)
  <2>1. UNCHANGED <<client, seq, refs, refused, queue>>
    BY <1>5 DEF LoseAnswer, moneyVars, registerVars
  <2>2. \A t \in Syncs \ {s} : sync'[t] = sync[t]
    BY <1>0, <1>5 DEF LoseAnswer, TypeOK
  <2>3. CASE sync' = [sync EXCEPT ![s].listening = FALSE, ![s].rest = {}]
    <3>1. /\ sync'[s].batch = sync[s].batch /\ sync'[s].rest = {}
          /\ sync'[s].looked = sync[s].looked
      BY <1>0, <2>3 DEF TypeOK, Sync
    <3>2. InTurn(sync'[s], refs \cup refused, seq)
      BY <1>0, <3>1, StillInTurn
    <3> QED BY <2>1, <2>2, <3>2, OneTurn, SameOrder
  <2>4. CASE sync' = [sync EXCEPT ![s] = NoSync]
    <3>1. sync'[s] = NoSync
      BY <1>0, <2>4 DEF TypeOK
    <3> QED BY <2>1, <2>2, <3>1, NoSyncInTurn, OneTurn, SameOrder
  <2> QED BY <1>5, <2>3, <2>4 DEF LoseAnswer
<1>6. CASE ServerError(s)
  <2>1. sync'[s] = NoSync /\ \A t \in Syncs \ {s} : sync'[t] = sync[t]
    BY <1>0, <1>6 DEF ServerError, TypeOK
  <2>2. UNCHANGED <<client, seq, refs, refused, queue>>
    BY <1>6 DEF ServerError, moneyVars, registerVars
  <2> QED BY <2>1, <2>2, NoSyncInTurn, OneTurn, SameOrder
<1> QED BY <1>1, <1>2, <1>3, <1>4, <1>5, <1>6 DEF SyncStep

(***************************************************************************)
(* However many syncs overlap, fail or lose their answer, an offline       *)
(* tender is settled only after those captured before it.                  *)
(***************************************************************************)
THEOREM SettledInCaptureOrder == Spec => []InCaptureOrder
<1>1. MoneyInv /\ OrderInv /\ [Next]_vars => OrderInv'
  <2> SUFFICES ASSUME MoneyInv, OrderInv, [Next]_vars PROVE OrderInv'
    OBVIOUS
  <2>1. CASE StaffStep
    <3>1. UNCHANGED <<client, queue, seq, sync, refs, refused>>
      BY <2>1 DEF StaffStep, CreateOrder, CancelCheck, CancelWrite, EditCheck, EditWrite, moneyVars,
                  registerVars
    <3> QED BY <3>1, QuietOrder
  <2>2. CASE UNCHANGED vars
    <3>1. UNCHANGED <<client, queue, seq, sync, refs, refused>>
      BY <2>2 DEF vars, moneyVars, registerVars
    <3> QED BY <3>1, QuietOrder
  <2> QED BY <2>1, <2>2, RegisterOrder, ServerOrder, SyncOrder DEF Next, MoneyInv
<1>2. OrderInv => InCaptureOrder
  BY DEF OrderInv
<1> QED BY <1>1, <1>2, OrderInit, MoneyInvariant, PTL DEF Spec

-----------------------------------------------------------------------------
(***************************************************************************)
(* The inductive invariant of PickupOrder.  An order exists once it is     *)
(* placed; a delivery that holds the lock is alone with its order and      *)
(* nothing was recorded before it; an order that is announced, or will be  *)
(* by a delivery or a batch, has left "open" for good.                     *)
(***************************************************************************)
Placed ==
    /\ \A o \in Pickups : checkout[o] = "none" <=> status[o] = "none"
    /\ \A o \in Pickups : checkout[o] = "none" => session[o] = "none"
    /\ \A d \in Deliveries : handler[d] # NoHandler => checkout[handler[d].order] # "none"
    /\ \A o \in Orders : cancel[o] = "checked" => status[o] # "none"

LockedAlone ==
    \A d \in Deliveries : handler[d].step = "locked" =>
        /\ pi[handler[d].order] = 0
        /\ \A e \in Deliveries :
             handler[e].step = "locked" /\ handler[e].order = handler[d].order => e = d

\* published, or closed by an op whose batch has not published yet
Sold(o) == published[o] > 0 \/ \E s \in Syncs : o \in sync[s].completed

SoldLeftOpen == \A o \in Pickups : Sold(o) => status[o] \notin {"none", "open"}

ConfirmedLeftOpen ==
    \A d \in Deliveries :
        handler[d].step = "committed" \/ (handler[d].step = "locked" /\ handler[d].read # "open")
            => status[handler[d].order] # "open"

PickupInv ==
    PickupTypeOK /\ Placed /\ LockedAlone /\ StripeBookedOnce /\ SoldLeftOpen /\ ConfirmedLeftOpen

Handling == [step : {"locked", "committed"}, order : Pickups, read : OrderStatus \ {"none"}]

LEMMA HandlerType ==
  ASSUME PickupTypeOK, NEW d \in Deliveries, handler[d].step # "idle"
  PROVE  /\ handler[d] # NoHandler /\ handler[d] \in Handling
         /\ handler[d].order \in Pickups /\ handler[d].order \in Orders
  BY PickupsAssumption DEF PickupTypeOK, TableOrders, NoHandler, Handling

LEMMA PickupsAreOrders == Pickups \subseteq Orders
  BY PickupsAssumption DEF TableOrders

-----------------------------------------------------------------------------
(***************************************************************************)
(* What staff, the register and its queue do to a pickup order: it is paid *)
(* more, never less, never opened again, and sold only when it is covered. *)
(***************************************************************************)
LEMMA TillType == ASSUME TypeOK, TillStep PROVE TypeOK'
  BY StaffType, RegisterType, ServerType, SyncType DEF TillStep, Next

TillEffect ==
    /\ \A o \in Orders : status[o] # "none" => status'[o] # "none"
    /\ \A o \in Orders : cancel'[o] = "checked" => cancel[o] = "checked" \/ status[o] # "none"
    /\ \A o \in Pickups : status'[o] = "open" => status[o] = "open"
    /\ \A o \in Pickups : paid[o] <= paid'[o]
    /\ \A o \in Pickups : Sold(o)' => Sold(o) \/ (status'[o] = "closed" /\ Covered(o)')

LEMMA PaymentEffect ==
  ASSUME TypeOK, NEW i \in Intents, NEW due, RecordPayment(i, due)
  PROVE  /\ \A o \in Orders : status[o] # "none" => status'[o] # "none"
         /\ \A o \in Orders : status'[o] = "open" => status[o] = "open"
         /\ \A o \in Orders : paid[o] <= paid'[o]
         /\ Covers(i, due) => status'[OrderOf[i]] = "closed" /\ paid'[OrderOf[i]] >= due
<1>1. OrderOf[i] \in Orders /\ Amount[i] \in Nat /\ \A o \in Orders : paid[o] \in Nat
  BY IntentsAssumption DEF TypeOK
<1>2. \A o \in Orders : paid'[o] = IF o = OrderOf[i] THEN paid[o] + Amount[i] ELSE paid[o]
  BY <1>1 DEF RecordPayment, TypeOK
<1>3. \A o \in Orders : paid[o] <= paid'[o]
  BY <1>1, <1>2
<1>4. /\ \A o \in Orders : status[o] # "none" => status'[o] # "none"
      /\ \A o \in Orders : status'[o] = "open" => status[o] = "open"
  BY <1>1 DEF RecordPayment, TypeOK
<1>5. Covers(i, due) => status'[OrderOf[i]] = "closed" /\ paid'[OrderOf[i]] >= due
  BY <1>1, <1>2 DEF RecordPayment, Covers, TypeOK
<1> QED BY <1>3, <1>4, <1>5

LEMMA BookOpEffect ==
  ASSUME TypeOK, NEW i \in Intents, NEW completed, BookOp(i, completed)
  PROVE  /\ \A o \in Orders : status[o] # "none" => status'[o] # "none"
         /\ \A o \in Orders : status'[o] = "open" => status[o] = "open"
         /\ \A o \in Orders : paid[o] <= paid'[o]
         /\ \A o \in completed : status'[o] = "closed" /\ Covered(o)'
<1>1. \A o \in Orders : paid[o] \in Nat
  BY DEF TypeOK
<1>2. CASE completed = {} /\ RejectedOp(i)
  BY <1>1, <1>2 DEF RejectedOp
<1>3. CASE completed = {} /\ DuplicateOp(i)
  BY <1>1, <1>3 DEF DuplicateOp, moneyVars
<1>4. ASSUME NEW n \in Totals(i), NEW due \in DuesOf(n), AppliedOp(i, n, due),
             completed = IF Covers(i, due) THEN {OrderOf[i]} ELSE {}
      PROVE  /\ \A o \in Orders : status[o] # "none" => status'[o] # "none"
             /\ \A o \in Orders : status'[o] = "open" => status[o] = "open"
             /\ \A o \in Orders : paid[o] <= paid'[o]
             /\ \A o \in completed : status'[o] = "closed" /\ Covered(o)'
  <2>1. RecordPayment(i, due)
    BY <1>4 DEF AppliedOp
  <2>2. OrderOf[i] \in Orders /\ subtotal'[OrderOf[i]] = n
    BY <1>4, IntentsAssumption DEF AppliedOp, TypeOK
  <2>3. ASSUME Covers(i, due)
        PROVE  status'[OrderOf[i]] = "closed" /\ Covered(OrderOf[i])'
    <3>1. status'[OrderOf[i]] = "closed" /\ paid'[OrderOf[i]] >= due
      BY <2>1, <2>3, PaymentEffect
    <3>2. due \in DuesOf(subtotal'[OrderOf[i]])
      BY <2>2
    <3> QED BY <3>1, <3>2 DEF Covered, DuesOf
  <2> QED BY <1>4, <2>1, <2>3, PaymentEffect
<1> QED BY <1>2, <1>3, <1>4 DEF BookOp

LEMMA TillEffects == ASSUME PickupInv, TillStep PROVE TillEffect
<1> USE PickupsAreOrders
<1>0. /\ TypeOK /\ \A o \in Orders : paid[o] \in Nat /\ published[o] \in Nat
      /\ \A o \in Pickups : status[o] = "none" => status'[o] = "none"
  BY DEF PickupInv, PickupTypeOK, TypeOK, TillStep
<1>1. CASE StaffStep
  <2>1. UNCHANGED <<paid, published, sync>>
    BY <1>1 DEF StaffStep, CreateOrder, CancelCheck, CancelWrite, EditCheck, EditWrite, moneyVars
  <2> DEFINE Quiet ==
        /\ \A o \in Orders : status[o] # "none" => status'[o] # "none"
        /\ \A o \in Orders : cancel'[o] = "checked" => cancel[o] = "checked" \/ status[o] # "none"
        /\ \A o \in Orders : status'[o] = "open" => status[o] \in {"none", "open"}
  <2>2. Quiet
    <3>1. ASSUME NEW c \in Orders, CreateOrder(c) PROVE Quiet
      BY <1>0, <3>1 DEF CreateOrder, staffVars, TypeOK
    <3>2. ASSUME NEW c \in Orders, CancelCheck(c) PROVE Quiet
      BY <1>0, <3>2 DEF CancelCheck, moneyVars, TypeOK
    <3>3. ASSUME NEW c \in Orders, CancelWrite(c) PROVE Quiet
      BY <1>0, <3>3 DEF CancelWrite, TypeOK
    <3>4. ASSUME NEW e \in Edits, EditCheck(e) \/ EditWrite(e) PROVE Quiet
      BY <3>4 DEF EditCheck, EditWrite, moneyVars
    <3> QED BY <1>1, <3>1, <3>2, <3>3, <3>4 DEF StaffStep
  <2> QED BY <1>0, <2>1, <2>2 DEF TillEffect, Sold
<1>2. CASE RegisterStep
  <2>1. UNCHANGED <<paid, status, cancel, published, sync>>
    BY <1>2 DEF RegisterStep, Send, Answer, NetworkError, moneyVars, staffVars
  <2> QED BY <1>0, <2>1 DEF TillEffect, Sold
<1>3. ASSUME NEW i \in Intents, Tender(i) PROVE TillEffect
  <2> DEFINE p == OrderOf[i]
  <2>1. p \in Orders /\ subtotal' = subtotal /\ cancel' = cancel /\ sync' = sync
    BY <1>3, IntentsAssumption DEF Tender, staffVars
  <2>2. ASSUME NEW due \in DuesOf(subtotal[p]), RecordPayment(i, due),
               published' = IF Covers(i, due) THEN [published EXCEPT ![p] = @ + 1] ELSE published
        PROVE  TillEffect
    <3>1. ASSUME NEW o \in Pickups, Sold(o)', ~ Sold(o)
          PROVE  status'[o] = "closed" /\ Covered(o)'
      <4>1. o = p /\ Covers(i, due)
        BY <1>0, <2>1, <2>2, <3>1 DEF Sold, TypeOK
      <4>2. status'[p] = "closed" /\ paid'[p] >= due
        BY <1>0, <2>2, <4>1, PaymentEffect
      <4> QED BY <2>1, <2>2, <4>1, <4>2 DEF Covered, DuesOf
    <3> QED BY <1>0, <2>1, <2>2, <3>1, PaymentEffect DEF TillEffect
  <2>3. ASSUME UNCHANGED <<paid, booked, status, published>> PROVE TillEffect
    BY <1>0, <2>1, <2>3 DEF TillEffect, Sold
  <2> QED BY <1>3, <2>2, <2>3 DEF Tender
<1>4. ASSUME NEW i \in Intents, QuickSale(i) PROVE TillEffect
  <2>1. cancel' = cancel /\ sync' = sync
    BY <1>4 DEF QuickSale, staffVars
  <2>2. ASSUME DuplicateOp(i), UNCHANGED published PROVE TillEffect
    BY <1>0, <2>1, <2>2 DEF DuplicateOp, moneyVars, TillEffect, Sold
  <2>3. ASSUME NEW completed, BookOp(i, completed), Publish(completed) PROVE TillEffect
    <3>1. ASSUME NEW o \in Pickups, Sold(o)', ~ Sold(o)
          PROVE  status'[o] = "closed" /\ Covered(o)'
      <4>1. o \in completed
        BY <1>0, <2>1, <2>3, <3>1 DEF Sold, Publish
      <4> QED BY <1>0, <2>3, <4>1, BookOpEffect
    <3> QED BY <1>0, <2>1, <2>3, <3>1, BookOpEffect DEF TillEffect
  <2> QED BY <1>4, <2>2, <2>3 DEF QuickSale
<1>5. ASSUME NEW s \in Syncs, SyncStep(s) PROVE TillEffect
  <2>0. cancel' = cancel /\ TypeOK'
    BY <1>0, <1>5, SyncType DEF SyncStep, StartSync, SyncLookup, SyncOp, EndBatch, LoseAnswer,
       ServerError, staffVars
  <2>1. CASE SyncOp(s)
    <3>1. PICK i \in sync[s].looked :
            /\ \E completed \in Completes(i) : BookOp(i, completed) /\ Settle(s, i, completed)
            /\ published' = published
      BY <2>1 DEF SyncOp
    <3>2. PICK completed \in Completes(i) : BookOp(i, completed) /\ Settle(s, i, completed)
      BY <3>1
    <3>3. i \in Intents
      BY <1>0 DEF TypeOK, Sync
    <3>4. /\ sync'[s].completed = sync[s].completed \cup completed
          /\ \A t \in Syncs \ {s} : sync'[t] = sync[t]
      BY <1>0, <3>2, SettleFields
    <3>5. \A o \in Pickups : Sold(o)' => Sold(o) \/ o \in completed
      BY <3>1, <3>4 DEF Sold
    <3> QED BY <1>0, <2>0, <3>2, <3>3, <3>5, BookOpEffect DEF TillEffect
  <2>2. CASE EndBatch(s)
    <3>1. UNCHANGED <<status, paid>> /\ Publish(sync[s].completed)
          /\ sync' = [sync EXCEPT ![s] = SendChunk(sync[s].rest)]
      BY <2>2 DEF EndBatch, moneyVars
    <3>2. \A t \in Syncs : sync'[t].completed \subseteq sync[t].completed
      BY <1>0, <3>1, SendChunkFields DEF TypeOK
    <3>3. \A o \in Pickups : Sold(o)' => Sold(o)
      BY <1>0, <3>1, <3>2 DEF Sold, Publish
    <3> QED BY <1>0, <2>0, <3>1, <3>3 DEF TillEffect
  <2>3. CASE StartSync(s) \/ SyncLookup(s) \/ LoseAnswer(s) \/ ServerError(s)
    <3>1. UNCHANGED <<status, paid, published>>
      BY <2>3 DEF StartSync, SyncLookup, LoseAnswer, ServerError, moneyVars
    <3>2. \A t \in Syncs : sync'[t].completed \subseteq sync[t].completed
      <4>1. CASE StartSync(s)
        BY <1>0, <4>1, SendChunkFields DEF StartSync, TypeOK
      <4>2. CASE SyncLookup(s)
        <5>1. PICK i \in sync[s].batch :
                IF Duplicate(i) THEN Settle(s, i, {}) ELSE sync' = [sync EXCEPT ![s].looked = {i}]
          BY <4>2 DEF SyncLookup
        <5> QED BY <1>0, <5>1, SettleFields DEF TypeOK, Sync
      <4>3. CASE LoseAnswer(s) \/ ServerError(s)
        <5>1. NoSync.completed = {} /\ sync[s] \in Sync
          BY <1>0 DEF NoSync, TypeOK
        <5>2. CASE sync' = [sync EXCEPT ![s] = NoSync]
          BY <1>0, <5>1, <5>2 DEF TypeOK
        <5>3. CASE sync' = [sync EXCEPT ![s].listening = FALSE, ![s].rest = {}]
          BY <1>0, <5>1, <5>3 DEF TypeOK, Sync
        <5> QED BY <4>3, <5>2, <5>3 DEF LoseAnswer, ServerError
      <4> QED BY <2>3, <4>1, <4>2, <4>3
    <3> QED BY <1>0, <2>0, <3>1, <3>2 DEF TillEffect, Sold
  <2> QED BY <1>5, <2>1, <2>2, <2>3 DEF SyncStep
<1> QED BY <1>1, <1>2, <1>3, <1>4, <1>5 DEF TillStep, Next, ServerStep

-----------------------------------------------------------------------------
(***************************************************************************)
(* The invariant, one step per action.                                     *)
(***************************************************************************)
LEMMA LeftOpenStays ==
  ASSUME PickupInv, UNCHANGED <<published, sync, handler>>,
         \A o \in Pickups : status[o] \notin {"none", "open"} => status'[o] \notin {"none", "open"}
  PROVE  SoldLeftOpen' /\ ConfirmedLeftOpen'
<1>1. SoldLeftOpen'
  BY DEF PickupInv, SoldLeftOpen, Sold
<1>2. ASSUME NEW d \in Deliveries,
             handler'[d].step = "committed" \/ (handler'[d].step = "locked" /\ handler'[d].read # "open")
      PROVE  status'[handler'[d].order] # "open"
  <2>1. handler[d] # NoHandler /\ handler[d].order \in Pickups
    BY <1>2, HandlerType DEF PickupInv
  <2>2. status[handler[d].order] \notin {"none", "open"}
    BY <1>2, <2>1 DEF PickupInv, Placed, ConfirmedLeftOpen
  <2> QED BY <2>1, <2>2
<1> QED BY <1>1, <1>2 DEF ConfirmedLeftOpen

LEMMA PickupInvInit == PickupInit => PickupInv
<1> SUFFICES ASSUME PickupInit PROVE PickupInv
  OBVIOUS
<1>1. TypeOK
  BY DEF PickupInit, Init, TypeOK, OrderStatus, Progress, NoSync, Sync
<1>2. PickupTypeOK
  BY <1>1 DEF PickupInit, PickupTypeOK
<1>3. Placed
  BY PickupsAreOrders DEF PickupInit, Init, Placed
<1>4. LockedAlone /\ StripeBookedOnce /\ ConfirmedLeftOpen
  BY DEF PickupInit, LockedAlone, StripeBookedOnce, ConfirmedLeftOpen, NoHandler
<1>5. SoldLeftOpen
  BY PickupsAreOrders DEF PickupInit, Init, SoldLeftOpen, Sold, NoSync
<1> QED BY <1>2, <1>3, <1>4, <1>5 DEF PickupInv

LEMMA CheckoutInv == ASSUME PickupInv, CheckoutStep PROVE PickupInv'
<1> USE PickupsAreOrders DEF PickupInv, PickupTypeOK
<1>1. ASSUME NEW o \in Pickups, PlaceOrder(o) PROVE PickupInv'
  <2>1. PICK n \in Subtotals : \E c \in 1 .. n :
          subtotal' = [subtotal EXCEPT ![o] = n] /\ charge' = [charge EXCEPT ![o] = c]
    BY <1>1 DEF PlaceOrder
  <2>2. PICK c \in 1 .. n :
          subtotal' = [subtotal EXCEPT ![o] = n] /\ charge' = [charge EXCEPT ![o] = c]
    BY <2>1
  <2>3. n \in Nat /\ c \in Nat
    BY MoneyAssumption
  <2>4. subtotal' \in [Orders -> Nat] /\ charge' \in [Pickups -> Nat]
    BY <2>2, <2>3 DEF TypeOK
  <2>5. TypeOK'
    BY <1>1, <2>4 DEF PlaceOrder, TypeOK, OrderStatus, registerVars, staffVars, boundVars
  <2>6. PickupTypeOK'
    BY <1>1, <2>4, <2>5 DEF PlaceOrder
  <2>7. Placed'
    BY <1>1 DEF PlaceOrder, Placed, TypeOK, staffVars
  <2>8. SoldLeftOpen' /\ ConfirmedLeftOpen'
    BY <1>1, LeftOpenStays DEF PlaceOrder, Placed, TypeOK
  <2> QED BY <1>1, <2>6, <2>7, <2>8 DEF PlaceOrder, LockedAlone, StripeBookedOnce
<1>2. ASSUME NEW o \in Pickups, OfferCheckout(o) PROVE PickupInv'
  <2>1. TypeOK'
    BY <1>2 DEF OfferCheckout, vars, moneyVars, registerVars, staffVars, boundVars, TypeOK
  <2>2. PickupTypeOK'
    BY <1>2, <2>1 DEF OfferCheckout
  <2>3. Placed'
    BY <1>2 DEF OfferCheckout, Placed, vars, moneyVars, staffVars
  <2>4. SoldLeftOpen' /\ ConfirmedLeftOpen'
    BY <1>2, LeftOpenStays DEF OfferCheckout, vars, moneyVars
  <2> QED BY <1>2, <2>2, <2>3, <2>4 DEF OfferCheckout, LockedAlone, StripeBookedOnce
<1>3. ASSUME NEW o \in Pickups, FailCheckout(o) PROVE PickupInv'
  <2>1. TypeOK'
    BY <1>3 DEF FailCheckout, registerVars, staffVars, boundVars, TypeOK, OrderStatus
  <2>2. PickupTypeOK'
    BY <1>3, <2>1 DEF FailCheckout
  <2>3. Placed'
    BY <1>3 DEF FailCheckout, Placed, TypeOK, staffVars
  <2>4. SoldLeftOpen' /\ ConfirmedLeftOpen'
    BY <1>3, LeftOpenStays DEF FailCheckout, TypeOK
  <2> QED BY <1>3, <2>2, <2>3, <2>4 DEF FailCheckout, LockedAlone, StripeBookedOnce
<1> QED BY <1>1, <1>2, <1>3 DEF CheckoutStep

LEMMA StripeInv == ASSUME PickupInv, StripeStep PROVE PickupInv'
<1> USE PickupsAreOrders DEF PickupInv, PickupTypeOK
<1>1. ASSUME NEW o \in Pickups, Pay(o) PROVE PickupInv'
  <2>1. TypeOK'
    BY <1>1 DEF Pay, vars, moneyVars, registerVars, staffVars, boundVars, TypeOK
  <2>2. PickupTypeOK'
    BY <1>1, <2>1 DEF Pay
  <2>3. Placed'
    BY <1>1 DEF Pay, Placed, vars, moneyVars, staffVars
  <2>4. SoldLeftOpen' /\ ConfirmedLeftOpen'
    BY <1>1, LeftOpenStays DEF Pay, vars, moneyVars
  <2> QED BY <1>1, <2>2, <2>3, <2>4 DEF Pay, LockedAlone, StripeBookedOnce
<1>2. ASSUME NEW o \in Pickups, CancelAbandoned(o) PROVE PickupInv'
  <2>1. TypeOK'
    BY <1>2 DEF CancelAbandoned, registerVars, staffVars, boundVars, TypeOK, OrderStatus
  <2>2. PickupTypeOK'
    BY <1>2, <2>1 DEF CancelAbandoned
  <2>3. Placed'
    BY <1>2 DEF CancelAbandoned, Placed, TypeOK, staffVars
  <2>4. SoldLeftOpen' /\ ConfirmedLeftOpen'
    BY <1>2, LeftOpenStays DEF CancelAbandoned, TypeOK
  <2> QED BY <1>2, <2>2, <2>3, <2>4 DEF CancelAbandoned, LockedAlone, StripeBookedOnce
<1> QED BY <1>1, <1>2 DEF StripeStep

LEMMA WebhookInv == ASSUME PickupInv, WebhookStep PROVE PickupInv'
<1> USE PickupsAreOrders DEF PickupInv, PickupTypeOK
<1>1. ASSUME NEW d \in Deliveries, NEW o \in Pickups, Deliver(d, o) PROVE PickupInv'
  <2>1. TypeOK'
    BY <1>1 DEF Deliver, vars, moneyVars, registerVars, staffVars, boundVars, TypeOK
  <2>2. status[o] \in OrderStatus \ {"none"} /\ checkout[o] # "none"
    BY <1>1 DEF Deliver, Placed, TypeOK
  <2>3. /\ handler'[d] = [step |-> "locked", order |-> o, read |-> status[o]]
        /\ \A e \in Deliveries \ {d} : handler'[e] = handler[e]
    BY <1>1 DEF Deliver
  <2>4. PickupTypeOK'
    BY <1>1, <2>1, <2>2 DEF Deliver
  <2>5. Placed'
    BY <1>1, <2>2, <2>3 DEF Deliver, Placed, vars, moneyVars, staffVars
  <2>6. pi[o] = 0 /\ ~ Locked(o) /\ pi' = pi
    BY <1>1 DEF Deliver, Confirmed
  <2>7. LockedAlone'
    BY <2>3, <2>6 DEF LockedAlone, Locked
  <2>8. SoldLeftOpen' /\ ConfirmedLeftOpen'
    BY <1>1, <2>3 DEF Deliver, SoldLeftOpen, Sold, ConfirmedLeftOpen, vars, moneyVars
  <2> QED BY <2>4, <2>5, <2>6, <2>7, <2>8 DEF StripeBookedOnce
<1>2. ASSUME NEW d \in Deliveries, Confirm(d) PROVE PickupInv'
  <2> DEFINE o == handler[d].order
  <2>1. handler[d].step = "locked" /\ o \in Pickups /\ o \in Orders /\ handler[d] \in Handling
        /\ handler[d] # NoHandler
    BY <1>2, HandlerType DEF Confirm
  <2>2. checkout[o] # "none" /\ status[o] # "none"
    BY <2>1 DEF Placed
  <2>3. status' = [status EXCEPT ![o] = Advanced(handler[d].read, status[o])]
    BY <1>2 DEF Confirm
  <2>4. status' \in [Orders -> OrderStatus] /\ \A c \in Orders : status'[c] = "none" <=> status[c] = "none"
    BY <2>1, <2>2, <2>3 DEF TypeOK, Advanced, OrderStatus
  <2>5. paid' \in [Orders -> Nat]
    BY <1>2, <2>1 DEF Confirm, TypeOK
  <2>6. TypeOK'
    BY <1>2, <2>4, <2>5 DEF Confirm, TypeOK, registerVars, staffVars, boundVars
  <2>7. /\ handler'[d] = [handler[d] EXCEPT !.step = "committed"]
        /\ \A e \in Deliveries \ {d} : handler'[e] = handler[e]
    BY <1>2 DEF Confirm
  <2>8. /\ handler'[d] \in Handling /\ handler'[d].step = "committed" /\ handler'[d].order = o
    BY <2>1, <2>7 DEF Handling
  <2>9. handler' \in [Deliveries -> {NoHandler} \cup Handling]
    BY <1>2, <2>1, <2>7, <2>8 DEF Confirm, Handling
  <2>10. pi' = [pi EXCEPT ![o] = pi[o] + 1] /\ pi[o] = 0
    BY <1>2, <2>1 DEF Confirm, LockedAlone
  <2>11. PickupTypeOK'
    BY <1>2, <2>1, <2>6, <2>9, <2>10 DEF Confirm, Handling
  <2>12. Placed'
    BY <1>2, <2>1, <2>4, <2>7, <2>8 DEF Confirm, Placed, staffVars
  <2>13. LockedAlone'
    <3> SUFFICES ASSUME NEW e \in Deliveries, handler'[e].step = "locked"
                 PROVE  /\ pi'[handler'[e].order] = 0
                        /\ \A f \in Deliveries :
                             handler'[f].step = "locked" /\ handler'[f].order = handler'[e].order => f = e
      BY DEF LockedAlone
    <3>1. e # d /\ handler'[e] = handler[e] /\ handler[e].step = "locked"
      BY <2>7, <2>8
    <3>2. handler[e].order # o /\ handler[e].order \in Pickups
      BY <2>1, <3>1, HandlerType DEF LockedAlone
    <3>3. pi'[handler'[e].order] = 0
      BY <2>1, <2>10, <3>1, <3>2 DEF LockedAlone
    <3>4. ASSUME NEW f \in Deliveries, handler'[f].step = "locked",
                 handler'[f].order = handler'[e].order
          PROVE  f = e
      <4>1. handler'[f] = handler[f]
        BY <2>7, <2>8, <3>4
      <4> QED BY <3>1, <3>4, <4>1 DEF LockedAlone
    <3> QED BY <3>3, <3>4
  <2>14. StripeBookedOnce'
    BY <2>1, <2>10 DEF StripeBookedOnce
  <2>15. \A c \in Pickups : status[c] \notin {"none", "open"} => status'[c] \notin {"none", "open"}
    BY <2>1, <2>3 DEF TypeOK, Advanced
  <2>16. SoldLeftOpen'
    BY <1>2, <2>15 DEF Confirm, SoldLeftOpen, Sold
  <2>17. status'[o] # "open"
    BY <2>1, <2>2, <2>3 DEF TypeOK, Advanced, ConfirmedLeftOpen
  <2>18. ConfirmedLeftOpen'
    <3> SUFFICES ASSUME NEW e \in Deliveries, handler'[e].step = "committed"
                          \/ (handler'[e].step = "locked" /\ handler'[e].read # "open")
                 PROVE  status'[handler'[e].order] # "open"
      BY DEF ConfirmedLeftOpen
    <3>1. CASE e = d
      BY <2>8, <2>17, <3>1
    <3>2. CASE e # d
      <4>1. handler'[e] = handler[e]
        BY <2>7, <3>2
      <4>2. handler[e].order \in Pickups /\ handler[e] # NoHandler
        BY <4>1, HandlerType
      <4>3. status[handler[e].order] \notin {"none", "open"}
        BY <4>1, <4>2 DEF Placed, ConfirmedLeftOpen
      <4> QED BY <2>15, <4>1, <4>2, <4>3
    <3> QED BY <3>1, <3>2
  <2> QED BY <2>11, <2>12, <2>13, <2>14, <2>16, <2>18
<1>3. ASSUME NEW d \in Deliveries, PublishConfirmed(d) PROVE PickupInv'
  <2> DEFINE o == handler[d].order
  <2>1. o \in Pickups /\ o \in Orders /\ checkout[o] # "none"
    BY <1>3, HandlerType DEF PublishConfirmed, Placed
  <2>2. published' \in [Orders -> Nat] /\ \A c \in Orders : c # o => published'[c] = published[c]
    BY <1>3, <2>1 DEF PublishConfirmed, TypeOK
  <2>3. /\ handler' = [handler EXCEPT ![d] = NoHandler] /\ handler'[d] = NoHandler
        /\ \A e \in Deliveries \ {d} : handler'[e] = handler[e]
    BY <1>3 DEF PublishConfirmed
  <2>4. TypeOK'
    BY <1>3, <2>2 DEF PublishConfirmed, moneyVars, registerVars, staffVars, boundVars, TypeOK
  <2>5. PickupTypeOK'
    BY <1>3, <2>3, <2>4 DEF PublishConfirmed
  <2>6. Placed'
    BY <1>3, <2>1, <2>2, <2>3 DEF PublishConfirmed, Placed, moneyVars, staffVars
  <2>7. LockedAlone'
    BY <1>3, <2>3 DEF PublishConfirmed, LockedAlone, NoHandler
  <2>8. status' = status /\ sync' = sync /\ status[o] \notin {"none", "open"}
    BY <1>3, <2>1, HandlerType DEF PublishConfirmed, moneyVars, Placed, ConfirmedLeftOpen
  <2>9. SoldLeftOpen' /\ ConfirmedLeftOpen'
    BY <2>2, <2>3, <2>8 DEF SoldLeftOpen, Sold, ConfirmedLeftOpen, NoHandler
  <2> QED BY <1>3, <2>5, <2>6, <2>7, <2>9 DEF PublishConfirmed, StripeBookedOnce
<1>4. ASSUME NEW d \in Deliveries, DeliveryFails(d) PROVE PickupInv'
  <2>1. TypeOK'
    BY <1>4 DEF DeliveryFails, NetworkFault, moneyVars, registerVars, staffVars, TypeOK
  <2>2. /\ handler'[d] = NoHandler
        /\ \A e \in Deliveries \ {d} : handler'[e] = handler[e]
    BY <1>4 DEF DeliveryFails
  <2>3. PickupTypeOK'
    BY <1>4, <2>1 DEF DeliveryFails
  <2>4. Placed'
    BY <1>4, <2>2 DEF DeliveryFails, Placed, moneyVars, staffVars
  <2>5. LockedAlone'
    BY <1>4, <2>2 DEF DeliveryFails, LockedAlone, NoHandler
  <2>6. SoldLeftOpen' /\ ConfirmedLeftOpen'
    BY <1>4, <2>2 DEF DeliveryFails, SoldLeftOpen, Sold, ConfirmedLeftOpen, NoHandler, moneyVars
  <2> QED BY <1>4, <2>3, <2>4, <2>5, <2>6 DEF DeliveryFails, StripeBookedOnce
<1> QED BY <1>1, <1>2, <1>3, <1>4 DEF WebhookStep

LEMMA TillInv == ASSUME PickupInv, TillStep PROVE PickupInv'
<1> USE PickupsAreOrders
<1>1. TypeOK'
  BY TillType DEF PickupInv, PickupTypeOK
<1>2. /\ TillEffect /\ UNCHANGED <<checkout, charge, session, handler, pi>>
      /\ late' \subseteq Pickups
      /\ \A o \in Pickups : status[o] = "none" => status'[o] = "none"
  BY TillEffects DEF TillStep, PickupInv, PickupTypeOK
<1>3. PickupTypeOK'
  BY <1>1, <1>2 DEF PickupInv, PickupTypeOK
<1>4. Placed'
  BY <1>2 DEF PickupInv, Placed, TillEffect
<1>5. SoldLeftOpen'
  BY <1>2 DEF PickupInv, SoldLeftOpen, TillEffect
<1>6. ConfirmedLeftOpen'
  <2> SUFFICES ASSUME NEW d \in Deliveries,
                 handler[d].step = "committed" \/ (handler[d].step = "locked" /\ handler[d].read # "open")
               PROVE  status'[handler[d].order] # "open"
    BY <1>2 DEF ConfirmedLeftOpen
  <2>1. handler[d].order \in Pickups /\ status[handler[d].order] # "open"
    BY HandlerType DEF PickupInv, ConfirmedLeftOpen
  <2> QED BY <1>2, <2>1 DEF TillEffect
<1> QED BY <1>2, <1>3, <1>4, <1>5, <1>6 DEF PickupInv, LockedAlone, StripeBookedOnce

\* the invariant of checkout, Stripe, deliveries and staff on one order
THEOREM PickupInvariant == PickupSpec => []PickupInv
<1>1. PickupInv /\ [PickupNext]_allVars => PickupInv'
  <2> SUFFICES ASSUME PickupInv, [PickupNext]_allVars PROVE PickupInv'
    OBVIOUS
  <2>1. CASE UNCHANGED allVars
    <3>1. TypeOK'
      BY <2>1 DEF allVars, vars, moneyVars, registerVars, staffVars, boundVars, PickupInv, PickupTypeOK, TypeOK
    <3>2. SoldLeftOpen' /\ ConfirmedLeftOpen'
      BY <2>1, LeftOpenStays DEF allVars, pickupVars, vars, moneyVars
    <3> QED BY <2>1, <3>1, <3>2 DEF allVars, pickupVars, vars, moneyVars, staffVars, PickupInv,
              PickupTypeOK, Placed, LockedAlone, StripeBookedOnce
  <2> QED BY <2>1, CheckoutInv, StripeInv, WebhookInv, TillInv DEF PickupNext
<1> QED BY <1>1, PickupInvInit, PTL DEF PickupSpec

(***************************************************************************)
(* Every variable keeps its type; in particular a delivery reads only      *)
(* orders that exist.                                                      *)
(***************************************************************************)
THEOREM PickupTypeCorrect == PickupSpec => []PickupTypeOK
<1>1. PickupInv => PickupTypeOK
  BY DEF PickupInv
<1> QED BY <1>1, PickupInvariant, PTL

(***************************************************************************)
(* A payment intent is recorded once, whatever Stripe delivers and however *)
(* many handlers run.                                                      *)
(***************************************************************************)
THEOREM StripeBooksOnce == PickupSpec => []StripeBookedOnce
<1>1. PickupInv => StripeBookedOnce
  BY DEF PickupInv
<1> QED BY <1>1, PickupInvariant, PTL

-----------------------------------------------------------------------------
(***************************************************************************)
(* A published order is paid for: what was paid stays paid, and once it    *)
(* was announced or closed, its total changes only by a late edit.         *)
(***************************************************************************)
SoldIsPaid == \A o \in Pickups \ late : Sold(o) => Covered(o)

LEMMA SubtotalIsDue ==
  ASSUME Discounts # {}, NEW n \in Nat
  PROVE  \E due \in DuesOf(n) : due <= n
<1>1. PICK d \in Discounts : TRUE
  OBVIOUS
<1>2. d \in Nat
  BY MoneyAssumption
<1> DEFINE due == IF n > d THEN n - d ELSE 0
<1>3. due \in DuesOf(n)
  BY DEF DuesOf
<1>4. due <= n
  BY <1>2
<1> QED BY <1>3, <1>4

LEMMA CoveredStays ==
  ASSUME TypeOK, TypeOK', NEW o \in Pickups, Covered(o),
         subtotal'[o] = subtotal[o], paid[o] <= paid'[o]
  PROVE  Covered(o)'
<1>1. PICK due \in DuesOf(subtotal[o]) : paid[o] >= due
  BY DEF Covered
<1>2. paid[o] \in Nat /\ paid'[o] \in Nat /\ due \in Nat
  BY <1>1, PickupsAreOrders, DuesAreNat DEF TypeOK
<1>3. due \in DuesOf(subtotal'[o]) /\ paid'[o] >= due
  BY <1>1, <1>2
<1> QED BY <1>3 DEF Covered, DuesOf

\* a step that announces nothing and changes no total of an announced order
LEMMA SoldStaysPaid ==
  ASSUME PickupInv, PickupInv', SoldIsPaid, UNCHANGED <<published, sync, late>>,
         \A o \in Pickups : paid[o] <= paid'[o],
         \A o \in Pickups : status[o] # "none" => subtotal'[o] = subtotal[o]
  PROVE  SoldIsPaid'
<1> SUFFICES ASSUME NEW o \in Pickups \ late, Sold(o)' PROVE Covered(o)'
  BY DEF SoldIsPaid
<1>1. Sold(o)
  BY DEF Sold
<1>2. Covered(o) /\ status[o] # "none"
  BY <1>1 DEF SoldIsPaid, PickupInv, SoldLeftOpen
<1> QED BY <1>2, CoveredStays DEF PickupInv, PickupTypeOK

LEMMA TillKeepsPaid ==
  ASSUME PickupInv, PickupInv', SoldIsPaid, TillStep
  PROVE  SoldIsPaid'
<1> SUFFICES ASSUME NEW o \in Pickups \ late', Sold(o)' PROVE Covered(o)'
  BY DEF SoldIsPaid
<1>1. TillEffect /\ o \notin late
  BY TillEffects DEF TillStep
<1>2. CASE Sold(o)
  <2>1. Covered(o) /\ status[o] # "open"
    BY <1>1, <1>2 DEF SoldIsPaid, PickupInv, SoldLeftOpen
  <2>2. subtotal'[o] = subtotal[o]
    BY <2>1 DEF TillStep
  <2> QED BY <1>1, <2>1, <2>2, CoveredStays DEF PickupInv, PickupTypeOK, TillEffect
<1>3. CASE ~ Sold(o)
  BY <1>1, <1>3 DEF TillEffect
<1> QED BY <1>2, <1>3

(***************************************************************************)
(* Any tenders, replays, deliveries, failures, edits and cancellations: a  *)
(* published pickup order is paid for, unless its lines were changed after *)
(* it left "open" (the lines routes write on a status read earlier).       *)
(***************************************************************************)
THEOREM OnlyPaidIsPublished ==
  ASSUME Discounts # {}
  PROVE  PickupSpec => []PublishedIsPaid
<1> USE PickupsAreOrders
<1>1. PickupInit => SoldIsPaid
  BY DEF PickupInit, Init, SoldIsPaid, Sold, NoSync
<1>2. PickupInv /\ PickupInv' /\ SoldIsPaid /\ [PickupNext]_allVars => SoldIsPaid'
  <2> SUFFICES ASSUME PickupInv, PickupInv', SoldIsPaid, [PickupNext]_allVars
               PROVE  SoldIsPaid'
    OBVIOUS
  <2>0. /\ TypeOK /\ TypeOK'
        /\ \A o \in Orders : published[o] \in Nat /\ paid[o] \in Nat /\ subtotal[o] \in Nat
    BY DEF PickupInv, PickupTypeOK, TypeOK
  <2>1. CASE CheckoutStep
    <3>1. ASSUME NEW c \in Pickups, PlaceOrder(c) PROVE SoldIsPaid'
      <4>1. status[c] = "none"
        BY <3>1 DEF PlaceOrder, PickupInv, Placed
      <4> QED BY <2>0, <3>1, <4>1, SoldStaysPaid DEF PlaceOrder, TypeOK
    <3>2. ASSUME NEW c \in Pickups, OfferCheckout(c) \/ FailCheckout(c) PROVE SoldIsPaid'
      BY <2>0, <3>2, SoldStaysPaid DEF OfferCheckout, FailCheckout, vars, moneyVars
    <3> QED BY <2>1, <3>1, <3>2 DEF CheckoutStep
  <2>2. CASE StripeStep
    BY <2>0, <2>2, SoldStaysPaid DEF StripeStep, Pay, CancelAbandoned, vars, moneyVars
  <2>3. ASSUME NEW d \in Deliveries, NEW o \in Pickups, Deliver(d, o) PROVE SoldIsPaid'
    BY <2>0, <2>3, SoldStaysPaid DEF Deliver, vars, moneyVars
  <2>4. ASSUME NEW d \in Deliveries, Confirm(d) PROVE SoldIsPaid'
    <3>1. handler[d].order \in Pickups
      BY <2>4, HandlerType DEF Confirm, PickupInv
    <3>2. charge[handler[d].order] \in Nat
      BY <3>1 DEF PickupInv, PickupTypeOK
    <3>3. \A o \in Pickups : paid[o] <= paid'[o]
      BY <2>0, <2>4, <3>1, <3>2 DEF Confirm, TypeOK
    <3> QED BY <2>0, <2>4, <3>3, SoldStaysPaid DEF Confirm
  <2>5. ASSUME NEW d \in Deliveries, PublishConfirmed(d) PROVE SoldIsPaid'
    <3> DEFINE o == handler[d].order
    <3>1. o \in Pickups
      BY <2>5, HandlerType DEF PublishConfirmed, PickupInv
    <3>2. UNCHANGED <<paid, subtotal, sync, late, status>>
      BY <2>5 DEF PublishConfirmed, moneyVars
    <3>3. CASE FullyPaid(o)
      <4>1. PICK due \in DuesOf(subtotal[o]) : due <= subtotal[o]
        BY <2>0, <3>1, SubtotalIsDue
      <4>2. paid[o] >= due
        BY <2>0, <3>1, <3>3, <4>1, DuesAreNat DEF FullyPaid
      <4>3. \A c \in Pickups : c # o => published'[c] = published[c]
        BY <2>0, <2>5, <3>1 DEF PublishConfirmed, TypeOK
      <4>4. Covered(o)
        BY <4>1, <4>2 DEF Covered
      <4> QED BY <3>2, <4>3, <4>4 DEF SoldIsPaid, Sold, Covered, DuesOf
    <3>4. CASE ~ FullyPaid(o)
      BY <2>0, <2>5, <3>2, <3>4, SoldStaysPaid DEF PublishConfirmed
    <3> QED BY <3>3, <3>4
  <2>6. ASSUME NEW d \in Deliveries, DeliveryFails(d) PROVE SoldIsPaid'
    BY <2>0, <2>6, SoldStaysPaid DEF DeliveryFails, moneyVars
  <2>7. CASE TillStep
    BY <2>7, TillKeepsPaid
  <2>8. CASE UNCHANGED allVars
    BY <2>0, <2>8, SoldStaysPaid DEF allVars, pickupVars, vars, moneyVars
  <2> QED BY <2>1, <2>2, <2>3, <2>4, <2>5, <2>6, <2>7, <2>8 DEF PickupNext, WebhookStep
<1>3. SoldIsPaid => PublishedIsPaid
  BY DEF SoldIsPaid, PublishedIsPaid, Sold
<1> QED BY <1>1, <1>2, <1>3, PickupInvariant, PTL DEF PickupSpec
=============================================================================

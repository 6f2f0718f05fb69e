------------------------------ MODULE PosOrder ------------------------------
(***************************************************************************)
(* An order of grit-pos from its first line to its transaction.completed   *)
(* event: the register (components/pos/api.ts), the offline queue, the     *)
(* routes tender, offline-sync, lines and cancel.                          *)
(*                                                                         *)
(* An intent is one payment a customer makes at the register.  It reaches  *)
(* the server as a POST, or, after a network error, as an op of the        *)
(* offline queue, which is replayed until the server has settled it.       *)
(*                                                                         *)
(* Granularity.  A transaction that locks the order row (SELECT .. FOR     *)
(* UPDATE) is one action.  Cancelling and editing lines read the status    *)
(* and write later, without a lock: two actions each.                      *)
(*                                                                         *)
(* Data.  The lines of an order are abstracted to their total, the active  *)
(* promotions to the discount they give when it is computed.               *)
(***************************************************************************)
EXTENDS Naturals, FiniteSets

CONSTANTS
    Orders,
    Intents,
    OrderOf,    \* the order an intent pays
    Amount,     \* what the customer hands over
    QuickSales, \* intents whose op also creates the order
    Syncs,      \* requests to offline-sync that may be in progress at once
    Edits,      \* requests that change the lines of an order
    EditOf,     \* the order they change
    Cancels,    \* orders staff try to cancel
    Subtotals,  \* totals the lines of an order may have
    Discounts,  \* discounts the active promotions may give
    Chunk,      \* MAX_OPS_PER_SYNC
    MaxFaults,  \* bound: network errors in a behaviour
    MaxErrors   \* bound: syncs that end with a server error

TableOrders == Orders \ {OrderOf[i] : i \in QuickSales}

ASSUME IntentsAssumption ==
    /\ IsFiniteSet(Intents)
    /\ OrderOf \in [Intents -> Orders]
    /\ Amount \in [Intents -> Nat \ {0}]
ASSUME QuickSalesAssumption ==
    /\ QuickSales \subseteq Intents
    /\ \A i \in QuickSales, j \in Intents : OrderOf[j] = OrderOf[i] => j = i
ASSUME EditsAssumption == EditOf \in [Edits -> TableOrders]
ASSUME CancelsAssumption == Cancels \subseteq TableOrders
ASSUME MoneyAssumption == Subtotals \subseteq Nat \ {0} /\ Discounts \subseteq Nat
ASSUME BoundsAssumption == Chunk \in Nat \ {0} /\ MaxFaults \in Nat /\ MaxErrors \in Nat

VARIABLES
    status,    \* Order.status, "none" before the order exists
    subtotal,  \* sum of OrderLine.lineTotal
    paid,      \* sum of the succeeded payments
    booked,    \* number of payments recorded for an intent
    refs,      \* intents whose externalRef is on a Payment
    refused,   \* intents whose op was answered "rejected"
    published, \* transaction.completed events of an order
    client,    \* what the register knows of an intent
    wire,      \* POSTs of the register the server may still execute
    queue,     \* IndexedDB: the ops
    seq,       \* IndexedDB: the seq key of an op, 0 if it never was queued
    sync,      \* a run of syncOfflineQueue and the request it waits for
    edit,      \* how far an edit is
    cancel,    \* how far a cancellation is
    faults,
    errors

moneyVars == <<status, subtotal, paid, booked, refs, refused>>
registerVars == <<client, wire, queue, seq>>
staffVars == <<edit, cancel>>
boundVars == <<faults, errors>>
vars == <<moneyVars, published, registerVars, sync, staffVars, boundVars>>

OrderStatus == {"none", "open", "tendered", "closed", "cancelled"}
Progress == {"none", "checked", "done"}
Sync == [batch : SUBSET Intents, rest : SUBSET Intents, settled : SUBSET Intents,
         looked : SUBSET Intents, completed : SUBSET Orders, listening : BOOLEAN]

TypeOK ==
    /\ status \in [Orders -> OrderStatus]
    /\ subtotal \in [Orders -> Nat]
    /\ paid \in [Orders -> Nat]
    /\ booked \in [Intents -> Nat]
    /\ refs \subseteq Intents
    /\ refused \subseteq Intents
    /\ published \in [Orders -> Nat]
    /\ client \in [Intents -> {"new", "sent", "answered", "queued"}]
    /\ wire \subseteq Intents
    /\ queue \subseteq Intents
    /\ seq \in [Intents -> Nat]
    /\ sync \in [Syncs -> Sync]
    /\ edit \in [Edits -> Progress]
    /\ cancel \in [Orders -> Progress]
    /\ faults \in Nat
    /\ errors \in Nat

NoSync == [batch |-> {}, rest |-> {}, settled |-> {}, looked |-> {}, completed |-> {},
           listening |-> FALSE]

Init ==
    /\ status = [o \in Orders |-> "none"]
    /\ subtotal = [o \in Orders |-> 0]
    /\ paid = [o \in Orders |-> 0]
    /\ booked = [i \in Intents |-> 0]
    /\ refs = {}
    /\ refused = {}
    /\ published = [o \in Orders |-> 0]
    /\ client = [i \in Intents |-> "new"]
    /\ wire = {}
    /\ queue = {}
    /\ seq = [i \in Intents |-> 0]
    /\ sync = [s \in Syncs |-> NoSync]
    /\ edit = [e \in Edits |-> "none"]
    /\ cancel = [o \in Orders |-> "none"]
    /\ faults = 0
    /\ errors = 0

NetworkFault ==
    /\ faults < MaxFaults
    /\ faults' = faults + 1

-----------------------------------------------------------------------------
(***************************************************************************)
(* Orders, their lines and their cancellation.                             *)
(***************************************************************************)
\* staff open an empty order, a QR table one with its lines
CreateOrder(o) ==
    /\ o \in TableOrders
    /\ status[o] = "none"
    /\ status' = [status EXCEPT ![o] = "open"]
    /\ \E n \in Subtotals \cup {0} : subtotal' = [subtotal EXCEPT ![o] = n]
    /\ UNCHANGED <<paid, booked, refs, refused, published, registerVars, sync, staffVars, boundVars>>

EditCheck(e) ==
    /\ edit[e] = "none"
    /\ status[EditOf[e]] = "open"
    /\ edit' = [edit EXCEPT ![e] = "checked"]
    /\ UNCHANGED <<moneyVars, published, registerVars, sync, cancel, boundVars>>

EditWrite(e) ==
    /\ edit[e] = "checked"
    /\ edit' = [edit EXCEPT ![e] = "done"]
    /\ \E n \in Subtotals \cup {0} : subtotal' = [subtotal EXCEPT ![EditOf[e]] = n]
    /\ UNCHANGED <<status, paid, booked, refs, refused, published, registerVars, sync, cancel, boundVars>>

CancelCheck(o) ==
    /\ o \in Cancels
    /\ cancel[o] = "none"
    /\ status[o] = "open"
    /\ cancel' = [cancel EXCEPT ![o] = "checked"]
    /\ UNCHANGED <<moneyVars, published, registerVars, sync, edit, boundVars>>

CancelWrite(o) ==
    /\ cancel[o] = "checked"
    /\ cancel' = [cancel EXCEPT ![o] = "done"]
    /\ status' = [status EXCEPT ![o] = "cancelled"]
    /\ UNCHANGED <<subtotal, paid, booked, refs, refused, published, registerVars, sync, edit, boundVars>>

-----------------------------------------------------------------------------
(***************************************************************************)
(* Payments.                                                               *)
(***************************************************************************)
\* mutant: a closed order can be tendered
PayableClosed(o) == status[o] \notin {"none", "cancelled"} /\ subtotal[o] > 0

Payable(o) == status[o] \in {"open", "tendered"} /\ subtotal[o] > 0

\* amountDue of a total for one of the discounts
DuesOf(n) == {IF n > d THEN n - d ELSE 0 : d \in Discounts}

Covers(i, due) == paid[OrderOf[i]] + Amount[i] >= due

\* mutant: the order takes the status of its payment
PaymentStatusOnOrder(i, due) ==
    /\ paid' = [paid EXCEPT ![OrderOf[i]] = @ + Amount[i]]
    /\ booked' = [booked EXCEPT ![i] = @ + 1]
    /\ status' = [status EXCEPT ![OrderOf[i]] = "succeeded"]

RecordPayment(i, due) ==
    /\ paid' = [paid EXCEPT ![OrderOf[i]] = @ + Amount[i]]
    /\ booked' = [booked EXCEPT ![i] = @ + 1]
    /\ status' = [status EXCEPT ![OrderOf[i]] = IF Covers(i, due) THEN "closed" ELSE "tendered"]

\* POST tender, and its event after the response
Tender(i) ==
    LET o == OrderOf[i] IN
    /\ i \in wire \ QuickSales
    /\ wire' = wire \ {i}
    /\ \/ /\ Payable(o)
          /\ \E due \in DuesOf(subtotal[o]) :
               /\ RecordPayment(i, due)
               /\ published' = IF Covers(i, due) THEN [published EXCEPT ![o] = @ + 1] ELSE published
       \/ /\ ~ Payable(o)
          /\ UNCHANGED <<paid, booked, status, published>>
    /\ UNCHANGED <<subtotal, refs, refused, client, queue, seq, sync, staffVars, boundVars>>

\* mutant: the externalRef is not looked up and not unique
NeverDuplicate(i) == FALSE

Duplicate(i) == i \in refs

DuplicateOp(i) ==
    /\ Duplicate(i)
    /\ UNCHANGED moneyVars

\* a closed or empty order; a product of a quick sale that is gone
RejectedOp(i) ==
    /\ i \in QuickSales \/ ~ Payable(OrderOf[i])
    /\ refused' = refused \cup {i}
    /\ UNCHANGED <<status, subtotal, paid, booked, refs>>

AcceptedOp(i) == i \in QuickSales \/ Payable(OrderOf[i])

AppliedOp(i, n, due) ==
    /\ ~ Duplicate(i)
    /\ n \in IF i \in QuickSales THEN Subtotals ELSE {subtotal[OrderOf[i]]}
    /\ due \in DuesOf(n)
    /\ RecordPayment(i, due)
    /\ subtotal' = [subtotal EXCEPT ![OrderOf[i]] = n]
    /\ refs' = refs \cup {i}
    /\ UNCHANGED refused

Totals(i) == Subtotals \cup {subtotal[OrderOf[i]]}

\* the transaction of an op; completed: the orders it closed
BookOp(i, completed) ==
    \/ completed = {} /\ RejectedOp(i)
    \/ /\ AcceptedOp(i)
       /\ \/ completed = {} /\ DuplicateOp(i)
          \/ \E n \in Totals(i) : \E due \in DuesOf(n) :
               /\ AppliedOp(i, n, due)
               /\ completed = IF Covers(i, due) THEN {OrderOf[i]} ELSE {}

Completes(i) == {{}, {OrderOf[i]}}

Publish(O) == published' = [o \in Orders |-> IF o \in O THEN published[o] + 1 ELSE published[o]]

\* an online quick sale: offline-sync with its op alone
QuickSale(i) ==
    /\ i \in wire \cap QuickSales
    /\ wire' = wire \ {i}
    /\ \/ DuplicateOp(i) /\ UNCHANGED published
       \/ /\ ~ Duplicate(i)
          /\ \E completed \in Completes(i) : BookOp(i, completed) /\ Publish(completed)
    /\ UNCHANGED <<client, queue, seq, sync, staffVars, boundVars>>

-----------------------------------------------------------------------------
(***************************************************************************)
(* The register.                                                           *)
(***************************************************************************)
Send(i) ==
    /\ client[i] = "new"
    /\ client' = [client EXCEPT ![i] = "sent"]
    /\ wire' = wire \cup {i}
    /\ UNCHANGED <<moneyVars, published, queue, seq, sync, staffVars, boundVars>>

Answer(i) ==
    /\ client[i] = "sent" /\ i \notin wire
    /\ client' = [client EXCEPT ![i] = "answered"]
    /\ UNCHANGED <<moneyVars, published, wire, queue, seq, sync, staffVars, boundVars>>

\* fetch rejects: the request may be lost, on its way, or executed
NetworkError(i) ==
    /\ client[i] = "sent"
    /\ NetworkFault
    /\ client' = [client EXCEPT ![i] = "queued"]
    /\ wire' \in {wire, wire \ {i}}
    /\ queue' = queue \cup {i}
    /\ seq' = [seq EXCEPT ![i] = 1 + Cardinality({j \in Intents : seq[j] > 0})]
    /\ UNCHANGED <<moneyVars, published, sync, staffVars, errors>>

-----------------------------------------------------------------------------
(***************************************************************************)
(* Replaying the queue.  A run sends the ops it listed in chunks; runs of  *)
(* several tabs, and requests whose caller has gone, may overlap.          *)
(***************************************************************************)
\* mutant: a run sends the youngest ops first
Youngest(I) == {i \in I : Cardinality({j \in I : seq[j] > seq[i]}) < Chunk}

\* the chunk that a run sends first
Oldest(I) == {i \in I : Cardinality({j \in I : seq[j] < seq[i]}) < Chunk}

SendChunk(I) ==
    IF I = {} THEN NoSync
    ELSE [NoSync EXCEPT !.batch = Oldest(I), !.rest = I \ Oldest(I), !.listening = TRUE]

StartSync(s) ==
    /\ sync[s] = NoSync
    /\ queue # {}
    /\ sync' = [sync EXCEPT ![s] = SendChunk(queue)]
    /\ UNCHANGED <<moneyVars, published, registerVars, staffVars, boundVars>>

Head(s, i) == i \in sync[s].batch /\ \A j \in sync[s].batch : seq[i] <= seq[j]

\* mutant: an op forgets the orders closed by those before it
SettleLast(s, i, completed) ==
    sync' = [sync EXCEPT ![s].batch = @ \ {i}, ![s].settled = @ \cup {i}, ![s].looked = {},
                         ![s].completed = completed]

\* an op that was applied, refused or found is settled
Settle(s, i, completed) ==
    sync' = [sync EXCEPT ![s].batch = @ \ {i}, ![s].settled = @ \cup {i}, ![s].looked = {},
                         ![s].completed = @ \cup completed]

\* is the externalRef on a Payment?
SyncLookup(s) ==
    \E i \in sync[s].batch :
        /\ Head(s, i) /\ sync[s].looked = {}
        /\ IF Duplicate(i) THEN Settle(s, i, {}) ELSE sync' = [sync EXCEPT ![s].looked = {i}]
        /\ UNCHANGED <<moneyVars, published, registerVars, staffVars, boundVars>>

SyncOp(s) ==
    \E i \in sync[s].looked :
        /\ \E completed \in Completes(i) : BookOp(i, completed) /\ Settle(s, i, completed)
        /\ UNCHANGED <<published, registerVars, staffVars, boundVars>>

\* mutant: only ops answered "applied" are removed
SettledApplied(s) == sync[s].settled \ refused

\* mutant: the run removes every op it listed
SettledAll(s) == sync[s].settled \cup sync[s].rest

Settled(s) == sync[s].settled

\* the response with the results, then the events
EndBatch(s) ==
    /\ sync[s].batch = {} /\ sync[s].settled # {}
    /\ Publish(sync[s].completed)
    /\ queue' = IF sync[s].listening THEN queue \ Settled(s) ELSE queue
    /\ sync' = [sync EXCEPT ![s] = SendChunk(sync[s].rest)]
    /\ UNCHANGED <<moneyVars, client, wire, seq, staffVars, boundVars>>

\* the register gives the request up: the server may not have seen it, or
\* goes on without noticing
LoseAnswer(s) ==
    /\ sync[s].listening
    /\ NetworkFault
    /\ \/ sync' = [sync EXCEPT ![s].listening = FALSE, ![s].rest = {}]
       \/ sync[s].settled = {} /\ sync[s].looked = {} /\ sync' = [sync EXCEPT ![s] = NoSync]
    /\ UNCHANGED <<moneyVars, published, registerVars, staffVars, errors>>

\* an op throws: status 500 for the batch, without results and events
ServerError(s) ==
    /\ sync[s].batch # {}
    /\ errors < MaxErrors
    /\ errors' = errors + 1
    /\ sync' = [sync EXCEPT ![s] = NoSync]
    /\ UNCHANGED <<moneyVars, published, registerVars, staffVars, faults>>

-----------------------------------------------------------------------------
StaffStep ==
    \/ \E o \in Orders : CreateOrder(o) \/ CancelCheck(o) \/ CancelWrite(o)
    \/ \E e \in Edits : EditCheck(e) \/ EditWrite(e)

RegisterStep ==
    \E i \in Intents : Send(i) \/ Answer(i) \/ NetworkError(i)

ServerStep ==
    \E i \in Intents : Tender(i) \/ QuickSale(i)

SyncStep(s) ==
    \/ StartSync(s)
    \/ SyncLookup(s)
    \/ SyncOp(s)
    \/ EndBatch(s)
    \/ LoseAnswer(s)
    \/ ServerError(s)

Next ==
    \/ StaffStep
    \/ RegisterStep
    \/ ServerStep
    \/ \E s \in Syncs : SyncStep(s)

Spec == Init /\ [][Next]_vars

(***************************************************************************)
(* The register syncs every SYNC_INTERVAL_MS while ops are queued, and the *)
(* server goes on with a request it has started.                           *)
(***************************************************************************)
Fairness ==
    \A s \in Syncs :
        /\ WF_vars(StartSync(s))
        /\ WF_vars(SyncLookup(s))
        /\ WF_vars(SyncOp(s))
        /\ WF_vars(EndBatch(s))

FairSpec == Spec /\ Fairness

-----------------------------------------------------------------------------
(***************************************************************************)
(* One order, one transaction.completed: double clicks, retries, a tender  *)
(* racing the replay of another, overlapping replays, cancellations and    *)
(* line edits never publish an order twice (tender/route.ts:64-73).        *)
(***************************************************************************)
PublishedOnce == \A o \in Orders : published[o] <= 1

(***************************************************************************)
(* A quick sale is booked at most once, although the POST that carried it  *)
(* may be executed after it was queued and replayed ("a redelivered batch  *)
(* can never double-book a payment", offline-sync/route.ts).               *)
(***************************************************************************)
QuickSaleOnce == \A i \in QuickSales : booked[i] <= 1

(***************************************************************************)
(* The server settles offline tenders in the order in which they were      *)
(* captured, whatever requests overlap or fail ("Applies queued ops IN     *)
(* ORDER").                                                                *)
(***************************************************************************)
InCaptureOrder ==
    \A i \in (refs \cup refused) \ QuickSales, j \in Intents :
        seq[j] > 0 /\ seq[j] < seq[i] => j \in refs \cup refused

(***************************************************************************)
(* An op leaves the queue of the register only when the server has booked  *)
(* it or has rejected it: no sale captured offline is forgotten.           *)
(***************************************************************************)
NothingForgotten ==
    [][\A i \in queue \ queue' : i \in refs \cup refused]_vars

(***************************************************************************)
(* Every queued op is eventually settled and removed.                      *)
(***************************************************************************)
QueueDrains == \A i \in Intents : i \in queue ~> i \notin queue

(***************************************************************************)
(* "transaction.completed - emitted when an order becomes fully            *)
(* paid/closed from the staff tender route, the Stripe webhook confirm,    *)
(* and offline sync" (grit-pos README).  It holds while no sync fails on   *)
(* the server; with one error it does not.                                 *)
(***************************************************************************)
ClosedIsPublished ==
    \A o \in Orders : status[o] = "closed" ~> published[o] > 0
=============================================================================

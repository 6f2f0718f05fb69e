----------------------------- MODULE Fulfilment -----------------------------
(***************************************************************************)
(* An order of grit-inventory from its payments to its delivery, around    *)
(* the picking and packing of PickPack.                                    *)
(*                                                                         *)
(* A payment is decided upon a read of the payments before it; only one    *)
(* that is to settle the order looks at its status again when it commits.  *)
(* A delivery is opened by the transition to fulfilled, and its status is  *)
(* checked before the transaction that changes it.                         *)
(***************************************************************************)
EXTENDS PickPack, Sequences, Functions

CONSTANTS
    Payments,   \* requests to record a payment
    Amounts,
    Total,      \* of the order's lines
    Dispatchers,\* updates of the delivery in progress at once
    MaxTrace,   \* status events of the delivery
    Staff,      \* left by POST /transition
    NotLeft     \* still pending

ASSUME FulfilAssumption ==
    /\ IsFiniteSet(Payments) /\ Amounts \subseteq Nat /\ Total \in Nat
    /\ MaxTrace \in Nat \ {0}
    /\ {Staff, NotLeft} \cap Payments = {} /\ Staff # NotLeft

VARIABLES
    payment,   \* the requests, and the rows they insert
    delivery,  \* Delivery.status
    trace,     \* DeliveryStatusEvent
    errand,    \* PATCH /api/deliveries/[id]: the status it has allowed
    left       \* history: what moved the order from pending

moneyVars == <<payment, left>>
deliveryVars == <<delivery, trace, errand>>
fulfilVars == <<vars, moneyVars, deliveryVars>>

DeliveryStatus == {"assigned", "out_for_delivery", "delivered", "failed"}
NewPayment == [step |-> "new", amount |-> 0, full |-> FALSE]
Refused == [NewPayment EXCEPT !.step = "refused"]

FulfilTypeOK ==
    /\ TypeOK
    /\ payment \in [Payments ->
         [step : {"new", "checked", "refused", "completed"}, amount : Amounts \cup {0}, full : BOOLEAN]]
    /\ left \in Payments \cup {Staff, NotLeft}
    /\ delivery \in DeliveryStatus \cup {"none"}
    /\ trace \in Seq(DeliveryStatus) /\ Len(trace) <= MaxTrace
    /\ errand \in [Dispatchers -> DeliveryStatus \cup {"none"}]

FulfilInit ==
    /\ Init
    /\ payment = [p \in Payments |-> NewPayment]
    /\ left = NotLeft
    /\ delivery = "none"
    /\ trace = <<>>
    /\ errand = [d \in Dispatchers |-> "none"]

-----------------------------------------------------------------------------
Completed == {p \in Payments : payment[p].step = "completed"}

Paid == FoldFunctionOnSet(+, 0, [p \in Payments |-> payment[p].amount], Completed)

isFullyPaid(amount) == Paid + amount >= Total

CheckPayment(p, amount) ==
    /\ payment[p] = NewPayment
    /\ order = "pending"
    /\ payment' = [payment EXCEPT ![p] =
         [step |-> "checked", amount |-> amount, full |-> isFullyPaid(amount)]]
    /\ UNCHANGED <<vars, left, deliveryVars>>

\* mutant: the status is not looked at again
StillOpen == order # "cancelled"

StillPending == order = "pending"

SettleOrder(p) ==
    /\ payment[p].step = "checked" /\ payment[p].full
    /\ IF StillPending
       THEN /\ order' = "paid" /\ left' = p
            /\ payment' = [payment EXCEPT ![p].step = "completed"]
       ELSE /\ payment' = [payment EXCEPT ![p] = Refused]
            /\ UNCHANGED <<order, left>>
    /\ UNCHANGED <<ship, starts, label, pickVars, packVars, deliveryVars>>

\* whatever has become of the order
RecordPartial(p) ==
    /\ payment[p].step = "checked" /\ ~ payment[p].full
    /\ payment' = [payment EXCEPT ![p].step = "completed"]
    /\ UNCHANGED <<vars, left, deliveryVars>>

-----------------------------------------------------------------------------
canTransitionDelivery(from, to) ==
    <<from, to>> \in {<<"assigned", "out_for_delivery">>, <<"out_for_delivery", "delivered">>,
                      <<"out_for_delivery", "failed">>, <<"failed", "out_for_delivery">>}

\* mutant: any status but the current one
MayChange(to) == delivery # to

MayMove(to) == canTransitionDelivery(delivery, to)

CheckDelivery(d, to) ==
    /\ delivery # "none" /\ errand[d] = "none" /\ Len(trace) < MaxTrace
    /\ MayMove(to)
    /\ errand' = [errand EXCEPT ![d] = to]
    /\ UNCHANGED <<vars, moneyVars, delivery, trace>>

UpdateDelivery(d) ==
    /\ errand[d] # "none" /\ Len(trace) < MaxTrace
    /\ delivery' = errand[d]
    /\ trace' = Append(trace, errand[d])
    /\ errand' = [errand EXCEPT ![d] = "none"]
    /\ UNCHANGED <<vars, moneyVars>>

\* the upsert of the transition to fulfilled
OpenDelivery ==
    IF order' = "fulfilled" /\ delivery = "none"
    THEN delivery' = "assigned" /\ trace' = <<"assigned">>
    ELSE UNCHANGED <<delivery, trace>>

Handle ==
    /\ Next
    /\ OpenDelivery
    /\ left' = IF order = "pending" /\ order' # "pending" THEN Staff ELSE left
    /\ UNCHANGED <<payment, errand>>

FulfilNext ==
    \/ Handle
    \/ \E p \in Payments :
         \/ \E amount \in Amounts : CheckPayment(p, amount)
         \/ SettleOrder(p) \/ RecordPartial(p)
    \/ \E d \in Dispatchers :
         \/ \E to \in DeliveryStatus : CheckDelivery(d, to)
         \/ UpdateDelivery(d)

FulfilSpec == FulfilInit /\ [][FulfilNext]_fulfilVars

-----------------------------------------------------------------------------
(***************************************************************************)
(* Of the payments that each would settle the order, one is recorded, and  *)
(* it is what moved the order to paid: not one that staff marked paid, or  *)
(* cancelled, meanwhile (POST /api/orders/[id]/payments).  What it found   *)
(* paid is still there, so the order is covered.                           *)
(***************************************************************************)
SettledOnce ==
    \A p \in Payments :
        /\ p \in Completed /\ payment[p].full <=> left = p
        /\ left = p => Paid >= Total /\ order # "pending"

(***************************************************************************)
(* A delivery exists exactly when the order is fulfilled, its status is    *)
(* the last event, and every event but the first follows in the status     *)
(* graph from an earlier one - not always from the one before it, when     *)
(* two updates overlap (PATCH /api/deliveries/[id]).                       *)
(***************************************************************************)
DeliveryIsTraced ==
    /\ order = "fulfilled" <=> trace # <<>>
    /\ delivery = IF trace = <<>> THEN "none" ELSE trace[Len(trace)]
    /\ \A i \in 2..Len(trace) : \E j \in 1..i - 1 : canTransitionDelivery(trace[j], trace[i])
=============================================================================

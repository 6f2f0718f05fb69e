----------------------------- MODULE PickupOrder -----------------------------
(***************************************************************************)
(* Pickup orders of grit-pos: the customer's checkout creates an order and *)
(* a Stripe Checkout Session, Stripe reports the payment to the webhook,   *)
(* at least once and perhaps to two handlers at a time, while staff may do *)
(* with the same order whatever they may do with any (module PosOrder):    *)
(* change its lines, cancel it, tender it online or through the queue.     *)
(*                                                                         *)
(* Granularity.  A webhook delivery reads under an advisory lock of its    *)
(* payment intent, commits, and reads again before it publishes; the lock  *)
(* keeps out other deliveries, not the register.                           *)
(***************************************************************************)
EXTENDS PosOrder

CONSTANTS
    Pickups,   \* pickup_link orders
    Deliveries \* webhook requests that may be in progress at once

ASSUME PickupsAssumption == Pickups \subseteq TableOrders

VARIABLES
    checkout, \* how far the customer's checkout request is
    charge,   \* amount_total of the Checkout Session
    session,  \* the session at Stripe
    handler,  \* a delivery: the order it confirms, how far, the status it read
    pi,       \* payments that carry the session's payment intent
    late      \* history: orders with a line changed when they were not open

pickupVars == <<checkout, charge, session, handler, pi, late>>
allVars == <<vars, pickupVars>>

NoHandler == [step |-> "idle", order |-> "none", read |-> "none"]

PickupTypeOK ==
    /\ TypeOK
    /\ checkout \in [Pickups -> {"none", "ordered", "offered", "failed"}]
    /\ charge \in [Pickups -> Nat]
    /\ session \in [Pickups -> {"none", "open", "paid", "expired"}]
    /\ handler \in [Deliveries -> {NoHandler} \cup
           [step : {"locked", "committed"}, order : Pickups, read : OrderStatus \ {"none"}]]
    /\ pi \in [Pickups -> Nat]
    /\ late \subseteq Pickups

PickupInit ==
    /\ Init
    /\ checkout = [o \in Pickups |-> "none"]
    /\ charge = [o \in Pickups |-> 0]
    /\ session = [o \in Pickups |-> "none"]
    /\ handler = [d \in Deliveries |-> NoHandler]
    /\ pi = [o \in Pickups |-> 0]
    /\ late = {}

-----------------------------------------------------------------------------
(***************************************************************************)
(* The checkout request.  The order is committed before Stripe is called;  *)
(* the session charges the lines without their add-ons.                    *)
(***************************************************************************)
PlaceOrder(o) ==
    /\ checkout[o] = "none"
    /\ checkout' = [checkout EXCEPT ![o] = "ordered"]
    /\ status' = [status EXCEPT ![o] = "open"]
    /\ \E n \in Subtotals : \E c \in 1 .. n :
         /\ subtotal' = [subtotal EXCEPT ![o] = n]
         /\ charge' = [charge EXCEPT ![o] = c]
    /\ UNCHANGED <<session, handler, pi, late>>
    /\ UNCHANGED <<paid, booked, refs, refused, published, registerVars, sync, staffVars, boundVars>>

OfferCheckout(o) ==
    /\ checkout[o] = "ordered"
    /\ checkout' = [checkout EXCEPT ![o] = "offered"]
    /\ session' = [session EXCEPT ![o] = "open"]
    /\ UNCHANGED <<vars, charge, handler, pi, late>>

\* Stripe refuses or cannot be reached: the order is cancelled, whatever it is now
FailCheckout(o) ==
    /\ checkout[o] = "ordered"
    /\ checkout' = [checkout EXCEPT ![o] = "failed"]
    /\ status' = [status EXCEPT ![o] = "cancelled"]
    /\ UNCHANGED <<charge, session, handler, pi, late>>
    /\ UNCHANGED <<subtotal, paid, booked, refs, refused, published, registerVars, sync, staffVars, boundVars>>

-----------------------------------------------------------------------------
(***************************************************************************)
(* Stripe.                                                                 *)
(***************************************************************************)
Pay(o) ==
    /\ session[o] = "open"
    /\ session' = [session EXCEPT ![o] = "paid"]
    /\ UNCHANGED <<vars, checkout, charge, handler, pi, late>>

\* the session expires and the webhook cancels an order that is still open
CancelAbandoned(o) ==
    /\ session[o] = "open"
    /\ session' = [session EXCEPT ![o] = "expired"]
    /\ status' = [status EXCEPT ![o] = IF @ = "open" THEN "cancelled" ELSE @]
    /\ UNCHANGED <<checkout, charge, handler, pi, late>>
    /\ UNCHANGED <<subtotal, paid, booked, refs, refused, published, registerVars, sync, staffVars, boundVars>>

-----------------------------------------------------------------------------
(***************************************************************************)
(* confirmPickupOrder.                                                     *)
(***************************************************************************)
\* mutant: without the advisory lock
NeverLocked(o) == FALSE

Locked(o) == \E d \in Deliveries : handler[d].order = o /\ handler[d].step = "locked"

Confirmed(o) == pi[o] > 0

\* a delivery that finds the payment recorded changes nothing
Deliver(d, o) ==
    /\ handler[d] = NoHandler
    /\ session[o] = "paid"
    /\ ~ Locked(o) /\ ~ Confirmed(o)
    /\ handler' = [handler EXCEPT ![d] = [step |-> "locked", order |-> o, read |-> status[o]]]
    /\ UNCHANGED <<vars, checkout, charge, session, pi, late>>

\* the order's status once it is confirmed, read before and now
Advanced(read, now) == IF read = "open" THEN "tendered" ELSE now

\* mutant: only a payment of an open order is recorded
ConfirmOpen(d) ==
    LET o == handler[d].order IN
    /\ handler[d].step = "locked"
    /\ handler' = [handler EXCEPT ![d].step = "committed"]
    /\ handler[d].read = "open"
    /\ status' = [status EXCEPT ![o] = "tendered"]
    /\ paid' = [paid EXCEPT ![o] = @ + charge[o]]
    /\ pi' = [pi EXCEPT ![o] = @ + 1]
    /\ UNCHANGED <<checkout, charge, session, late>>
    /\ UNCHANGED <<subtotal, booked, refs, refused, published, registerVars, sync, staffVars, boundVars>>

Confirm(d) ==
    LET o == handler[d].order IN
    /\ handler[d].step = "locked"
    /\ handler' = [handler EXCEPT ![d].step = "committed"]
    /\ status' = [status EXCEPT ![o] = Advanced(handler[d].read, @)]
    /\ paid' = [paid EXCEPT ![o] = @ + charge[o]]
    /\ pi' = [pi EXCEPT ![o] = @ + 1]
    /\ UNCHANGED <<checkout, charge, session, late>>
    /\ UNCHANGED <<subtotal, booked, refs, refused, published, registerVars, sync, staffVars, boundVars>>

\* mutant: the event does not wait for the full amount
AnyPayment(o) == TRUE

FullyPaid(o) == subtotal[o] > 0 /\ paid[o] >= subtotal[o]

PublishConfirmed(d) ==
    LET o == handler[d].order IN
    /\ handler[d].step = "committed"
    /\ handler' = [handler EXCEPT ![d] = NoHandler]
    /\ published' = IF FullyPaid(o) THEN [published EXCEPT ![o] = @ + 1] ELSE published
    /\ UNCHANGED <<moneyVars, registerVars, sync, staffVars, boundVars, checkout, charge, session, pi, late>>

\* the handler fails, before or after its commit; Stripe delivers again
DeliveryFails(d) ==
    /\ handler[d] # NoHandler
    /\ NetworkFault
    /\ handler' = [handler EXCEPT ![d] = NoHandler]
    /\ UNCHANGED <<moneyVars, published, registerVars, sync, staffVars, errors, checkout, charge, session, pi, late>>

-----------------------------------------------------------------------------
CheckoutStep == \E o \in Pickups : PlaceOrder(o) \/ OfferCheckout(o) \/ FailCheckout(o)

StripeStep == \E o \in Pickups : Pay(o) \/ CancelAbandoned(o)

WebhookStep ==
    \E d \in Deliveries :
        \/ \E o \in Pickups : Deliver(d, o)
        \/ Confirm(d)
        \/ PublishConfirmed(d)
        \/ DeliveryFails(d)

\* staff, the register, its queue and their routes: a pickup order is like
\* any other to them, except that only its checkout creates it
TillStep ==
    /\ Next
    /\ \A o \in Pickups : status[o] = "none" => status'[o] = "none"
    /\ late' = late \cup {o \in Pickups : subtotal'[o] # subtotal[o] /\ status[o] # "open"}
    /\ UNCHANGED <<checkout, charge, session, handler, pi>>

PickupNext == CheckoutStep \/ StripeStep \/ WebhookStep \/ TillStep

PickupSpec == PickupInit /\ [][PickupNext]_allVars

(***************************************************************************)
(* Stripe redelivers an event until it is acknowledged, and a handler that *)
(* does not fail goes on.                                                  *)
(***************************************************************************)
PickupFairness ==
    /\ \A o \in Pickups : WF_allVars(\E d \in Deliveries : Deliver(d, o))
    /\ \A d \in Deliveries : WF_allVars(Confirm(d)) /\ WF_allVars(PublishConfirmed(d))

PickupFairSpec == PickupSpec /\ PickupFairness

-----------------------------------------------------------------------------
(***************************************************************************)
(* A payment intent is recorded once, however often and however            *)
(* concurrently Stripe delivers it ("never double-record the payment",     *)
(* stripe/webhook/route.ts).                                               *)
(***************************************************************************)
StripeBookedOnce == \A o \in Pickups : pi[o] <= 1

(***************************************************************************)
(* What Stripe collected is eventually on the order, though handlers fail  *)
(* before their commit and deliveries overlap.                             *)
(***************************************************************************)
PaidIsBooked == \A o \in Pickups : session[o] = "paid" ~> pi[o] > 0

(***************************************************************************)
(* The total of a published order is covered by its payments, less at most *)
(* one of the discounts, however tenders, replays, deliveries, failures    *)
(* and edits of the open order interleave.  Only an edit that is written   *)
(* after the order left "open" can make it false: the lines routes check   *)
(* the status before they write, and nothing holds it.                     *)
(***************************************************************************)
Covered(o) == \E due \in DuesOf(subtotal[o]) : paid[o] >= due

PublishedIsPaid == \A o \in Pickups \ late : published[o] > 0 => Covered(o)

(***************************************************************************)
(* "don't clobber an order a staff member already cancelled/closed out in  *)
(* the meantime" (stripe/webhook/route.ts): violated, as the delivery      *)
(* updates the order by its id, on a status it read earlier.               *)
(***************************************************************************)
NotReopened ==
    [][\A o \in Orders :
         status[o] \in {"closed", "cancelled"} => status'[o] \notin {"open", "tendered"}]_allVars
=============================================================================

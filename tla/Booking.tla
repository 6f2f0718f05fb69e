------------------------------ MODULE Booking ------------------------------
(***************************************************************************)
(* The booking page of grit-taskboard: clients request time slots of one   *)
(* account, the account confirms or declines, a cron job reminds.          *)
(*                                                                         *)
(* No handler opens a transaction: every SQL statement is an atomic step   *)
(* of its own, and a handler may be cut off between two of them.           *)
(***************************************************************************)
EXTENDS Naturals

CONSTANTS
    Slots,
    Bookings,  \* requests of clients
    ViaLine,   \* those with a client_line_user_id
    Deciders,  \* decisions of the account's members in progress at once
    MaxFaults, \* handlers cut off, statements that fail
    Nobody     \* no booking

ASSUME BookingsAssumption ==
    /\ ViaLine \subseteq Bookings /\ Nobody \notin Bookings
    /\ MaxFaults \in Nat

VARIABLES
    slot,     \* availability_slots.status, "lapsed" for held beyond hold_expires_at
    starts,   \* how far the start of a slot is: "later", within 24 hours ("soon"), "past"
    booking,  \* bookings.status; "holding" before the row is inserted
    at,       \* slot_id
    decision, \* POST /api/booking-requests
    cron,     \* the reminder run: rows it has listed, the row it has pushed
    stamped,  \* bookings with a reminder_sent_at
    faults,
    holder,   \* history: the request a slot was last held for
    expired,  \* history: requests whose hold lapsed
    released, \* history: whose hold was released when which request was declined
    reminded, \* history: reminders the client got
    unstamped \* history: reminders whose stamp was lost

slotVars == <<slot, starts, holder, expired, released>>
bookingVars == <<booking, at>>
reminderVars == <<cron, stamped, reminded, unstamped>>
vars == <<slotVars, bookingVars, decision, reminderVars, faults>>

Rows == {"requested", "confirmed", "declined"}
NoDecision == [step |-> "none", on |-> Nobody]
Idle == [due |-> {}, pushed |-> Nobody]

BookingTypeOK ==
    /\ slot \in [Slots -> {"absent", "open", "held", "lapsed", "booked", "deleted"}]
    /\ starts \in [Slots -> {"later", "soon", "past"}]
    /\ booking \in [Bookings -> {"new", "holding", "refused"} \cup Rows]
    /\ at \in [Bookings -> Slots \cup {Nobody}]
    /\ decision \in [Deciders -> {NoDecision} \cup
         [step : {"confirm", "booked", "decline", "declined"}, on : Bookings]]
    /\ cron \in [due : SUBSET Bookings, pushed : Bookings \cup {Nobody}]
    /\ stamped \subseteq Bookings
    /\ faults \in 0..MaxFaults
    /\ holder \in [Slots -> Bookings \cup {Nobody}]
    /\ expired \subseteq Bookings
    /\ released \subseteq Bookings \X Bookings
    /\ reminded \in [Bookings -> Nat]
    /\ unstamped \in [Bookings -> Nat]

BookingInit ==
    /\ slot = [s \in Slots |-> "absent"]
    /\ starts = [s \in Slots |-> "later"]
    /\ booking = [b \in Bookings |-> "new"]
    /\ at = [b \in Bookings |-> Nobody]
    /\ decision = [d \in Deciders |-> NoDecision]
    /\ cron = Idle
    /\ stamped = {}
    /\ faults = 0
    /\ holder = [s \in Slots |-> Nobody]
    /\ expired = {}
    /\ released = {}
    /\ reminded = [b \in Bookings |-> 0]
    /\ unstamped = [b \in Bookings |-> 0]

Fault == faults < MaxFaults /\ faults' = faults + 1

-----------------------------------------------------------------------------
\* api/booking-slots.js

CreateSlot(s) ==
    /\ slot[s] = "absent"
    /\ slot' = [slot EXCEPT ![s] = "open"]
    /\ UNCHANGED <<starts, holder, expired, released, bookingVars, decision, reminderVars, faults>>

Of(s) == {b \in Bookings : at[b] = s /\ booking[b] \in Rows}

\* bookings.slot_id has no ON DELETE: a slot with a row stays
DeleteSlot(s) ==
    /\ slot[s] \notin {"absent", "deleted"}
    /\ Of(s) = {}
    /\ slot' = [slot EXCEPT ![s] = "deleted"]
    /\ UNCHANGED <<starts, holder, expired, released, bookingVars, decision, reminderVars, faults>>

-----------------------------------------------------------------------------
\* the clock

Held(s) == slot[s] = "held"

Lapse(s) ==
    /\ Held(s)
    /\ slot' = [slot EXCEPT ![s] = "lapsed"]
    /\ expired' = expired \cup {holder[s]}
    /\ UNCHANGED <<starts, holder, released, bookingVars, decision, reminderVars, faults>>

Approach(s) ==
    /\ slot[s] # "absent"
    /\ \/ starts[s] = "later" /\ starts' = [starts EXCEPT ![s] = "soon"]
       \/ starts[s] = "soon" /\ starts' = [starts EXCEPT ![s] = "past"]
    /\ UNCHANGED <<slot, holder, expired, released, bookingVars, decision, reminderVars, faults>>

-----------------------------------------------------------------------------
\* api/booking-request.js

\* mutant: a hold can be taken over
Takeable(s) == slot[s] \in {"open", "held", "lapsed"}

Available(s) == slot[s] \in {"open", "lapsed"}

Hold(b, s) ==
    /\ booking[b] = "new"
    /\ Available(s)
    /\ slot' = [slot EXCEPT ![s] = "held"]
    /\ holder' = [holder EXCEPT ![s] = b]
    /\ booking' = [booking EXCEPT ![b] = "holding"]
    /\ at' = [at EXCEPT ![b] = s]
    /\ UNCHANGED <<starts, expired, released, decision, reminderVars, faults>>

Request(b) ==
    /\ booking[b] = "holding"
    /\ slot[at[b]] # "deleted"
    /\ booking' = [booking EXCEPT ![b] = "requested"]
    /\ UNCHANGED <<slotVars, at, decision, reminderVars, faults>>

\* no such service, or the insert fails: the hold stays until it lapses
Refuse(b) ==
    /\ booking[b] = "holding"
    /\ booking' = [booking EXCEPT ![b] = "refused"]
    /\ UNCHANGED <<slotVars, at, decision, reminderVars, faults>>

-----------------------------------------------------------------------------
\* api/booking-requests.js

Decide(d, b, action) ==
    /\ decision[d] = NoDecision
    /\ booking[b] = "requested"
    /\ decision' = [decision EXCEPT ![d] = [step |-> action, on |-> b]]
    /\ UNCHANGED <<slotVars, bookingVars, reminderVars, faults>>

\* mutant: a confirmation does not look at the slot
Unchecked(s) == slot[s] # "deleted"

Confirmable(s) == slot[s] \in {"held", "lapsed", "open"}

\* a slot that is taken answers 409 and leaves the booking requested
Book(d) ==
    LET s == at[decision[d].on] IN
    /\ decision[d].step = "confirm"
    /\ IF Confirmable(s)
       THEN /\ slot' = [slot EXCEPT ![s] = "booked"]
            /\ decision' = [decision EXCEPT ![d].step = "booked"]
       ELSE /\ decision' = [decision EXCEPT ![d] = NoDecision]
            /\ UNCHANGED slot
    /\ UNCHANGED <<starts, holder, expired, released, bookingVars, reminderVars, faults>>

Confirm(d) ==
    /\ decision[d].step = "booked"
    /\ booking' = [booking EXCEPT ![decision[d].on] = "confirmed"]
    /\ decision' = [decision EXCEPT ![d] = NoDecision]
    /\ UNCHANGED <<slotVars, at, reminderVars, faults>>

Decline(d) ==
    /\ decision[d].step = "decline"
    /\ booking' = [booking EXCEPT ![decision[d].on] = "declined"]
    /\ decision' = [decision EXCEPT ![d].step = "declined"]
    /\ UNCHANGED <<slotVars, at, reminderVars, faults>>

\* whoever the slot is held for
Release(d) ==
    LET s == at[decision[d].on] IN
    /\ decision[d].step = "declined"
    /\ released' = released \cup IF Held(s) THEN {<<holder[s], decision[d].on>>} ELSE {}
    /\ slot' = IF slot[s] \in {"held", "lapsed"} THEN [slot EXCEPT ![s] = "open"] ELSE slot
    /\ decision' = [decision EXCEPT ![d] = NoDecision]
    /\ UNCHANGED <<starts, holder, expired, bookingVars, reminderVars, faults>>

CutOff(d) ==
    /\ decision[d] # NoDecision
    /\ Fault
    /\ decision' = [decision EXCEPT ![d] = NoDecision]
    /\ UNCHANGED <<slotVars, bookingVars, reminderVars>>

-----------------------------------------------------------------------------
\* api/cron-reminders.js: one run an hour, so runs do not overlap

\* mutant: the sweep forgets what it has sent
DueAgain(b) ==
    booking[b] = "confirmed" /\ b \in ViaLine /\ starts[at[b]] = "soon"

Due(b) ==
    booking[b] = "confirmed" /\ b \in ViaLine /\ b \notin stamped /\ starts[at[b]] = "soon"

Sweep ==
    /\ cron = Idle
    /\ cron' = [cron EXCEPT !.due = {b \in Bookings : Due(b)}]
    /\ UNCHANGED <<slotVars, bookingVars, decision, stamped, reminded, unstamped, faults>>

Push(b) ==
    /\ b \in cron.due /\ cron.pushed = Nobody
    /\ cron' = [due |-> cron.due \ {b}, pushed |-> b]
    /\ reminded' = [reminded EXCEPT ![b] = @ + 1]
    /\ UNCHANGED <<slotVars, bookingVars, decision, stamped, unstamped, faults>>

\* no channel, no token, or LINE refuses: the row waits for the next run
Skip(b) ==
    /\ b \in cron.due /\ cron.pushed = Nobody
    /\ cron' = [cron EXCEPT !.due = @ \ {b}]
    /\ UNCHANGED <<slotVars, bookingVars, decision, stamped, reminded, unstamped, faults>>

Stamp ==
    /\ cron.pushed # Nobody
    /\ stamped' = stamped \cup {cron.pushed}
    /\ cron' = [cron EXCEPT !.pushed = Nobody]
    /\ UNCHANGED <<slotVars, bookingVars, decision, reminded, unstamped, faults>>

\* the update throws, and the run goes on
LoseStamp ==
    /\ cron.pushed # Nobody
    /\ Fault
    /\ unstamped' = [unstamped EXCEPT ![cron.pushed] = @ + 1]
    /\ cron' = [cron EXCEPT !.pushed = Nobody]
    /\ UNCHANGED <<slotVars, bookingVars, decision, stamped, reminded>>

-----------------------------------------------------------------------------
BookingNext ==
    \/ \E s \in Slots : CreateSlot(s) \/ DeleteSlot(s) \/ Lapse(s) \/ Approach(s)
    \/ \E b \in Bookings :
         \/ \E s \in Slots : Hold(b, s)
         \/ Request(b) \/ Refuse(b) \/ Push(b) \/ Skip(b)
    \/ \E d \in Deciders :
         \/ \E b \in Bookings, action \in {"confirm", "decline"} : Decide(d, b, action)
         \/ Book(d) \/ Confirm(d) \/ Decline(d) \/ Release(d) \/ CutOff(d)
    \/ Sweep \/ Stamp \/ LoseStamp

BookingSpec == BookingInit /\ [][BookingNext]_vars

-----------------------------------------------------------------------------
(***************************************************************************)
(* Of the requests for a slot "only one can win" (api/booking-requests.js):*)
(* however holds, expiries, decisions of several members and cut-off       *)
(* handlers interleave, a slot has at most one confirmed booking, which    *)
(* keeps it.                                                               *)
(***************************************************************************)
OneWinner ==
    \A b \in Bookings : booking[b] = "confirmed" =>
        /\ slot[at[b]] = "booked"
        /\ \A c \in Bookings \ {b} : booking[c] = "confirmed" => at[c] # at[b]

(***************************************************************************)
(* A client whose request went through holds the slot until the hold       *)
(* expires (api/booking-request.js): it is taken from her only for good,   *)
(* by a confirmation of any request for it, or by a decline, and by that   *)
(* of another request only if the hold of that one was over before.        *)
(***************************************************************************)
HoldOver(b) == b \in expired \/ \E c \in Bookings : <<b, c>> \in released

Keeps(b) ==
    \/ slot[at[b]] = "held" /\ holder[at[b]] = b
    \/ slot[at[b]] \in {"booked", "deleted"}

HoldIsKept ==
    /\ \A b \in Bookings : booking[b] \in {"holding", "requested"} => Keeps(b) \/ HoldOver(b)
    /\ \A b, c \in Bookings : <<b, c>> \in released /\ b # c => HoldOver(c)

(***************************************************************************)
(* No client is reminded twice, except for a reminder whose stamp was lost *)
(* ("never a silent drop, never a double-send", api/cron-reminders.js).    *)
(***************************************************************************)
RemindedOnce == \A b \in Bookings : reminded[b] <= 1 + unstamped[b]
=============================================================================

--------------------------- MODULE BookingProofs ---------------------------
(***************************************************************************)
(* Proofs about Booking, for any number of slots, clients and deciders.    *)
(*                                                                         *)
(* OneWinner is not inductive: between the two updates of a confirmation   *)
(* the slot is booked and no booking confirmed.  A decision in that gap    *)
(* counts as a claim, like a confirmed booking: every claim's slot is      *)
(* booked, and no two claims name one slot (Claims).                       *)
(***************************************************************************)
EXTENDS Booking, TLAPS

TypeInv ==
    /\ slot \in [Slots -> {"absent", "open", "held", "lapsed", "booked", "deleted"}]
    /\ booking \in [Bookings -> {"new", "holding", "refused"} \cup Rows]
    /\ at \in [Bookings -> Slots \cup {Nobody}]
    /\ decision \in [Deciders -> {NoDecision} \cup
         [step : {"confirm", "booked", "decline", "declined"}, on : Bookings]]
    /\ holder \in [Slots -> Bookings \cup {Nobody}]
    /\ \A b \in Bookings : booking[b] \in {"holding"} \cup Rows => at[b] \in Slots
    /\ \A s \in Slots : slot[s] = "held" => holder[s] \in Bookings

\* decisions are about bookings that have a row
Decided ==
    \A d \in Deciders : decision[d] # NoDecision =>
        /\ decision[d].on \in Bookings
        /\ booking[decision[d].on] \in Rows
        /\ decision[d].step = "declined" => booking[decision[d].on] \in {"declined", "confirmed"}

Claiming(d) == decision[d].step = "booked"

Claims ==
    /\ \A d \in Deciders : Claiming(d) => slot[at[decision[d].on]] = "booked"
    /\ \A d, e \in Deciders : Claiming(d) /\ Claiming(e) /\ d # e =>
         at[decision[d].on] # at[decision[e].on]
    /\ \A d \in Deciders, b \in Bookings : Claiming(d) /\ booking[b] = "confirmed" =>
         at[decision[d].on] # at[b]

SlotInv == TypeInv /\ Decided /\ Claims /\ OneWinner

CronInv ==
    /\ cron \in [due : SUBSET Bookings, pushed : Bookings \cup {Nobody}]
    /\ stamped \subseteq Bookings
    /\ reminded \in [Bookings -> Nat] /\ unstamped \in [Bookings -> Nat]
    /\ cron.pushed \notin cron.due
    /\ (cron.due \cup {cron.pushed}) \cap stamped = {}
    /\ \A b \in Bookings :
         reminded[b] = unstamped[b] + (IF b \in stamped \/ b = cron.pushed THEN 1 ELSE 0)

-----------------------------------------------------------------------------
LEMMA SlotInit == BookingInit => SlotInv
BY BookingsAssumption
   DEF BookingInit, SlotInv, TypeInv, Decided, Claims, Claiming, OneWinner, NoDecision, Rows

LEMMA CreateSlotInv ==
    ASSUME SlotInv, NEW s \in Slots, CreateSlot(s)
    PROVE  SlotInv'
BY DEF SlotInv, TypeInv, Decided, Claims, Claiming, OneWinner, CreateSlot, bookingVars, NoDecision

LEMMA DeleteSlotInv ==
    ASSUME SlotInv, NEW s \in Slots, DeleteSlot(s)
    PROVE  SlotInv'
<1>1. \A b \in Bookings : booking[b] \in Rows => at[b] # s
  BY DEF DeleteSlot, Of
<1>2. \A x \in Slots : x # s => slot'[x] = slot[x]
  BY DEF DeleteSlot, SlotInv, TypeInv
<1> QED
  BY <1>1, <1>2 DEF SlotInv, TypeInv, Decided, Claims, Claiming, OneWinner, DeleteSlot,
     bookingVars, NoDecision, Rows

LEMMA LapseInv ==
    ASSUME SlotInv, NEW s \in Slots, Lapse(s)
    PROVE  SlotInv'
BY DEF SlotInv, TypeInv, Decided, Claims, Claiming, OneWinner, Lapse, Held, bookingVars, NoDecision

LEMMA HoldInv ==
    ASSUME SlotInv, NEW b \in Bookings, NEW s \in Slots, Hold(b, s)
    PROVE  SlotInv'
BY DEF SlotInv, TypeInv, Decided, Claims, Claiming, OneWinner, Hold, Available, NoDecision, Rows

LEMMA RequestInv ==
    ASSUME SlotInv, NEW b \in Bookings, Request(b) \/ Refuse(b)
    PROVE  SlotInv'
BY DEF SlotInv, TypeInv, Decided, Claims, Claiming, OneWinner, Request, Refuse, slotVars,
   NoDecision, Rows

LEMMA DecideInv ==
    ASSUME SlotInv, NEW d \in Deciders, NEW b \in Bookings, NEW a \in {"confirm", "decline"},
           Decide(d, b, a)
    PROVE  SlotInv'
BY DEF SlotInv, TypeInv, Decided, Claims, Claiming, OneWinner, Decide, slotVars, bookingVars,
   NoDecision, Rows

LEMMA BookInv ==
    ASSUME SlotInv, NEW d \in Deciders, Book(d)
    PROVE  SlotInv'
BY DEF SlotInv, TypeInv, Decided, Claims, Claiming, OneWinner, Book, Confirmable, bookingVars,
   NoDecision, Rows

LEMMA ConfirmInv ==
    ASSUME SlotInv, NEW d \in Deciders, Confirm(d)
    PROVE  SlotInv'
BY DEF SlotInv, TypeInv, Decided, Claims, Claiming, OneWinner, Confirm, slotVars, NoDecision, Rows

LEMMA DeclineInv ==
    ASSUME SlotInv, NEW d \in Deciders, Decline(d)
    PROVE  SlotInv'
BY DEF SlotInv, TypeInv, Decided, Claims, Claiming, OneWinner, Decline, slotVars, NoDecision, Rows

LEMMA ReleaseInv ==
    ASSUME SlotInv, NEW d \in Deciders, Release(d)
    PROVE  SlotInv'
BY DEF SlotInv, TypeInv, Decided, Claims, Claiming, OneWinner, Release, bookingVars, NoDecision, Rows

LEMMA CutOffInv ==
    ASSUME SlotInv, NEW d \in Deciders, CutOff(d)
    PROVE  SlotInv'
BY DEF SlotInv, TypeInv, Decided, Claims, Claiming, OneWinner, CutOff, slotVars, bookingVars, NoDecision

LEMMA SlotUnchanged ==
    ASSUME SlotInv, UNCHANGED <<slot, holder, bookingVars, decision>>
    PROVE  SlotInv'
BY DEF SlotInv, TypeInv, Decided, Claims, Claiming, OneWinner, bookingVars, NoDecision

LEMMA SlotStep == SlotInv /\ [BookingNext]_vars => SlotInv'
<1> SUFFICES ASSUME SlotInv, [BookingNext]_vars PROVE SlotInv'
  OBVIOUS
<1>1. ASSUME NEW s \in Slots, CreateSlot(s) \/ DeleteSlot(s) \/ Lapse(s)
      PROVE  SlotInv'
  BY <1>1, CreateSlotInv, DeleteSlotInv, LapseInv
<1>2. ASSUME NEW b \in Bookings, (\E s \in Slots : Hold(b, s)) \/ Request(b) \/ Refuse(b)
      PROVE  SlotInv'
  BY <1>2, HoldInv, RequestInv
<1>3. ASSUME NEW d \in Deciders,
             (\E b \in Bookings, a \in {"confirm", "decline"} : Decide(d, b, a))
               \/ Book(d) \/ Confirm(d) \/ Decline(d) \/ Release(d) \/ CutOff(d)
      PROVE  SlotInv'
  BY <1>3, DecideInv, BookInv, ConfirmInv, DeclineInv, ReleaseInv, CutOffInv
<1>4. ASSUME (\E s \in Slots : Approach(s)) \/ (\E b \in Bookings : Push(b) \/ Skip(b))
               \/ Sweep \/ Stamp \/ LoseStamp \/ UNCHANGED vars
      PROVE  UNCHANGED <<slot, holder, bookingVars, decision>>
  BY <1>4 DEF Approach, Push, Skip, Sweep, Stamp, LoseStamp, vars, slotVars
<1> QED BY <1>1, <1>2, <1>3, <1>4, SlotUnchanged DEF BookingNext

LEMMA SlotInvariance == BookingSpec => []SlotInv
BY SlotInit, SlotStep, PTL DEF BookingSpec

\* A slot has at most one confirmed booking and stays with it, for any number
\* of members who decide at once (createBookingRequestsHandler).
THEOREM OnlyOneWins == BookingSpec => []OneWinner
<1>1. SlotInv => OneWinner
  BY DEF SlotInv
<1> QED BY <1>1, SlotInvariance, PTL

-----------------------------------------------------------------------------
(***************************************************************************)
(* Holds.  Whatever became of a request, it keeps the slot it was made for *)
(* or its hold is over, by a lapse or by a release (Kept).  So the request *)
(* of a decline that releases the hold of another has none itself.         *)
(***************************************************************************)
Kept == \A b \in Bookings : booking[b] # "new" => at[b] \in Slots /\ (Keeps(b) \/ HoldOver(b))

ReleasedByOver ==
    /\ released \subseteq Bookings \X Bookings
    /\ \A b, c \in Bookings : <<b, c>> \in released /\ b # c => HoldOver(c)

HoldInvariant == SlotInv /\ Kept /\ ReleasedByOver

\* a hold that is over stays so
LEMMA OverStays ==
    ASSUME expired \subseteq expired', released \subseteq released', NEW b \in Bookings, HoldOver(b)
    PROVE  HoldOver(b)'
BY DEF HoldOver

\* a step that takes no slot from its holder
LEMMA HoldKept ==
    ASSUME Kept, ReleasedByOver, UNCHANGED <<holder, released>>, expired \subseteq expired',
           \A b \in Bookings : booking'[b] # "new" => booking[b] # "new" /\ at'[b] = at[b],
           \A s \in Slots : slot[s] \in {"held", "booked", "deleted"} /\ slot'[s] # slot[s] =>
             \/ slot'[s] \in {"booked", "deleted"}
             \/ slot[s] = "held" /\ holder[s] \in expired'
    PROVE  Kept' /\ ReleasedByOver'
<1>1. ReleasedByOver'
  BY DEF ReleasedByOver, HoldOver
<1>2. ASSUME NEW b \in Bookings, booking'[b] # "new"
      PROVE  at'[b] \in Slots /\ (Keeps(b)' \/ HoldOver(b)')
  <2>1. at'[b] = at[b] /\ at[b] \in Slots /\ (Keeps(b) \/ HoldOver(b))
    BY <1>2 DEF Kept
  <2>2. CASE Keeps(b)
    BY <2>1, <2>2 DEF Keeps, HoldOver
  <2>3. CASE HoldOver(b)
    BY <2>1, <2>3, OverStays
  <2> QED
    BY <2>1, <2>2, <2>3
<1> QED
  BY <1>1, <1>2 DEF Kept

\* whoever requested the slot before has it no more
LEMMA HoldStep ==
    ASSUME HoldInvariant, NEW b \in Bookings, NEW s \in Slots, Hold(b, s)
    PROVE  Kept' /\ ReleasedByOver'
<1>1. /\ booking[b] = "new" /\ slot[s] \in {"open", "lapsed"}
      /\ slot' = [slot EXCEPT ![s] = "held"] /\ holder' = [holder EXCEPT ![s] = b]
      /\ at' = [at EXCEPT ![b] = s] /\ booking' = [booking EXCEPT ![b] = "holding"]
      /\ UNCHANGED <<expired, released>>
  BY DEF Hold, Available
<1>2. ReleasedByOver'
  BY <1>1 DEF HoldInvariant, ReleasedByOver, HoldOver
<1>3. ASSUME NEW c \in Bookings, booking'[c] # "new"
      PROVE  at'[c] \in Slots /\ (Keeps(c)' \/ HoldOver(c)')
  <2>1. CASE c = b
    BY <1>1, <2>1 DEF HoldInvariant, SlotInv, TypeInv, Keeps
  <2>2. CASE c # b
    <3>1. at'[c] = at[c] /\ at[c] \in Slots /\ (Keeps(c) \/ HoldOver(c))
      BY <1>1, <1>3, <2>2 DEF HoldInvariant, Kept, SlotInv, TypeInv
    <3>2. HoldOver(c) => HoldOver(c)'
      BY <1>1, OverStays
    <3>3. CASE Keeps(c)
      <4>1. at[c] # s
        BY <1>1, <3>3 DEF Keeps
      <4> QED
        BY <1>1, <3>1, <3>3, <4>1 DEF HoldInvariant, SlotInv, TypeInv, Keeps
    <3> QED
      BY <3>1, <3>2, <3>3
  <2> QED
    BY <2>1, <2>2
<1> QED
  BY <1>2, <1>3 DEF Kept

LEMMA ReleaseStep ==
    ASSUME HoldInvariant, NEW d \in Deciders, Release(d)
    PROVE  Kept' /\ ReleasedByOver'
<1>1. PICK c \in Bookings, s \in Slots :
        /\ c = decision[d].on /\ s = at[c]
        /\ booking[c] \in Rows
  BY DEF HoldInvariant, SlotInv, TypeInv, Decided, Release, NoDecision
<1>2. /\ released' = released \cup IF Held(s) THEN {<<holder[s], c>>} ELSE {}
      /\ slot' = IF slot[s] \in {"held", "lapsed"} THEN [slot EXCEPT ![s] = "open"] ELSE slot
      /\ UNCHANGED <<holder, expired, booking, at>>
  BY <1>1 DEF Release, bookingVars
<1>3. \A b \in Bookings : HoldOver(b) => HoldOver(b)'
  BY <1>2, OverStays
<1>4. Held(s) => holder[s] \in Bookings
  BY DEF HoldInvariant, SlotInv, TypeInv, Held
<1>5. Held(s) /\ holder[s] # c => HoldOver(c)
  BY <1>1 DEF HoldInvariant, Kept, Keeps, Held, Rows
<1>6. ReleasedByOver'
  <2>1. released' \subseteq Bookings \X Bookings
    BY <1>1, <1>2, <1>4 DEF HoldInvariant, ReleasedByOver
  <2>2. ASSUME NEW b \in Bookings, NEW e \in Bookings, <<b, e>> \in released', b # e
        PROVE  HoldOver(e)'
    <3>1. CASE <<b, e>> \in released
      BY <2>2, <3>1, <1>3 DEF HoldInvariant, ReleasedByOver
    <3>2. CASE <<b, e>> \notin released
      <4>1. Held(s) /\ b = holder[s] /\ e = c
        BY <1>2, <2>2, <3>2
      <4> QED
        BY <4>1, <2>2, <1>3, <1>5
    <3> QED
      BY <3>1, <3>2
  <2> QED
    BY <2>1, <2>2 DEF ReleasedByOver
<1>7. ASSUME NEW b \in Bookings, booking[b] # "new"
      PROVE  at[b] \in Slots /\ (Keeps(b)' \/ HoldOver(b)')
  <2>1. at[b] \in Slots /\ (Keeps(b) \/ HoldOver(b))
    BY <1>7 DEF HoldInvariant, Kept
  <2>2. CASE slot'[at[b]] = slot[at[b]] /\ Keeps(b)
    BY <2>1, <2>2, <1>2 DEF Keeps
  <2>3. CASE slot'[at[b]] # slot[at[b]] /\ Keeps(b)
    <3>1. at[b] = s /\ Held(s) /\ holder[s] = b
      BY <2>1, <2>3, <1>2 DEF Keeps, Held, HoldInvariant, SlotInv, TypeInv
    <3>2. <<b, c>> \in released'
      BY <3>1, <1>2
    <3> QED
      BY <2>1, <3>2, <1>1 DEF HoldOver
  <2> QED
    BY <2>1, <2>2, <2>3, <1>3
<1>8. Kept'
  BY <1>2, <1>7 DEF Kept
<1> QED
  BY <1>6, <1>8

LEMMA KeptStep == HoldInvariant /\ [BookingNext]_vars => Kept' /\ ReleasedByOver'
<1> SUFFICES ASSUME HoldInvariant, [BookingNext]_vars PROVE Kept' /\ ReleasedByOver'
  OBVIOUS
<1> USE DEF HoldInvariant
<1>1. ASSUME NEW s \in Slots, CreateSlot(s) \/ DeleteSlot(s)
      PROVE  Kept' /\ ReleasedByOver'
  BY <1>1, HoldKept DEF CreateSlot, DeleteSlot, SlotInv, TypeInv, bookingVars
<1>2. ASSUME NEW s \in Slots, Lapse(s)
      PROVE  Kept' /\ ReleasedByOver'
  BY <1>2, HoldKept DEF Lapse, Held, SlotInv, TypeInv, bookingVars
<1>3. ASSUME NEW b \in Bookings, NEW s \in Slots, Hold(b, s)
      PROVE  Kept' /\ ReleasedByOver'
  BY <1>3, HoldStep
<1>4. ASSUME NEW b \in Bookings, Request(b) \/ Refuse(b)
      PROVE  Kept' /\ ReleasedByOver'
  <2>1. \A x \in Bookings : booking'[x] # "new" => booking[x] # "new"
    BY <1>4 DEF Request, Refuse, SlotInv, TypeInv
  <2> QED
    BY <1>4, <2>1, HoldKept DEF Request, Refuse, slotVars
<1>5. ASSUME NEW d \in Deciders, Book(d)
      PROVE  Kept' /\ ReleasedByOver'
  BY <1>5, HoldKept DEF Book, Confirmable, SlotInv, TypeInv, bookingVars
<1>6. ASSUME NEW d \in Deciders, Confirm(d) \/ Decline(d)
      PROVE  Kept' /\ ReleasedByOver'
  <2>1. /\ decision[d].on \in Bookings /\ booking[decision[d].on] # "new"
        /\ \A x \in Bookings : booking'[x] # "new" => booking[x] # "new"
    BY <1>6 DEF Confirm, Decline, SlotInv, TypeInv, Decided, NoDecision, Rows
  <2> QED
    BY <1>6, <2>1, HoldKept DEF Confirm, Decline, slotVars
<1>7. ASSUME NEW d \in Deciders, Release(d)
      PROVE  Kept' /\ ReleasedByOver'
  BY <1>7, ReleaseStep
<1>8. ASSUME \/ \E d \in Deciders : CutOff(d) \/ (\E b \in Bookings, a \in {"confirm", "decline"} : Decide(d, b, a))
             \/ (\E s \in Slots : Approach(s)) \/ (\E b \in Bookings : Push(b) \/ Skip(b))
             \/ Sweep \/ Stamp \/ LoseStamp \/ UNCHANGED vars
      PROVE  Kept' /\ ReleasedByOver'
  <2>1. UNCHANGED <<slot, holder, expired, released, booking, at>>
    BY <1>8 DEF CutOff, Decide, Approach, Push, Skip, Sweep, Stamp, LoseStamp, vars, slotVars, bookingVars
  <2> QED BY <2>1 DEF Kept, Keeps, HoldOver, ReleasedByOver
<1> QED BY <1>1, <1>2, <1>3, <1>4, <1>5, <1>6, <1>7, <1>8 DEF BookingNext

LEMMA HoldInvariance == BookingSpec => []HoldInvariant
<1>1. BookingInit => HoldInvariant
  BY SlotInit DEF BookingInit, HoldInvariant, Kept, ReleasedByOver
<1>2. HoldInvariant /\ [BookingNext]_vars => HoldInvariant'
  BY SlotStep, KeptStep DEF HoldInvariant
<1> QED BY <1>1, <1>2, PTL DEF BookingSpec

\* A client keeps her hold until it expires, except to a confirmation, or to
\* a decline; to that of another request only if the hold of that one was over
\* (the holds of booking-request.js, released by booking-requests.js).
THEOREM HoldsAreKept == BookingSpec => []HoldIsKept
<1>1. HoldInvariant => HoldIsKept
  BY DEF HoldInvariant, HoldIsKept, Kept, ReleasedByOver
<1> QED BY <1>1, HoldInvariance, PTL

-----------------------------------------------------------------------------
LEMMA CronStep == CronInv /\ [BookingNext]_vars => CronInv'
<1> SUFFICES ASSUME CronInv, [BookingNext]_vars PROVE CronInv'
  OBVIOUS
<1> USE BookingsAssumption
<1>1. CASE Sweep
  BY <1>1 DEF Sweep, CronInv, Due, Idle
<1>2. ASSUME NEW b \in Bookings, Push(b)
      PROVE  CronInv'
  <2>1. b \notin stamped /\ reminded[b] = unstamped[b]
    BY <1>2 DEF Push, CronInv
  <2>2. /\ cron' = [due |-> cron.due \ {b}, pushed |-> b] /\ UNCHANGED <<stamped, unstamped>>
        /\ reminded' = [reminded EXCEPT ![b] = reminded[b] + 1]
    BY <1>2 DEF Push
  <2>3. cron.pushed = Nobody
    BY <1>2 DEF Push
  <2> QED BY <2>1, <2>2, <2>3 DEF CronInv
<1>3. ASSUME NEW b \in Bookings, Skip(b)
      PROVE  CronInv'
  <2>1. cron' = [due |-> cron.due \ {b}, pushed |-> cron.pushed] /\ UNCHANGED <<stamped, reminded, unstamped>>
    BY <1>3 DEF Skip, CronInv
  <2> QED BY <2>1 DEF CronInv
<1>4. ASSUME Stamp \/ LoseStamp
      PROVE  CronInv'
  <2>1. cron' = [due |-> cron.due, pushed |-> Nobody] /\ cron.pushed \in Bookings /\ UNCHANGED reminded
    BY <1>4 DEF Stamp, LoseStamp, CronInv
  <2>2. CASE Stamp
    BY <2>1, <2>2 DEF Stamp, CronInv
  <2>3. CASE LoseStamp
    <3>1. unstamped' = [unstamped EXCEPT ![cron.pushed] = unstamped[cron.pushed] + 1] /\ stamped' = stamped
      BY <2>3 DEF LoseStamp
    <3> QED BY <2>1, <3>1 DEF CronInv
  <2> QED BY <1>4, <2>2, <2>3
<1>5. ASSUME \/ \E s \in Slots : CreateSlot(s) \/ DeleteSlot(s) \/ Lapse(s) \/ Approach(s)
             \/ \E b \in Bookings : (\E s \in Slots : Hold(b, s)) \/ Request(b) \/ Refuse(b)
             \/ \E d \in Deciders :
                  \/ \E b \in Bookings, a \in {"confirm", "decline"} : Decide(d, b, a)
                  \/ Book(d) \/ Confirm(d) \/ Decline(d) \/ Release(d) \/ CutOff(d)
             \/ UNCHANGED vars
      PROVE  CronInv'
  <2>1. UNCHANGED reminderVars
    BY <1>5 DEF CreateSlot, DeleteSlot, Lapse, Approach, Hold, Request, Refuse, Decide, Book, Confirm,
       Decline, Release, CutOff, vars
  <2> QED BY <2>1 DEF CronInv, reminderVars
<1> QED BY <1>1, <1>2, <1>3, <1>4, <1>5 DEF BookingNext

\* Reminders repeat only when a stamp was lost (createCronRemindersHandler).
THEOREM RemindersOnce == BookingSpec => []RemindedOnce
<1>1. BookingInit => CronInv
  BY BookingsAssumption DEF BookingInit, CronInv, Idle
<1>2. CronInv => RemindedOnce
  BY DEF CronInv, RemindedOnce
<1> QED BY <1>1, <1>2, CronStep, PTL DEF BookingSpec

\* Every variable of the booking page keeps its type.
THEOREM BookingTypeCorrect == BookingSpec => []BookingTypeOK
<1> DEFINE Rest ==
      /\ starts \in [Slots -> {"later", "soon", "past"}]
      /\ faults \in 0..MaxFaults
      /\ expired \subseteq Bookings
<1>1. BookingInit => Rest /\ CronInv
  BY BookingsAssumption DEF BookingInit, CronInv, Idle
<1>2. SlotInv /\ Rest /\ [BookingNext]_vars => Rest'
  <2> SUFFICES ASSUME SlotInv, Rest, [BookingNext]_vars PROVE Rest'
    OBVIOUS
  <2>1. expired' = expired \/ \E s \in Slots : Lapse(s)
    BY DEF BookingNext, CreateSlot, DeleteSlot, Approach, Hold, Request, Refuse, Decide, Book, Confirm,
       Decline, Release, CutOff, Push, Skip, Sweep, Stamp, LoseStamp, vars, slotVars
  <2>2. expired' \subseteq Bookings
    BY <2>1 DEF Lapse, Held, SlotInv, TypeInv
  <2>3. starts' = starts \/ \E s \in Slots : Approach(s)
    BY DEF BookingNext, CreateSlot, DeleteSlot, Lapse, Hold, Request, Refuse, Decide, Book, Confirm,
       Decline, Release, CutOff, Push, Skip, Sweep, Stamp, LoseStamp, vars, slotVars
  <2>4. starts' \in [Slots -> {"later", "soon", "past"}]
    BY <2>3 DEF Approach
  <2>5. faults' = faults \/ Fault
    BY DEF BookingNext, CreateSlot, DeleteSlot, Lapse, Approach, Hold, Request, Refuse, Decide, Book, Confirm,
       Decline, Release, CutOff, Push, Skip, Sweep, Stamp, LoseStamp, vars
  <2>6. faults' \in 0..MaxFaults
    BY <2>5, BookingsAssumption DEF Fault
  <2> QED BY <2>2, <2>4, <2>6
<1>3. HoldInvariant /\ Rest /\ CronInv => BookingTypeOK
  BY DEF HoldInvariant, ReleasedByOver, SlotInv, TypeInv, CronInv, BookingTypeOK
<1>4. HoldInvariant => SlotInv
  BY DEF HoldInvariant
<1> QED BY <1>1, <1>2, <1>3, <1>4, HoldInvariance, CronStep, PTL DEF BookingSpec
=============================================================================

---------------------------- MODULE TeamsProofs ----------------------------
(***************************************************************************)
(* Proofs about Teams, for any number of accounts, subscriptions, webhook  *)
(* handlers and join requests.                                             *)
(*                                                                         *)
(* FreshWrites rests on what Stripe's history is: versions are only added, *)
(* none after a cancellation, and nothing was written that is not in it.   *)
(* SeatsBounded counts a request that found a free seat like a member      *)
(* (SeatsTaken): its insertion turns one into the other.                   *)
(*                                                                         *)
(* InSync rests on SyncInv: what an account shows is a version of one of   *)
(* its subscriptions, and what a webhook that is alone has looked up is    *)
(* the newest version, or a newer one is still to be reported and nobody   *)
(* else can acknowledge that report.                                       *)
(***************************************************************************)
EXTENDS Teams, FiniteSetTheorems, SequenceTheorems, TLAPS

HookType == {NoHook} \cup
    [step : {"retrieve", "write"}, event : Event, version : Nat, floor : Nat, fellBack : BOOLEAN]
JoinType == {NoJoin} \cup
    [step : {"team", "count", "insert"}, member : Accounts, owner : Accounts, seats : 0..MaxSeats]
RowType == [plan : Plans, status : {"active", "past_due", "canceled"}, seats : 0..MaxSeats]

InHistory(s, n) == n \in 1..Len(history[s])

BillingType ==
    /\ checkouts \subseteq Subs
    /\ history \in [Subs -> Seq(Version)]
    /\ pending \subseteq Event
    /\ hook \in [Hooks -> HookType]
    /\ written \in [Subs -> Nat]

StripeInv ==
    /\ \A s \in checkouts : history[s] = <<>>
    /\ \A s \in Subs : written[s] <= Len(history[s])
    /\ \A s \in Subs : \A n \in 1..Len(history[s]) :
         history[s][n].status = "canceled" => n = Len(history[s])
    /\ \A e \in pending : InHistory(e.sub, e.version)

HookInv ==
    \A h \in Hooks : hook[h].step # "idle" =>
        /\ InHistory(hook[h].event.sub, hook[h].event.version)
        /\ InHistory(hook[h].event.sub, hook[h].version)
        /\ hook[h].floor <= Len(history[hook[h].event.sub])

BillingInv == BillingType /\ StripeInv /\ HookInv /\ FreshWrites

Admitted(a) == {j \in Joins : join[j].step = "insert" /\ join[j].owner = a}

SeatsTaken(a) == Cardinality(Members(a)) + Cardinality(Admitted(a)) + 1

SeatType ==
    /\ account \in [Accounts -> RowType]
    /\ rows \subseteq [member : Accounts, owner : Accounts]
    /\ invites \subseteq Accounts
    /\ join \in [Joins -> JoinType]
    /\ peak \in [Accounts -> 0..MaxSeats]

SeatInv ==
    /\ SeatType
    /\ \A a \in Accounts : account[a].seats <= peak[a]
    /\ \A j \in Joins : join[j].step = "count" => join[j].seats <= peak[join[j].owner]
    /\ \A a \in Accounts : Members(a) # {} \/ Admitted(a) # {}
                           => SeatsTaken(a) < peak[a] + Cardinality(Joins)

RestType ==
    /\ faults \in 0..MaxFaults
    /\ latest \in [Accounts -> {<<>>} \cup (Subs \X Nat)]
    /\ alone \subseteq Hooks
    /\ calm \in [Accounts -> BOOLEAN]

TeamInv == BillingInv /\ SeatInv /\ RestType

-----------------------------------------------------------------------------
(***************************************************************************)
(* Billing.                                                                *)
(***************************************************************************)
LEMMA BillingInit == TeamInit => BillingInv
BY DEF TeamInit, BillingInv, BillingType, HookType, StripeInv, HookInv, FreshWrites, NoHook

\* Stripe's histories only grow, and keep what they hold.
LEMMA ReportFacts ==
    ASSUME BillingInv, NEW s \in Subs, NEW v \in Version, Report(s, v), ~Canceled(s)
    PROVE  /\ history' \in [Subs -> Seq(Version)]
           /\ pending' \subseteq Event
           /\ \A t \in Subs : Len(history[t]) <= Len(history'[t])
           /\ \A t \in Subs : t # s => history'[t] = history[t]
           /\ Len(history'[s]) = Len(history[s]) + 1
           /\ \A n \in 1..Len(history[s]) : history'[s][n] = history[s][n]
           /\ \A n \in 1..Len(history[s]) : history[s][n].status # "canceled"
           /\ \A e \in pending' : InHistory(e.sub, e.version)'
<1> USE DEF BillingInv, BillingType
<1>1. /\ history' = [history EXCEPT ![s] = Append(@, v)]
      /\ pending' = pending \cup {[sub |-> s, version |-> Len(history[s]) + 1]}
  BY DEF Report
<1>2. /\ history[s] \in Seq(Version)
      /\ Len(history[s]) \in Nat
      /\ history'[s] = Append(history[s], v)
  BY <1>1, LenProperties
<1>3. /\ Append(history[s], v) \in Seq(Version)
      /\ Len(history'[s]) = Len(history[s]) + 1
      /\ \A n \in 1..Len(history[s]) : history'[s][n] = history[s][n]
  BY <1>2, AppendProperties
<1>4. history' \in [Subs -> Seq(Version)]
  BY <1>1, <1>3
<1>5. \A t \in Subs : t # s => history'[t] = history[t]
  BY <1>1
<1>6. \A t \in Subs : Len(history[t]) \in Nat
  BY LenProperties
<1>7. pending' \subseteq Event
  BY <1>1, <1>2 DEF Event
<1>8. \A n \in 1..Len(history[s]) : history[s][n].status # "canceled"
  <2>1. CASE history[s] = <<>>
    BY <2>1
  <2>2. CASE history[s] # <<>>
    BY <2>2, <1>2 DEF Canceled, StripeInv
  <2> QED
    BY <2>1, <2>2
<1>9. ASSUME NEW t \in Subs PROVE Len(history[t]) <= Len(history'[t])
  <2>1. CASE t = s
    BY <2>1, <1>2, <1>3
  <2>2. CASE t # s
    <3>1. history'[t] = history[t]
      BY <2>2, <1>5
    <3> QED
      BY <3>1, <1>6
  <2> QED
    BY <2>1, <2>2
<1>10. \A e \in pending' : InHistory(e.sub, e.version)'
  <2> SUFFICES ASSUME NEW e \in pending' PROVE e.version \in 1..Len(history'[e.sub])
    BY DEF InHistory
  <2>1. CASE e \in pending
    <3>1. e.sub \in Subs /\ e.version \in 1..Len(history[e.sub])
      BY <2>1 DEF Event, StripeInv, InHistory
    <3> QED
      BY <3>1, <1>9, <1>6, <1>4, LenProperties
  <2>2. CASE e = [sub |-> s, version |-> Len(history[s]) + 1]
    BY <2>2, <1>2, <1>3
  <2> QED
    BY <2>1, <2>2, <1>1
<1> QED
  BY <1>3, <1>4, <1>5, <1>7, <1>8, <1>9, <1>10

LEMMA ReportInv ==
    ASSUME BillingInv, NEW s \in Subs, NEW v \in Version, Report(s, v), ~Canceled(s),
           checkouts' \subseteq checkouts \ {s} \/ (history[s] # <<>> /\ checkouts' = checkouts),
           UNCHANGED <<hook, written>>
    PROVE  BillingInv'
<1> USE DEF BillingInv, BillingType
<1>1. /\ history' \in [Subs -> Seq(Version)]
      /\ pending' \subseteq Event
      /\ \A t \in Subs : Len(history[t]) <= Len(history'[t])
      /\ \A t \in Subs : t # s => history'[t] = history[t]
      /\ Len(history'[s]) = Len(history[s]) + 1
      /\ \A n \in 1..Len(history[s]) : history'[s][n] = history[s][n]
      /\ \A n \in 1..Len(history[s]) : history[s][n].status # "canceled"
      /\ \A e \in pending' : InHistory(e.sub, e.version)'
  BY ReportFacts
<1>2. \A t \in Subs : Len(history[t]) \in Nat /\ Len(history'[t]) \in Nat
  BY <1>1, LenProperties
<1>3. BillingType'
  BY <1>1
<1>4. StripeInv'
  <2>1. \A c \in checkouts' : history'[c] = <<>>
    BY <1>1 DEF StripeInv
  <2>2. \A t \in Subs : written'[t] <= Len(history'[t])
    BY <1>1, <1>2 DEF StripeInv
  <2>3. ASSUME NEW t \in Subs, NEW n \in 1..Len(history'[t]), history'[t][n].status = "canceled"
        PROVE  n = Len(history'[t])
    <3>1. CASE t # s
      <4>1. history'[t] = history[t]
        BY <3>1, <1>1
      <4>2. n \in 1..Len(history[t]) /\ history[t][n].status = "canceled"
        BY <4>1, <2>3
      <4> QED
        BY <4>1, <4>2 DEF StripeInv
    <3>2. CASE t = s
      <4>1. n \notin 1..Len(history[s])
        BY <3>2, <2>3, <1>1
      <4> QED
        BY <4>1, <3>2, <2>3, <1>1, <1>2
    <3> QED
      BY <3>1, <3>2
  <2> QED
    BY <2>1, <2>2, <2>3, <1>1 DEF StripeInv
<1>5. HookInv'
  <2> SUFFICES ASSUME NEW h \in Hooks, hook[h].step # "idle"
               PROVE  /\ InHistory(hook[h].event.sub, hook[h].event.version)'
                      /\ InHistory(hook[h].event.sub, hook[h].version)'
                      /\ hook[h].floor <= Len(history'[hook[h].event.sub])
    BY DEF HookInv
  <2>1. hook[h].event.sub \in Subs /\ hook[h].floor \in Nat
    BY DEF HookType, NoHook, Event
  <2>2. \A t \in Subs : \A n : InHistory(t, n) => InHistory(t, n)'
    BY <1>1, <1>2 DEF InHistory
  <2>3. /\ InHistory(hook[h].event.sub, hook[h].event.version)
        /\ InHistory(hook[h].event.sub, hook[h].version)
        /\ hook[h].floor <= Len(history[hook[h].event.sub])
    BY DEF HookInv
  <2>4. hook[h].floor <= Len(history'[hook[h].event.sub])
    BY <2>1, <2>3, <1>1, <1>2
  <2> QED
    BY <2>1, <2>2, <2>3, <2>4
<1>6. FreshWrites'
  BY DEF FreshWrites
<1> QED
  BY <1>3, <1>4, <1>5, <1>6

LEMMA StripeStep ==
    ASSUME BillingInv, NEW s \in Subs, Checkout(s) \/ Subscribe(s) \/ Change(s)
    PROVE  BillingInv'
<1> USE TeamsAssumption
<1>1. CASE Checkout(s)
  BY <1>1 DEF Checkout, BillingInv, BillingType, StripeInv, HookInv, FreshWrites, InHistory,
     shownVars
<1>2. CASE Subscribe(s)
  <2>1. history[s] = <<>>
    BY <1>2 DEF Subscribe, Dashboard, BillingInv, StripeInv
  <2>2. PICK n \in SeatsOf(s, 2) : Report(s, [status |-> "active", seats |-> n])
    BY <1>2 DEF Subscribe
  <2>3. [status |-> "active", seats |-> n] \in Version
    BY <2>2 DEF Version, SeatsOf
  <2> QED
    BY <1>2, <2>1, <2>2, <2>3, ReportInv DEF Subscribe, Canceled, shownVars
<1>3. CASE Change(s)
  <2>1. PICK v \in [status : {"active", "unpaid", "canceled"}, seats : SeatsOf(s, 1)] : Report(s, v)
    BY <1>3 DEF Change
  <2>2. v \in Version
    BY <2>1 DEF Version, SeatsOf
  <2> QED
    BY <1>3, <2>1, <2>2, ReportInv DEF Change, shownVars
<1> QED
  BY <1>1, <1>2, <1>3

LEMMA ReceiveInv ==
    ASSUME BillingInv, NEW h \in Hooks, Receive(h)
    PROVE  BillingInv'
<1> USE DEF BillingInv, BillingType
<1>1. PICK e \in pending : hook' = [hook EXCEPT ![h] =
        [step |-> IF Terminal(e) THEN "write" ELSE "retrieve", event |-> e,
         version |-> e.version, floor |-> written[e.sub], fellBack |-> FALSE]]
  BY DEF Receive
<1>2. /\ e \in Event /\ e.sub \in Subs /\ InHistory(e.sub, e.version)
      /\ written[e.sub] \in Nat /\ written[e.sub] <= Len(history[e.sub])
      /\ Len(history[e.sub]) \in Nat
  BY LenProperties DEF Event, StripeInv
<1>3. Terminal(e) => e.version = Len(history[e.sub])
  BY <1>2 DEF Terminal, InHistory, StripeInv
<1>4. UNCHANGED <<history, checkouts, pending, written>>
  BY DEF Receive, stripeVars, shownVars
<1>5. /\ hook'[h].event = e
      /\ hook'[h].version = e.version
      /\ hook'[h].floor = written[e.sub]
      /\ hook'[h].step = "write" => Terminal(e)
      /\ hook'[h] \in HookType
      /\ \A g \in Hooks : g # h => hook'[g] = hook[g]
  BY <1>1, <1>2 DEF HookType, InHistory, Event
<1>6. BillingType'
  BY <1>1, <1>4, <1>5
<1>7. StripeInv'
  BY <1>4 DEF StripeInv, InHistory
<1>8. HookInv'
  BY <1>2, <1>4, <1>5 DEF HookInv, InHistory
<1>9. FreshWrites'
  BY <1>2, <1>3, <1>5 DEF FreshWrites
<1> QED
  BY <1>6, <1>7, <1>8, <1>9

LEMMA RetrieveInv ==
    ASSUME BillingInv, NEW h \in Hooks, Retrieve(h) \/ RetrieveFails(h)
    PROVE  BillingInv'
<1> USE DEF BillingInv, BillingType
<1>1. UNCHANGED <<history, checkouts, pending, written>>
  BY DEF Retrieve, RetrieveFails, stripeVars, shownVars
<1>2. /\ hook[h].step = "retrieve" /\ hook[h] \in HookType
      /\ hook[h].event \in Event /\ hook[h].event.sub \in Subs
  BY DEF Retrieve, RetrieveFails, HookType, NoHook, Event
<1>3. /\ Len(history[hook[h].event.sub]) \in Nat
      /\ InHistory(hook[h].event.sub, hook[h].version)
      /\ hook[h].floor <= Len(history[hook[h].event.sub])
  BY <1>2, LenProperties DEF HookInv
<1>4. /\ hook'[h].event = hook[h].event
      /\ hook'[h].floor = hook[h].floor
      /\ hook'[h].step = "write"
      /\ hook'[h].version \in Nat
      /\ InHistory(hook[h].event.sub, hook'[h].version)
      /\ hook'[h].fellBack \/ hook'[h].version = Len(history[hook[h].event.sub])
      /\ hook'[h] \in HookType
      /\ \A g \in Hooks : g # h => hook'[g] = hook[g]
  <2> DEFINE Busy == [step : {"retrieve", "write"}, event : Event, version : Nat,
                      floor : Nat, fellBack : BOOLEAN]
  <2>1. hook[h] \in Busy
    BY <1>2 DEF HookType, NoHook
  <2>2. PICK n \in Nat, f \in BOOLEAN :
          /\ hook' = [hook EXCEPT ![h] = [@ EXCEPT !.step = "write", !.version = n, !.fellBack = f]]
          /\ f \/ n = Len(history[hook[h].event.sub])
          /\ InHistory(hook[h].event.sub, n)
    <3>1. CASE Retrieve(h)
      <4>1. hook' = [hook EXCEPT ![h] =
              [@ EXCEPT !.step = "write", !.version = Len(history[hook[h].event.sub]),
                        !.fellBack = hook[h].fellBack]]
        BY <3>1, <2>1 DEF Retrieve, Current
      <4>2. hook[h].fellBack \in BOOLEAN
        BY <2>1
      <4>3. InHistory(hook[h].event.sub, Len(history[hook[h].event.sub]))
        BY <1>3 DEF InHistory
      <4> QED
        BY <4>1, <4>2, <4>3, <1>3
    <3>2. CASE RetrieveFails(h)
      <4>1. hook' = [hook EXCEPT ![h] =
              [@ EXCEPT !.step = "write", !.version = hook[h].version, !.fellBack = TRUE]]
        BY <3>2, <2>1 DEF RetrieveFails
      <4> QED
        BY <4>1, <2>1, <1>3
    <3> QED
      BY <3>1, <3>2
  <2>3. hook'[h] = [hook[h] EXCEPT !.step = "write", !.version = n, !.fellBack = f]
    BY <2>2
  <2>4. hook'[h] \in Busy
    BY <2>1, <2>3
  <2>5. hook'[h] \in HookType
    BY <2>4 DEF HookType
  <2>6. /\ hook'[h].event = hook[h].event /\ hook'[h].floor = hook[h].floor
        /\ hook'[h].step = "write" /\ hook'[h].version = n /\ hook'[h].fellBack = f
    BY <2>1, <2>3
  <2>7. \A g \in Hooks : g # h => hook'[g] = hook[g]
    BY <2>2
  <2> QED
    BY <2>2, <2>5, <2>6, <2>7
<1>5. BillingType'
  <2>1. DOMAIN hook' = Hooks /\ hook' = [g \in Hooks |-> hook'[g]]
    BY DEF Retrieve, RetrieveFails
  <2> QED
    BY <1>1, <1>4, <2>1
<1>6. StripeInv'
  BY <1>1 DEF StripeInv, InHistory
<1>7. HookInv'
  BY <1>1, <1>2, <1>4, <1>3 DEF HookInv, InHistory
<1>8. FreshWrites'
  BY <1>3, <1>4 DEF FreshWrites
<1> QED
  BY <1>5, <1>6, <1>7, <1>8

LEMMA AcknowledgeInv ==
    ASSUME BillingInv, NEW h \in Hooks, Update(h) \/ UpdateFails(h) \/ CutOff(h)
    PROVE  BillingInv'
<1> USE DEF BillingInv, BillingType
<1>1. /\ UNCHANGED <<history, checkouts>>
      /\ pending' \subseteq pending
      /\ hook' = [hook EXCEPT ![h] = NoHook]
  BY DEF Update, UpdateFails, CutOff, Acknowledge, stripeVars
<1>2. /\ written' \in [Subs -> Nat]
      /\ \A s \in Subs : written'[s] <= Len(history[s])
  <2>1. CASE Update(h)
    <3>1. hook[h].step = "write"
      BY <2>1 DEF Update
    <3>2. /\ hook[h].event.sub \in Subs /\ hook[h].version \in Nat
          /\ InHistory(hook[h].event.sub, hook[h].version)
      BY <3>1 DEF HookType, NoHook, Event, HookInv
    <3>3. written' = [written EXCEPT ![hook[h].event.sub] = Larger(@, hook[h].version)]
      BY <2>1 DEF Update
    <3>4. Len(history[hook[h].event.sub]) \in Nat
      BY <3>2, LenProperties
    <3> QED
      BY <3>2, <3>3, <3>4 DEF Larger, StripeInv, InHistory
  <2>2. CASE UpdateFails(h) \/ CutOff(h)
    BY <2>2 DEF UpdateFails, CutOff, shownVars, StripeInv
  <2> QED
    BY <2>1, <2>2
<1>3. BillingType'
  BY <1>1, <1>2 DEF HookType
<1>4. StripeInv'
  BY <1>1, <1>2 DEF StripeInv, InHistory
<1>5. HookInv'
  BY <1>1 DEF HookInv, InHistory, NoHook
<1>6. FreshWrites'
  BY <1>1 DEF FreshWrites, NoHook
<1> QED
  BY <1>3, <1>4, <1>5, <1>6

LEMMA BillingUnchanged ==
    ASSUME BillingInv, UNCHANGED <<stripeVars, pending, hook, written>>
    PROVE  BillingInv'
BY DEF BillingInv, BillingType, StripeInv, HookInv, FreshWrites, InHistory, stripeVars

LEMMA TeamLeavesBilling ==
    ASSUME Team
    PROVE  UNCHANGED <<stripeVars, pending, hook, shownVars, faults, alone, calm>>
BY DEF Team, Invite, Remove, OpenJoin, ReadTeam, CountSeats, Insert

LEMMA BillingStep == BillingInv /\ [TeamNext]_vars => BillingInv'
<1> SUFFICES ASSUME BillingInv, [TeamNext]_vars PROVE BillingInv'
  OBVIOUS
<1>1. CASE Stripe
  BY <1>1, StripeStep DEF Stripe
<1>2. CASE Webhook
  BY <1>2, ReceiveInv, RetrieveInv, AcknowledgeInv DEF Webhook
<1>3. CASE Team
  BY <1>3, TeamLeavesBilling, BillingUnchanged DEF shownVars
<1>4. CASE UNCHANGED vars
  BY <1>4, BillingUnchanged DEF vars, shownVars
<1> QED
  BY <1>1, <1>2, <1>3, <1>4 DEF TeamNext

-----------------------------------------------------------------------------
(***************************************************************************)
(* Seats.                                                                  *)
(***************************************************************************)
LEMMA SeatInit == TeamInit => SeatInv
BY TeamsAssumption DEF TeamInit, SeatInv, SeatType, RowType, JoinType, Plans, NoJoin, Members, Admitted

LEMMA SeatSets ==
    ASSUME SeatType, NEW a \in Accounts
    PROVE  /\ Members(a) \subseteq Accounts /\ IsFiniteSet(Members(a))
           /\ Cardinality(Members(a)) \in Nat
           /\ Admitted(a) \subseteq Joins /\ IsFiniteSet(Admitted(a))
           /\ Cardinality(Admitted(a)) \in Nat
           /\ Cardinality(Admitted(a)) <= Cardinality(Joins)
           /\ Cardinality(Joins) \in Nat
<1>1. Members(a) \subseteq Accounts
  BY DEF Members, SeatType
<1>2. Admitted(a) \subseteq Joins
  BY DEF Admitted
<1> QED
  BY <1>1, <1>2, TeamsAssumption, FS_Subset, FS_CardinalityType

LEMMA LargerIsBound ==
    ASSUME NEW m \in 0..MaxSeats, NEW k \in 0..MaxSeats
    PROVE  Larger(m, k) \in 0..MaxSeats /\ m <= Larger(m, k) /\ k <= Larger(m, k)
BY TeamsAssumption DEF Larger

LEMMA UpdateSeats ==
    ASSUME SeatInv, BillingInv, NEW h \in Hooks, Update(h)
    PROVE  SeatInv'
<1> DEFINE s == hook[h].event.sub
           n == hook[h].version
           a == CustomerOf[s]
           v == history[s][n]
<1>1. /\ s \in Subs /\ n \in 1..Len(history[s])
  BY DEF Update, BillingInv, BillingType, HookInv, HookType, NoHook, Event, InHistory
<1>2. v \in Version /\ a \in Accounts
  BY <1>1, TeamsAssumption, ElementOfSeq DEF BillingInv, BillingType
<1>3. /\ account' = [account EXCEPT ![a] = Synced(@, s, v)]
      /\ peak' = [peak EXCEPT ![a] = Larger(@, v.seats)]
      /\ UNCHANGED <<rows, invites, join>>
  BY DEF Update, teamVars
<1>4. /\ v.seats \in 0..MaxSeats /\ v.seats \in Nat
      /\ \A x \in Accounts : peak[x] \in 0..MaxSeats /\ account[x].seats \in 0..MaxSeats
  <2>1. v.seats \in 0..MaxSeats /\ v.seats \in Nat
    <3>1. v.seats \in 0..MaxSeats
      BY <1>2 DEF Version
    <3>2. MaxSeats \in Nat
      BY TeamsAssumption
    <3> HIDE DEF v, a, s, n
    <3> QED BY <3>1, <3>2
  <2>2. \A x \in Accounts : peak[x] \in 0..MaxSeats /\ account[x].seats \in 0..MaxSeats
    BY TeamsAssumption DEF SeatInv, SeatType, RowType
  <2> QED BY <2>1, <2>2
<1>5. /\ peak' \in [Accounts -> 0..MaxSeats]
      /\ \A x \in Accounts : peak[x] <= peak'[x]
      /\ v.seats <= peak'[a]
  <2> DEFINE top == Larger(peak[a], v.seats)
  <2>0. peak[a] \in 0..MaxSeats /\ v.seats \in 0..MaxSeats
    BY <1>2, <1>4
  <2>1. /\ top \in 0..MaxSeats /\ peak[a] <= top /\ v.seats <= top
    BY <2>0, LargerIsBound
  <2>2. peak' = [peak EXCEPT ![a] = top] /\ peak \in [Accounts -> 0..MaxSeats]
    BY <1>3 DEF SeatInv, SeatType
  <2> HIDE DEF top
  <2>3. peak'[a] = top /\ \A x \in Accounts : x # a => peak'[x] = peak[x]
    BY <1>2, <2>2
  <2>4. \A x \in Accounts : peak[x] <= peak[x]
    BY <1>4
  <2> QED
    BY <2>1, <2>2, <2>3, <2>4, <1>2
<1>6. Synced(account[a], s, v) \in RowType /\ Synced(account[a], s, v).seats = v.seats
  <2>1. account[a].plan \in Plans /\ (PlanOf[s] # NoPlan => PlanOf[s] \in Plans)
    BY <1>1, <1>2, TeamsAssumption DEF SeatInv, SeatType, RowType, Plans
  <2> QED
    BY <2>1, <1>4 DEF Synced, RowType, mapStripeStatus
<1>7. SeatType'
  BY <1>3, <1>5, <1>6 DEF SeatInv, SeatType
<1>8. \A x \in Accounts : account'[x].seats <= peak'[x]
  BY <1>2, <1>3, <1>4, <1>5, <1>6 DEF SeatInv, SeatType
<1>9. \A j \in Joins : join'[j].step = "count" => join'[j].seats <= peak'[join'[j].owner]
  <2> SUFFICES ASSUME NEW j \in Joins, join[j].step = "count"
               PROVE  join[j].seats <= peak'[join[j].owner]
    BY <1>3
  <2> DEFINE o == join[j].owner
  <2>1. o \in Accounts /\ join[j].seats \in Nat /\ join[j].seats <= peak[o]
    BY TeamsAssumption DEF SeatInv, SeatType, JoinType, NoJoin
  <2>2. peak[o] \in Nat /\ peak'[o] \in Nat /\ peak[o] <= peak'[o]
    <3> HIDE DEF o
    <3>1. peak[o] \in 0..MaxSeats /\ peak'[o] \in 0..MaxSeats /\ peak[o] <= peak'[o]
      BY <2>1, <1>4, <1>5
    <3> QED
      BY <3>1, TeamsAssumption
  <2> HIDE DEF o
  <2>3. join[j].seats <= peak'[o]
    BY <2>1, <2>2
  <2> QED
    BY <2>3 DEF o
<1>10. \A x \in Accounts : Members(x)' # {} \/ Admitted(x)' # {}
                           => SeatsTaken(x)' < peak'[x] + Cardinality(Joins)
  <2> SUFFICES ASSUME NEW x \in Accounts, Members(x) # {} \/ Admitted(x) # {}
               PROVE  SeatsTaken(x) < peak'[x] + Cardinality(Joins)
    BY <1>3 DEF SeatsTaken, Members, Admitted
  <2>1. SeatsTaken(x) < peak[x] + Cardinality(Joins)
    BY DEF SeatInv
  <2>2. SeatsTaken(x) \in Nat /\ Cardinality(Joins) \in Nat
    BY SeatSets DEF SeatInv, SeatsTaken
  <2>3. peak[x] \in Nat /\ peak'[x] \in Nat /\ peak[x] <= peak'[x]
    <3>1. peak[x] \in 0..MaxSeats
      BY <1>4
    <3>2. peak'[x] \in 0..MaxSeats /\ peak[x] <= peak'[x]
      BY <1>5
    <3> QED BY <3>1, <3>2
  <2> QED
    BY <2>1, <2>2, <2>3
<1> QED
  BY <1>7, <1>8, <1>9, <1>10 DEF SeatInv

\* What a step of a join request, an invitation or a removal must show.
LEMMA SeatStep ==
    ASSUME SeatInv, UNCHANGED <<account, peak>>,
           rows' \subseteq [member : Accounts, owner : Accounts],
           invites' \subseteq Accounts,
           join' \in [Joins -> JoinType],
           \A j \in Joins : join'[j].step = "count" => join'[j].seats <= peak[join'[j].owner],
           \A a \in Accounts : SeatsTaken(a)' <= SeatsTaken(a)
                               \/ SeatsTaken(a)' < peak[a] + Cardinality(Joins),
           \A a \in Accounts : Members(a)' # {} \/ Admitted(a)' # {} =>
               \/ Members(a) # {} \/ Admitted(a) # {}
               \/ SeatsTaken(a)' < peak[a] + Cardinality(Joins)
    PROVE  SeatInv'
<1>1. SeatType'
  BY DEF SeatInv, SeatType
<1>2. ASSUME NEW a \in Accounts, Members(a)' # {} \/ Admitted(a)' # {}
      PROVE  SeatsTaken(a)' < peak[a] + Cardinality(Joins)
  <2>1. /\ Cardinality(Members(a)) \in Nat /\ Cardinality(Admitted(a)) \in Nat
        /\ Cardinality(Joins) \in Nat
    BY SeatSets DEF SeatInv
  <2>2. /\ Cardinality(Members(a)') \in Nat /\ Cardinality(Admitted(a)') \in Nat
    <3>1. Members(a)' \subseteq Accounts /\ Admitted(a)' \subseteq Joins
      BY <1>1 DEF SeatType, Members, Admitted
    <3> QED
      BY <3>1, TeamsAssumption, FS_Subset, FS_CardinalityType
  <2>3. SeatsTaken(a) \in Nat /\ SeatsTaken(a)' \in Nat
    BY <2>1, <2>2 DEF SeatsTaken
  <2>4. peak[a] \in Nat
    BY TeamsAssumption DEF SeatInv, SeatType
  <2> QED
    BY <1>2, <2>1, <2>3, <2>4 DEF SeatInv
<1> QED
  BY <1>1, <1>2 DEF SeatInv

LEMMA SameSeats ==
    ASSUME SeatInv, UNCHANGED <<account, peak>>, rows' = rows, invites' \subseteq Accounts,
           join' \in [Joins -> JoinType],
           \A j \in Joins : join'[j].step = "count" => join'[j].seats <= peak[join'[j].owner],
           \A a \in Accounts : Admitted(a)' = Admitted(a)
    PROVE  SeatInv'
<1>1. \A a \in Accounts : Members(a)' = Members(a)
  BY DEF Members
<1>2. \A a \in Accounts : SeatsTaken(a) \in Nat /\ SeatsTaken(a)' = SeatsTaken(a)
  BY <1>1, SeatSets DEF SeatInv, SeatsTaken
<1> QED
  BY <1>1, <1>2, SeatStep DEF SeatInv, SeatType

LEMMA InviteInv == ASSUME SeatInv, NEW a \in Accounts, Invite(a) PROVE SeatInv'
BY SameSeats DEF Invite, shownVars, SeatInv, SeatType, Admitted

LEMMA RemoveInv ==
    ASSUME SeatInv, NEW a \in Accounts, NEW m \in Accounts, Remove(a, m)
    PROVE  SeatInv'
<1>1. /\ UNCHANGED <<account, peak, invites, join>>
      /\ rows' \subseteq rows
  BY DEF Remove, shownVars
<1>2. ASSUME NEW x \in Accounts
      PROVE  /\ Members(x)' \subseteq Members(x) /\ Admitted(x)' = Admitted(x)
             /\ SeatsTaken(x)' <= SeatsTaken(x)
  <2>1. Members(x)' \subseteq Members(x) /\ Admitted(x)' = Admitted(x)
    BY <1>1 DEF Members, Admitted
  <2>2. /\ IsFiniteSet(Members(x)) /\ Cardinality(Members(x)) \in Nat
        /\ Cardinality(Admitted(x)) \in Nat
    BY SeatSets DEF SeatInv
  <2>3. Cardinality(Members(x)') <= Cardinality(Members(x)) /\ Cardinality(Members(x)') \in Nat
    BY <2>1, <2>2, FS_Subset, FS_CardinalityType
  <2> QED
    BY <2>1, <2>2, <2>3 DEF SeatsTaken
<1> QED
  BY <1>1, <1>2, SeatStep DEF SeatInv, SeatType

LEMMA OpenJoinInv == ASSUME SeatInv, NEW j \in Joins, OpenJoin(j) PROVE SeatInv'
<1>1. PICK m \in Accounts, a \in invites :
        join' = [join EXCEPT ![j] = [step |-> "team", member |-> m, owner |-> a, seats |-> 0]]
  BY DEF OpenJoin
<1>2. join[j].step = "idle" /\ UNCHANGED <<account, peak, rows, invites>>
  BY DEF OpenJoin, shownVars
<1>3. a \in Accounts /\ 0 \in 0..MaxSeats
  BY TeamsAssumption DEF SeatInv, SeatType
<1>4. join' \in [Joins -> JoinType]
  BY <1>1, <1>3 DEF JoinType, SeatInv, SeatType
<1>5. \A x \in Accounts : Admitted(x)' = Admitted(x)
  BY <1>1, <1>2 DEF Admitted, SeatInv, SeatType
<1>6. \A i \in Joins : join'[i].step = "count" => join'[i].seats <= peak[join'[i].owner]
  BY <1>1 DEF SeatInv, SeatType
<1> QED
  BY <1>2, <1>4, <1>5, <1>6, SameSeats DEF SeatInv, SeatType

\* A refused request is as if it had never been made.
LEMMA RefuseInv ==
    ASSUME SeatInv, NEW j \in Joins, join[j].step # "insert", Refuse(j),
           UNCHANGED <<account, peak, rows, invites>>
    PROVE  SeatInv'
<1>1. join' = [join EXCEPT ![j] = NoJoin]
  BY DEF Refuse
<1>2. join' \in [Joins -> JoinType]
  BY <1>1 DEF JoinType, SeatInv, SeatType
<1>3. \A x \in Accounts : Admitted(x)' = Admitted(x)
  BY <1>1 DEF Admitted, SeatInv, SeatType, NoJoin
<1>4. \A i \in Joins : join'[i].step = "count" => join'[i].seats <= peak[join'[i].owner]
  BY <1>1 DEF SeatInv, SeatType, NoJoin
<1> QED
  BY <1>2, <1>3, <1>4, SameSeats DEF SeatInv, SeatType

\* What a busy request is.
BusyJoin == [step : {"team", "count", "insert"}, member : Accounts, owner : Accounts,
             seats : 0..MaxSeats]

LEMMA BusyRequest ==
    ASSUME SeatType, NEW j \in Joins, join[j].step # "idle"
    PROVE  join[j] \in BusyJoin /\ join[j].owner \in Accounts
BY DEF SeatType, JoinType, NoJoin, BusyJoin

LEMMA ReadTeamInv == ASSUME SeatInv, NEW j \in Joins, ReadTeam(j) PROVE SeatInv'
<1> DEFINE a == join[j].owner
<1>1. join[j].step = "team" /\ UNCHANGED <<account, peak, rows, invites>>
  BY DEF ReadTeam, shownVars
<1>2. CASE account[a].plan = "team"
  <2>1. join[j] \in BusyJoin /\ a \in Accounts
    BY <1>1, BusyRequest DEF SeatInv
  <2>2. account[a].seats \in 0..MaxSeats /\ account[a].seats <= peak[a]
    BY <2>1 DEF SeatInv, SeatType, RowType
  <2>3. join' = [join EXCEPT ![j] = [@ EXCEPT !.step = "count", !.seats = account[a].seats]]
    BY <1>2 DEF ReadTeam
  <2>4. /\ join'[j] \in BusyJoin /\ join'[j].step = "count"
        /\ join'[j].seats = account[a].seats /\ join'[j].owner = a
        /\ \A i \in Joins : i # j => join'[i] = join[i]
    BY <2>1, <2>2, <2>3 DEF BusyJoin, SeatInv, SeatType
  <2>5. join' \in [Joins -> JoinType]
    BY <2>3, <2>4 DEF BusyJoin, JoinType, SeatInv, SeatType
  <2>6. \A x \in Accounts : Admitted(x)' = Admitted(x)
    BY <1>1, <2>4 DEF Admitted
  <2>7. \A i \in Joins : join'[i].step = "count" => join'[i].seats <= peak[join'[i].owner]
    BY <2>2, <2>4 DEF SeatInv
  <2> QED
    BY <1>1, <2>5, <2>6, <2>7, SameSeats DEF SeatInv, SeatType
<1>3. CASE account[a].plan # "team"
  BY <1>1, <1>3, RefuseInv DEF ReadTeam
<1> QED
  BY <1>2, <1>3

LEMMA CountSeatsInv == ASSUME SeatInv, NEW j \in Joins, CountSeats(j) PROVE SeatInv'
<1>1. join[j].step = "count" /\ UNCHANGED <<account, peak, rows, invites>>
  BY DEF CountSeats, shownVars
<1>0. PICK a \in Accounts : a = join[j].owner
  BY <1>1, BusyRequest DEF SeatInv
<1>2. CASE SeatsUsed(a) < join[j].seats
  <2>1. join[j] \in BusyJoin /\ a \in Accounts
    BY <1>0, <1>1, BusyRequest DEF SeatInv
  <2>2. join' = [join EXCEPT ![j] = [@ EXCEPT !.step = "insert"]]
    BY <1>0, <1>2 DEF CountSeats
  <2>3. /\ join'[j] \in BusyJoin /\ join'[j].step = "insert" /\ join'[j].owner = a
        /\ \A i \in Joins : i # j => join'[i] = join[i]
    BY <1>0, <2>1, <2>2 DEF BusyJoin, SeatInv, SeatType
  <2>4. join' \in [Joins -> JoinType]
    BY <2>2, <2>3 DEF BusyJoin, JoinType, SeatInv, SeatType
  <2>5. \A x \in Accounts : Members(x)' = Members(x)
    BY <1>1 DEF Members
  <2>6. \A x \in Accounts : x # a => Admitted(x)' = Admitted(x)
    BY <1>1, <2>3 DEF Admitted
  <2>7. SeatsTaken(a)' < peak[a] + Cardinality(Joins)
    <3>1. Admitted(a)' \subseteq Joins
      BY DEF Admitted
    <3>2. /\ Cardinality(Admitted(a)') <= Cardinality(Joins)
          /\ Cardinality(Admitted(a)') \in Nat /\ Cardinality(Joins) \in Nat
      BY <3>1, TeamsAssumption, FS_Subset, FS_CardinalityType
    <3>3. Cardinality(Members(a)) \in Nat
      BY <2>1, SeatSets DEF SeatInv
    <3>4. join[j].seats \in Nat /\ peak[a] \in Nat /\ join[j].seats <= peak[a]
      BY <1>0, <1>1, <2>1, TeamsAssumption DEF SeatInv, SeatType, BusyJoin
    <3>5. Cardinality(Members(a)) + 1 < peak[a]
      BY <1>2, <3>3, <3>4 DEF SeatsUsed
    <3>6. SeatsTaken(a)' = Cardinality(Members(a)) + Cardinality(Admitted(a)') + 1
      BY <2>1, <2>5 DEF SeatsTaken
    <3> QED
      BY <3>2, <3>3, <3>4, <3>5, <3>6
  <2>8. \A x \in Accounts : x # a => SeatsTaken(x)' <= SeatsTaken(x)
    <3> SUFFICES ASSUME NEW x \in Accounts, x # a PROVE SeatsTaken(x)' <= SeatsTaken(x)
      OBVIOUS
    <3>1. SeatsTaken(x)' = SeatsTaken(x)
      BY <2>5, <2>6 DEF SeatsTaken
    <3>2. SeatsTaken(x) \in Nat
      BY SeatSets DEF SeatInv, SeatsTaken
    <3> QED
      BY <3>1, <3>2
  <2>9. \A i \in Joins : join'[i].step = "count" => join'[i].seats <= peak[join'[i].owner]
    BY <2>3 DEF SeatInv
  <2>10. \A x \in Accounts : Members(x)' # {} \/ Admitted(x)' # {} =>
           \/ Members(x) # {} \/ Admitted(x) # {}
           \/ SeatsTaken(x)' < peak[x] + Cardinality(Joins)
    BY <2>5, <2>6, <2>7
  <2> QED
    BY <1>1, <2>4, <2>7, <2>8, <2>9, <2>10, SeatStep DEF SeatInv, SeatType
<1>3. CASE ~(SeatsUsed(a) < join[j].seats)
  BY <1>0, <1>1, <1>3, RefuseInv DEF CountSeats
<1> QED
  BY <1>2, <1>3

LEMMA InsertInv == ASSUME SeatInv, NEW j \in Joins, Insert(j) PROVE SeatInv'
<1>0. PICK a \in Accounts, m \in Accounts : a = join[j].owner /\ m = join[j].member
  BY BusyRequest DEF Insert, SeatInv, BusyJoin
<1>1. /\ join[j].step = "insert" /\ UNCHANGED <<account, peak, invites>>
      /\ join' = [join EXCEPT ![j] = NoJoin]
      /\ rows' \in {rows, rows \cup {[member |-> m, owner |-> a]}}
  BY <1>0 DEF Insert, shownVars
<1>2. a \in Accounts /\ m \in Accounts
  BY <1>0
<1>3. rows' \subseteq [member : Accounts, owner : Accounts]
  BY <1>1, <1>2 DEF SeatInv, SeatType
<1>4. join' \in [Joins -> JoinType]
  BY <1>1 DEF JoinType, SeatInv, SeatType
<1>5. \A x \in Accounts : x # a => Members(x)' = Members(x) /\ Admitted(x)' = Admitted(x)
  <2> SUFFICES ASSUME NEW x \in Accounts, x # a
               PROVE  Members(x)' = Members(x) /\ Admitted(x)' = Admitted(x)
    OBVIOUS
  <2>1. Members(x)' = Members(x)
    BY <1>1 DEF Members
  <2>2. \A i \in Joins : i # j => join'[i] = join[i]
    BY <1>1 DEF SeatInv, SeatType
  <2>3. join'[j].step = "idle"
    BY <1>1 DEF NoJoin, SeatInv, SeatType
  <2> QED
    BY <1>0, <2>1, <2>2, <2>3 DEF Admitted
<1>6. /\ Admitted(a)' = Admitted(a) \ {j} /\ j \in Admitted(a)
      /\ Members(a)' \subseteq Members(a) \cup {m}
  <2>1. Admitted(a)' = Admitted(a) \ {j}
    BY <1>1 DEF Admitted, NoJoin, SeatInv, SeatType
  <2>2. j \in Admitted(a)
    BY <1>0, <1>1 DEF Admitted
  <2>3. Members(a)' \subseteq Members(a) \cup {m}
    BY <1>1 DEF Members
  <2> QED
    BY <2>1, <2>2, <2>3
<1>7. SeatsTaken(a)' <= SeatsTaken(a)
  <2>1. /\ IsFiniteSet(Members(a)) /\ Cardinality(Members(a)) \in Nat
        /\ IsFiniteSet(Admitted(a)) /\ Cardinality(Admitted(a)) \in Nat
    BY <1>2, SeatSets DEF SeatInv
  <2>2. Cardinality(Admitted(a)') = Cardinality(Admitted(a)) - 1
    BY <1>6, <2>1, FS_RemoveElement
  <2>3. /\ IsFiniteSet(Members(a) \cup {m})
        /\ Cardinality(Members(a) \cup {m}) <= Cardinality(Members(a)) + 1
        /\ Cardinality(Members(a) \cup {m}) \in Nat
    <3>1. /\ IsFiniteSet(Members(a) \cup {m})
          /\ m \in Members(a) => Members(a) \cup {m} = Members(a)
          /\ m \notin Members(a) => Cardinality(Members(a) \cup {m}) = Cardinality(Members(a)) + 1
      BY <2>1, FS_AddElement
    <3>2. CASE m \in Members(a)
      <4>1. Members(a) \cup {m} = Members(a)
        BY <3>1, <3>2
      <4> QED
        BY <4>1, <2>1
    <3>3. CASE m \notin Members(a)
      <4>1. Cardinality(Members(a) \cup {m}) = Cardinality(Members(a)) + 1
        BY <3>1, <3>3
      <4> QED
        BY <4>1, <2>1, <3>1
    <3> QED
      BY <3>2, <3>3
  <2>4. /\ Cardinality(Members(a)') <= Cardinality(Members(a) \cup {m})
        /\ Cardinality(Members(a)') \in Nat
    BY <1>6, <2>3, FS_Subset, FS_CardinalityType
  <2> QED
    BY <2>1, <2>2, <2>3, <2>4 DEF SeatsTaken
<1>8. \A x \in Accounts : x # a => SeatsTaken(x)' <= SeatsTaken(x)
  <2> SUFFICES ASSUME NEW x \in Accounts, x # a PROVE SeatsTaken(x)' <= SeatsTaken(x)
    OBVIOUS
  <2>1. SeatsTaken(x)' = SeatsTaken(x)
    BY <1>5 DEF SeatsTaken
  <2>2. SeatsTaken(x) \in Nat
    BY SeatSets DEF SeatInv, SeatsTaken
  <2> QED
    BY <2>1, <2>2
<1>9. \A i \in Joins : join'[i].step = "count" => join'[i].seats <= peak[join'[i].owner]
  BY <1>1 DEF SeatInv, SeatType, NoJoin
<1>10. \A x \in Accounts : Members(x)' # {} \/ Admitted(x)' # {} => Members(x) # {} \/ Admitted(x) # {}
  BY <1>5, <1>6
<1> QED
  <2>1. \A x \in Accounts : SeatsTaken(x)' <= SeatsTaken(x)
    BY <1>7, <1>8
  <2>2. invites' \subseteq Accounts
    BY <1>1 DEF SeatInv, SeatType
  <2> QED
    BY <1>1, <1>3, <1>4, <2>1, <2>2, <1>9, <1>10, SeatStep

LEMMA SeatsStep == BillingInv /\ SeatInv /\ [TeamNext]_vars => SeatInv'
<1> SUFFICES ASSUME BillingInv, SeatInv, [TeamNext]_vars PROVE SeatInv'
  OBVIOUS
<1>1. CASE Team
  BY <1>1, InviteInv, RemoveInv, OpenJoinInv, ReadTeamInv, CountSeatsInv, InsertInv DEF Team
<1>2. ASSUME NEW h \in Hooks, Update(h) PROVE SeatInv'
  BY <1>2, UpdateSeats
<1>3. CASE UNCHANGED <<account, peak, teamVars>>
  BY <1>3 DEF teamVars, SeatInv, SeatType, SeatsTaken, Members, Admitted
<1>4. CASE Stripe
  BY <1>4, <1>3 DEF Stripe, Checkout, Subscribe, Change, shownVars
<1>5. ASSUME NEW h \in Hooks, Receive(h) \/ Retrieve(h) \/ RetrieveFails(h) \/ UpdateFails(h) \/ CutOff(h)
      PROVE  SeatInv'
  BY <1>5, <1>3 DEF Receive, Retrieve, RetrieveFails, UpdateFails, CutOff, shownVars
<1>6. CASE UNCHANGED vars
  BY <1>6, <1>3 DEF vars, shownVars
<1> QED
  BY <1>1, <1>2, <1>4, <1>5, <1>6 DEF TeamNext, Webhook

-----------------------------------------------------------------------------
LEMMA RestInit == TeamInit => RestType
BY TeamsAssumption DEF TeamInit, RestType

LEMMA RestStep == BillingInv /\ RestType /\ [TeamNext]_vars => RestType'
<1> SUFFICES ASSUME BillingInv, RestType, [TeamNext]_vars PROVE RestType'
  OBVIOUS
<1>1. ASSUME NEW h \in Hooks,
             Receive(h) \/ Retrieve(h) \/ RetrieveFails(h) \/ UpdateFails(h) \/ CutOff(h)
      PROVE  RestType'
  <2>1. latest' = latest
    BY <1>1 DEF Receive, Retrieve, RetrieveFails, UpdateFails, CutOff, shownVars
  <2>2. faults' \in 0..MaxFaults
    BY <1>1, TeamsAssumption
       DEF Receive, Retrieve, RetrieveFails, UpdateFails, CutOff, Fault, RestType
  <2>3. calm' \in [Accounts -> BOOLEAN]
    BY <1>1 DEF Receive, Retrieve, RetrieveFails, UpdateFails, CutOff, RestType
  <2>4. alone' \subseteq Hooks
    BY <1>1 DEF Receive, Retrieve, RetrieveFails, UpdateFails, CutOff, Acknowledge, RestType
  <2> QED
    BY <2>1, <2>2, <2>3, <2>4 DEF RestType
<1>2. ASSUME NEW h \in Hooks, Update(h) PROVE RestType'
  <2>1. hook[h].event.sub \in Subs /\ hook[h].version \in Nat
    BY <1>2 DEF Update, BillingInv, BillingType, HookType, NoHook, Event
  <2>2. faults' = faults /\ alone' \subseteq Hooks /\ calm' \in [Accounts -> BOOLEAN]
    BY <1>2 DEF Update, Acknowledge, RestType
  <2>3. latest' = [latest EXCEPT ![CustomerOf[hook[h].event.sub]] =
                     <<hook[h].event.sub, hook[h].version>>]
    BY <1>2 DEF Update
  <2> QED
    BY <2>1, <2>2, <2>3 DEF RestType
<1>3. CASE Team
  BY <1>3, TeamLeavesBilling DEF RestType, shownVars
<1>4. CASE Stripe
  BY <1>4 DEF Stripe, Checkout, Subscribe, Change, shownVars, RestType
<1>5. CASE UNCHANGED vars
  BY <1>5 DEF vars, shownVars, RestType
<1> QED
  BY <1>1, <1>2, <1>3, <1>4, <1>5 DEF TeamNext, Webhook

LEMMA TeamInvariant == TeamSpec => []TeamInv
<1>1. TeamInit => TeamInv
  BY BillingInit, SeatInit, RestInit DEF TeamInv
<1>2. TeamInv /\ [TeamNext]_vars => TeamInv'
  BY BillingStep, SeatsStep, RestStep DEF TeamInv
<1> QED
  BY <1>1, <1>2, PTL DEF TeamSpec

(***************************************************************************)
(* Every variable keeps its type, with any bound on seats and versions     *)
(* (the webhook, team-join.js and team-members.js).                        *)
(***************************************************************************)
THEOREM TeamTypeCorrect == TeamSpec => []TeamTypeOK
<1>1. TeamInv => TeamTypeOK
  BY DEF TeamInv, BillingInv, BillingType, HookType, SeatInv, SeatType, JoinType, RowType, RestType,
     TeamTypeOK
<1> QED
  BY <1>1, TeamInvariant, PTL

(***************************************************************************)
(* With any number of webhooks at once, delivered in any order, a look-up  *)
(* that succeeds keeps an older state from being written over a newer one  *)
(* that was there before the webhook began (stripe-webhook.js).            *)
(***************************************************************************)
THEOREM NothingIsUndone == TeamSpec => []FreshWrites
<1>1. TeamInv => FreshWrites
  BY DEF TeamInv, BillingInv
<1> QED
  BY <1>1, TeamInvariant, PTL

(***************************************************************************)
(* A team exceeds the seats its account ever showed by fewer people than   *)
(* there are join requests at once (team-join.js).                         *)
(***************************************************************************)
THEOREM SeatsStayBounded == TeamSpec => []SeatsBounded
<1>1. ASSUME SeatInv PROVE SeatsBounded
  <2> SUFFICES ASSUME NEW a \in Accounts, Members(a) # {}
               PROVE  Cardinality(Members(a)) + 1 < peak[a] + Cardinality(Joins)
    BY DEF SeatsBounded
  <2>1. SeatsTaken(a) < peak[a] + Cardinality(Joins)
    BY <1>1 DEF SeatInv
  <2>2. /\ Cardinality(Members(a)) \in Nat /\ Cardinality(Admitted(a)) \in Nat
        /\ Cardinality(Joins) \in Nat
    BY <1>1, SeatSets DEF SeatInv
  <2>3. peak[a] \in Nat
    BY <1>1, TeamsAssumption DEF SeatInv, SeatType
  <2> QED
    BY <2>1, <2>2, <2>3 DEF SeatsTaken
<1> QED
  BY <1>1, TeamInvariant, PTL DEF TeamInv
-----------------------------------------------------------------------------
(***************************************************************************)
(* What an account shows.  A webhook that is alone shares its account with *)
(* no other (Alone), so that nobody acknowledges the report of a version   *)
(* newer than the one it found (UpToDate); once it has written, that       *)
(* report is what keeps the account from being in step (Reported).         *)
(***************************************************************************)
Owner(h) == CustomerOf[hook[h].event.sub]

Shows(a, s, n) ==
    /\ CustomerOf[s] = a
    /\ InHistory(s, n)
    /\ account[a].status = mapStripeStatus(history[s][n].status)
    /\ account[a].seats = history[s][n].seats
    /\ PlanOf[s] # NoPlan => account[a].plan = PlanOf[s]

Shown == \A a \in Accounts : latest[a] # <<>> => Shows(a, latest[a][1], latest[a][2])

Alone ==
    /\ \A h \in alone : hook[h].step # "idle"
    /\ \A h \in alone, g \in Hooks :
         hook[g].step # "idle" /\ Owner(g) = Owner(h) => g = h

Newest(s) == [sub |-> s, version |-> Len(history[s])]

UpToDate ==
    \A h \in alone :
        hook[h].step = "write" /\ ~hook[h].fellBack =>
            \/ hook[h].version = Len(history[hook[h].event.sub])
            \/ Newest(hook[h].event.sub) \in pending \ {hook[h].event}

Reported ==
    \A a \in Accounts : calm[a] /\ latest[a] # <<>> =>
        latest[a][2] = Len(history[latest[a][1]]) \/ Newest(latest[a][1]) \in pending

SyncInv == Shown /\ Alone /\ UpToDate /\ Reported

LEMMA SyncInit == TeamInit => SyncInv
BY DEF TeamInit, SyncInv, Shown, Alone, UpToDate, Reported

\* What a webhook under way refers to.
LEMMA BusyHook ==
    ASSUME BillingInv, NEW h \in Hooks, hook[h].step # "idle"
    PROVE  /\ hook[h].event \in Event /\ hook[h].event.sub \in Subs
           /\ hook[h].event.version \in Nat
           /\ hook[h].version \in Nat /\ hook[h].floor \in Nat
           /\ Owner(h) \in Accounts
           /\ InHistory(hook[h].event.sub, hook[h].event.version)
           /\ InHistory(hook[h].event.sub, hook[h].version)
           /\ Len(history[hook[h].event.sub]) \in Nat
BY TeamsAssumption, LenProperties
   DEF BillingInv, BillingType, HookType, HookInv, NoHook, Event, Owner

\* What an account shows is named by a version of a subscription.
LEMMA LatestIsVersion ==
    ASSUME RestType, NEW a \in Accounts, latest[a] # <<>>
    PROVE  latest[a][1] \in Subs /\ latest[a][2] \in Nat
BY DEF RestType

LEMMA SyncReport ==
    ASSUME TeamInv, SyncInv, NEW s \in Subs, NEW v \in Version, Report(s, v), ~Canceled(s),
           UNCHANGED <<hook, account, latest, alone, calm>>
    PROVE  SyncInv'
<1>1. /\ history' \in [Subs -> Seq(Version)]
      /\ \A t \in Subs : t # s => history'[t] = history[t]
      /\ Len(history'[s]) = Len(history[s]) + 1
      /\ \A n \in 1..Len(history[s]) : history'[s][n] = history[s][n]
      /\ \A t \in Subs : Len(history[t]) \in Nat /\ Len(history[t]) <= Len(history'[t])
  BY ReportFacts, LenProperties DEF TeamInv, BillingInv, BillingType
<1>2. \A t \in Subs : \A n \in 1..Len(history[t]) :
        InHistory(t, n)' /\ history'[t][n] = history[t][n]
  <2> SUFFICES ASSUME NEW t \in Subs, NEW n \in 1..Len(history[t])
               PROVE  n \in 1..Len(history'[t]) /\ history'[t][n] = history[t][n]
    BY DEF InHistory
  <2>1. Len(history'[t]) \in Nat /\ Len(history[t]) \in Nat
    BY <1>1, LenProperties
  <2>2. n \in 1..Len(history'[t])
    BY <1>1, <2>1
  <2> QED
    BY <1>1, <2>2
<1>3. Shown'
  <2> SUFFICES ASSUME NEW a \in Accounts, latest[a] # <<>>
               PROVE  Shows(a, latest[a][1], latest[a][2])'
    BY DEF Shown
  <2>1. latest[a][1] \in Subs /\ latest[a][2] \in 1..Len(history[latest[a][1]])
    BY LatestIsVersion DEF TeamInv, SyncInv, Shown, Shows, InHistory
  <2>2. Shows(a, latest[a][1], latest[a][2])
    BY DEF SyncInv, Shown
  <2> QED
    BY <1>2, <2>1, <2>2 DEF Shows
<1>4. Alone'
  BY DEF SyncInv, Alone, Owner
<1>5. /\ pending' = pending \cup {[sub |-> s, version |-> Len(history[s]) + 1]}
      /\ \A t \in Subs : t # s => Newest(t)' = Newest(t)
      /\ Newest(s)' = [sub |-> s, version |-> Len(history[s]) + 1] /\ Newest(s)' \in pending'
  BY <1>1 DEF Newest, Report
<1>6. UpToDate'
  <2> SUFFICES ASSUME NEW h \in alone, hook[h].step = "write", ~hook[h].fellBack,
                      NEW t \in Subs, t = hook[h].event.sub
               PROVE  \/ hook[h].version = Len(history'[t])
                      \/ Newest(t)' \in pending' \ {hook[h].event}
    BY BusyHook DEF UpToDate, Newest, TeamInv, RestType
  <2>1. hook[h].event.version \in 1..Len(history[t])
    BY BusyHook DEF TeamInv, RestType, InHistory
  <2>2. CASE t = s
    <3>1. hook[h].event # Newest(s)'
      BY <1>1, <1>5, <2>1, <2>2
    <3> QED
      BY <1>5, <2>2, <3>1
  <2>3. CASE t # s
    <3>1. \/ hook[h].version = Len(history[t])
          \/ Newest(t) \in pending \ {hook[h].event}
      BY DEF SyncInv, UpToDate
    <3> QED
      BY <1>1, <1>5, <2>3, <3>1
  <2> QED
    BY <2>2, <2>3
<1>7. Reported'
  <2> SUFFICES ASSUME NEW a \in Accounts, calm[a], latest[a] # <<>>,
                      NEW t \in Subs, t = latest[a][1]
               PROVE  latest[a][2] = Len(history'[t]) \/ Newest(t)' \in pending'
    BY LatestIsVersion DEF Reported, Newest, TeamInv
  <2>1. latest[a][2] = Len(history[t]) \/ Newest(t) \in pending
    BY DEF SyncInv, Reported
  <2> QED
    BY <1>1, <1>5, <2>1
<1> QED
  BY <1>3, <1>4, <1>6, <1>7 DEF SyncInv

LEMMA SyncReceive == ASSUME TeamInv, SyncInv, NEW h \in Hooks, Receive(h) PROVE SyncInv'
<1>0. hook \in [Hooks -> HookType] /\ alone \subseteq Hooks
  BY DEF TeamInv, BillingInv, BillingType, RestType
<1>1. PICK e \in pending :
        /\ hook' = [hook EXCEPT ![h] =
             [step |-> IF Terminal(e) THEN "write" ELSE "retrieve", event |-> e,
              version |-> e.version, floor |-> written[e.sub], fellBack |-> FALSE]]
        /\ alone' = IF Of(CustomerOf[e.sub]) = {} THEN alone \cup {h}
                    ELSE alone \ Of(CustomerOf[e.sub])
  BY DEF Receive
<1>2. UNCHANGED <<history, pending, account, latest, calm>> /\ hook[h].step = "idle"
  BY DEF Receive, stripeVars, shownVars
<1>3. /\ e \in Event /\ e.sub \in Subs /\ CustomerOf[e.sub] \in Accounts
      /\ e.version \in 1..Len(history[e.sub])
  BY TeamsAssumption DEF Event, TeamInv, BillingInv, BillingType, StripeInv, InHistory
<1>4. /\ hook'[h].step = (IF Terminal(e) THEN "write" ELSE "retrieve")
      /\ hook'[h].step # "idle" /\ hook'[h].event = e /\ hook'[h].version = e.version
      /\ \A g \in Hooks : g # h => hook'[g] = hook[g]
  BY <1>0, <1>1
<1>5. /\ Owner(h)' = CustomerOf[e.sub]
      /\ \A g \in Hooks : g # h => Owner(g)' = Owner(g)
  BY <1>4 DEF Owner
<1>6. h \notin alone
  BY <1>2 DEF SyncInv, Alone
<1>7. Shown' /\ Reported'
  BY <1>2 DEF SyncInv, Shown, Shows, InHistory, Reported, Newest
<1>8. Alone'
  <2>1. \A g \in alone' : hook'[g].step # "idle"
    BY <1>0, <1>1, <1>4 DEF SyncInv, Alone
  <2>2. ASSUME NEW f \in alone', NEW g \in Hooks, hook'[g].step # "idle", Owner(g)' = Owner(f)'
        PROVE  g = f
    <3>1. CASE f = h
      <4>1. Of(CustomerOf[e.sub]) = {}
        BY <1>1, <1>6, <3>1
      <4> QED
        BY <1>4, <1>5, <2>2, <3>1, <4>1 DEF Of, Owner
    <3>2. CASE f # h
      <4>1. f \in alone /\ f \in Hooks /\ hook[f].step # "idle"
        BY <1>0, <1>1, <3>2 DEF SyncInv, Alone
      <4>2. CASE g # h
        BY <1>4, <1>5, <2>2, <3>2, <4>1, <4>2 DEF SyncInv, Alone
      <4>3. CASE g = h
        <5>1. Owner(f) = CustomerOf[e.sub]
          BY <1>5, <2>2, <3>2, <4>1, <4>3
        <5>2. f \in Of(CustomerOf[e.sub])
          BY <4>1, <5>1 DEF Of, Owner
        <5> QED
          BY <1>1, <5>2
      <4> QED
        BY <4>2, <4>3
    <3> QED
      BY <3>1, <3>2
  <2> QED
    BY <2>1, <2>2 DEF Alone
<1>9. UpToDate'
  <2> SUFFICES ASSUME NEW g \in alone', hook'[g].step = "write", ~hook'[g].fellBack
               PROVE  \/ hook'[g].version = Len(history[hook'[g].event.sub])
                      \/ Newest(hook'[g].event.sub) \in pending \ {hook'[g].event}
    BY <1>2 DEF UpToDate, Newest
  <2>1. CASE g = h
    <3>1. history[e.sub][e.version].status = "canceled"
      BY <1>4, <2>1 DEF Terminal
    <3>2. e.version = Len(history[e.sub])
      BY <1>3, <3>1 DEF TeamInv, BillingInv, StripeInv
    <3> QED
      BY <1>4, <2>1, <3>2
  <2>2. CASE g # h
    BY <1>0, <1>1, <1>4, <2>2 DEF SyncInv, UpToDate
  <2> QED
    BY <2>1, <2>2
<1> QED
  BY <1>7, <1>8, <1>9 DEF SyncInv

LEMMA SyncRetrieve ==
    ASSUME TeamInv, SyncInv, NEW h \in Hooks, Retrieve(h) \/ RetrieveFails(h)
    PROVE  SyncInv'
<1>0. hook \in [Hooks -> HookType] /\ alone \subseteq Hooks
  BY DEF TeamInv, BillingInv, BillingType, RestType
<1>1. UNCHANGED <<history, pending, account, latest, alone, calm>>
  BY DEF Retrieve, RetrieveFails, stripeVars, shownVars
<1>2. hook[h].step = "retrieve"
  BY DEF Retrieve, RetrieveFails
<1>3. hook[h] \in [step : {"retrieve", "write"}, event : Event, version : Nat,
                   floor : Nat, fellBack : BOOLEAN]
  BY <1>0, <1>2 DEF HookType, NoHook
<1>4. /\ hook'[h].step # "idle" /\ hook'[h].event = hook[h].event
      /\ ~hook'[h].fellBack => hook'[h].version = Len(history[hook[h].event.sub])
  <2>1. CASE Retrieve(h)
    <3>1. hook' = [hook EXCEPT ![h] =
            [@ EXCEPT !.step = "write", !.version = Len(history[hook[h].event.sub])]]
      BY <2>1 DEF Retrieve, Current
    <3>2. hook'[h] = [hook[h] EXCEPT !.step = "write",
                                     !.version = Len(history[hook[h].event.sub])]
      BY <3>1, <1>0
    <3> QED
      BY <3>2, <1>3
  <2>2. CASE RetrieveFails(h)
    <3>1. hook' = [hook EXCEPT ![h] = [@ EXCEPT !.step = "write", !.fellBack = TRUE]]
      BY <2>2 DEF RetrieveFails
    <3>2. hook'[h] = [hook[h] EXCEPT !.step = "write", !.fellBack = TRUE]
      BY <3>1, <1>0
    <3> QED
      BY <3>2, <1>3
  <2> QED
    BY <2>1, <2>2
<1>5. \A g \in Hooks : g # h => hook'[g] = hook[g]
  BY <1>0 DEF Retrieve, RetrieveFails
<1>6. \A g \in Hooks : (hook'[g].step # "idle" <=> hook[g].step # "idle") /\ Owner(g)' = Owner(g)
  BY <1>2, <1>4, <1>5 DEF Owner
<1>7. Shown' /\ Reported'
  BY <1>1 DEF SyncInv, Shown, Shows, InHistory, Reported, Newest
<1>8. Alone'
  BY <1>0, <1>1, <1>6 DEF SyncInv, Alone
<1>9. UpToDate'
  BY <1>0, <1>1, <1>4, <1>5 DEF SyncInv, UpToDate, Newest
<1> QED
  BY <1>7, <1>8, <1>9 DEF SyncInv

\* An acknowledgement takes no report from the webhook of another account.
LEMMA SyncAcknowledge ==
    ASSUME TeamInv, SyncInv, NEW h \in Hooks, hook[h].step # "idle", Acknowledge(h),
           UNCHANGED history
    PROVE  Alone' /\ UpToDate'
<1>0. hook \in [Hooks -> HookType] /\ alone \subseteq Hooks
  BY DEF TeamInv, BillingInv, BillingType, RestType
<1>1. /\ alone' = alone \ {h} /\ pending' = pending \ {hook[h].event}
      /\ hook'[h].step = "idle" /\ \A g \in Hooks : g # h => hook'[g] = hook[g]
  BY <1>0 DEF Acknowledge, NoHook
<1>2. \A g \in Hooks : g # h => Owner(g)' = Owner(g)
  BY <1>1 DEF Owner
<1>3. Alone'
  BY <1>0, <1>1, <1>2 DEF SyncInv, Alone
<1>4. ASSUME NEW g \in alone', hook'[g].step = "write", ~hook'[g].fellBack
      PROVE  \/ hook'[g].version = Len(history[hook'[g].event.sub])
             \/ Newest(hook'[g].event.sub) \in pending' \ {hook'[g].event}
  <2>1. g \in alone /\ g \in Hooks /\ g # h /\ hook'[g] = hook[g]
    BY <1>0, <1>1
  <2>2. \/ hook[g].version = Len(history[hook[g].event.sub])
        \/ Newest(hook[g].event.sub) \in pending \ {hook[g].event}
    BY <1>4, <2>1 DEF SyncInv, UpToDate
  <2>3. hook[h].event.sub # hook[g].event.sub
    BY <2>1 DEF SyncInv, Alone, Owner
  <2>4. hook[h].event # Newest(hook[g].event.sub)
    BY <2>3 DEF Newest
  <2> QED
    BY <1>1, <2>1, <2>2, <2>4
<1> QED
  BY <1>3, <1>4 DEF UpToDate, Newest

\* What is said of an account whose webhook is not the one that ends.
LEMMA ReportedElsewhere ==
    ASSUME TeamInv, SyncInv, NEW h \in Hooks, hook[h].step # "idle", UNCHANGED history,
           pending' = pending \ {hook[h].event}, NEW a \in Accounts, a # Owner(h),
           calm[a], latest[a] # <<>>
    PROVE  latest[a][2] = Len(history[latest[a][1]]) \/ Newest(latest[a][1]) \in pending'
<1>1. CustomerOf[latest[a][1]] = a
  BY DEF SyncInv, Shown, Shows
<1>2. hook[h].event # Newest(latest[a][1])
  BY <1>1 DEF Newest, Owner
<1> QED
  BY <1>2 DEF SyncInv, Reported

LEMMA SyncUpdate == ASSUME TeamInv, SyncInv, NEW h \in Hooks, Update(h) PROVE SyncInv'
<1>0. /\ hook \in [Hooks -> HookType] /\ account \in [Accounts -> RowType]
      /\ latest \in [Accounts -> {<<>>} \cup (Subs \X Nat)] /\ calm \in [Accounts -> BOOLEAN]
  BY DEF TeamInv, BillingInv, BillingType, SeatInv, SeatType, RestType
<1>1. PICK s \in Subs, n \in Nat, a \in Accounts :
        s = hook[h].event.sub /\ n = hook[h].version /\ a = CustomerOf[s]
  BY BusyHook DEF Update, TeamInv, Owner
<1>2. /\ hook[h].step = "write"
      /\ account' = [account EXCEPT ![a] = Synced(@, s, history[s][n])]
      /\ pending' = pending \ {hook[h].event}
      /\ latest' = [latest EXCEPT ![a] = <<s, n>>]
      /\ calm' = [calm EXCEPT ![a] = h \in alone /\ ~hook[h].fellBack]
      /\ history' = history
  BY <1>1 DEF Update, Acknowledge, stripeVars
<1>3. Owner(h) = a /\ InHistory(s, n)
  BY <1>1, <1>2, BusyHook DEF TeamInv, Owner
<1>4. latest'[a] = <<s, n>> /\ \A x \in Accounts : x # a => latest'[x] = latest[x]
  BY <1>0, <1>2
<1>5. Shown'
  <2> SUFFICES ASSUME NEW x \in Accounts, latest'[x] # <<>>
               PROVE  Shows(x, latest[x][1], latest[x][2])'
    BY DEF Shown
  <2>1. CASE x = a
    <3>1. account'[a] = Synced(account[a], s, history[s][n])
      BY <1>0, <1>2
    <3>2. /\ account'[a].status = mapStripeStatus(history[s][n].status)
          /\ account'[a].seats = history[s][n].seats
          /\ PlanOf[s] # NoPlan => account'[a].plan = PlanOf[s]
      BY <3>1 DEF Synced
    <3>3. Shows(a, s, n)'
      BY <3>2, <1>1, <1>2, <1>3 DEF Shows, InHistory
    <3> QED
      BY <2>1, <1>4, <3>3
  <2>2. CASE x # a
    <3>1. latest'[x] = latest[x] /\ account'[x] = account[x]
      BY <2>2, <1>0, <1>2
    <3> QED
      BY <3>1, <1>2 DEF SyncInv, Shown, Shows, InHistory
  <2> QED
    BY <2>1, <2>2
<1>6. Alone' /\ UpToDate'
  BY <1>2, SyncAcknowledge DEF Update
<1>7. Reported'
  <2> SUFFICES ASSUME NEW x \in Accounts, calm'[x], latest'[x] # <<>>
               PROVE  \/ latest'[x][2] = Len(history[latest'[x][1]])
                      \/ Newest(latest'[x][1]) \in pending'
    BY <1>2 DEF Reported, Newest
  <2>1. CASE x = a
    <3>1. h \in alone /\ ~hook[h].fellBack
      BY <2>1, <1>0, <1>2
    <3>2. n = Len(history[s]) \/ Newest(s) \in pending \ {hook[h].event}
      BY <3>1, <1>1, <1>2 DEF SyncInv, UpToDate
    <3> QED
      BY <2>1, <3>2, <1>2, <1>4
  <2>2. CASE x # a
    <3>1. calm[x] /\ latest[x] # <<>> /\ latest'[x] = latest[x]
      BY <2>2, <1>0, <1>2, <1>4
    <3> QED
      BY <2>2, <3>1, <1>2, <1>3, ReportedElsewhere
  <2> QED
    BY <2>1, <2>2
<1> QED
  BY <1>5, <1>6, <1>7 DEF SyncInv

\* A webhook that is cut off is delivered again, one that fails ends the calm.
LEMMA SyncDropped ==
    ASSUME TeamInv, SyncInv, NEW h \in Hooks, UpdateFails(h) \/ CutOff(h)
    PROVE  SyncInv'
<1>0. hook \in [Hooks -> HookType] /\ calm \in [Accounts -> BOOLEAN] /\ alone \subseteq Hooks
  BY DEF TeamInv, BillingInv, BillingType, RestType
<1>1. UNCHANGED <<history, account, latest>> /\ hook[h].step # "idle"
  BY DEF UpdateFails, CutOff, stripeVars, shownVars
<1>2. Owner(h) \in Accounts
  BY <1>1, BusyHook DEF TeamInv
<1>3. Shown'
  BY <1>1 DEF SyncInv, Shown, Shows, InHistory
<1>4. CASE UpdateFails(h)
  <2>1. Alone' /\ UpToDate'
    BY <1>1, <1>4, SyncAcknowledge DEF UpdateFails
  <2>2. Reported'
    <3> SUFFICES ASSUME NEW a \in Accounts, calm'[a], latest[a] # <<>>
                 PROVE  latest[a][2] = Len(history[latest[a][1]]) \/ Newest(latest[a][1]) \in pending'
      BY <1>1 DEF Reported, Newest
    <3>1. a # Owner(h) /\ calm[a]
      BY <1>0, <1>2, <1>4 DEF UpdateFails, Owner
    <3> QED
      BY <3>1, <1>1, <1>4, ReportedElsewhere DEF UpdateFails, Acknowledge
  <2> QED
    BY <1>3, <2>1, <2>2 DEF SyncInv
<1>5. CASE CutOff(h)
  <2>1. /\ UNCHANGED <<pending, calm>> /\ alone' = alone \ {h}
        /\ hook'[h].step = "idle" /\ \A g \in Hooks : g # h => hook'[g] = hook[g]
    BY <1>0, <1>5 DEF CutOff, NoHook
  <2>2. \A g \in Hooks : g # h => Owner(g)' = Owner(g)
    BY <2>1 DEF Owner
  <2>3. Alone'
    BY <1>0, <2>1, <2>2 DEF SyncInv, Alone
  <2>4. UpToDate' /\ Reported'
    BY <1>0, <1>1, <2>1 DEF SyncInv, UpToDate, Reported, Newest
  <2> QED
    BY <1>3, <2>3, <2>4 DEF SyncInv
<1> QED
  BY <1>4, <1>5

LEMMA SyncUnchanged ==
    ASSUME SyncInv, UNCHANGED <<history, pending, hook, account, latest, alone, calm>>
    PROVE  SyncInv'
BY DEF SyncInv, Shown, Shows, InHistory, Alone, Owner, UpToDate, Reported, Newest

LEMMA SyncStripe ==
    ASSUME TeamInv, SyncInv, NEW s \in Subs, Checkout(s) \/ Subscribe(s) \/ Change(s)
    PROVE  SyncInv'
<1>1. CASE Checkout(s)
  BY <1>1, SyncUnchanged DEF Checkout, shownVars
<1>2. CASE Subscribe(s)
  <2>1. history[s] = <<>>
    BY <1>2 DEF Subscribe, Dashboard, TeamInv, BillingInv, StripeInv
  <2>2. PICK n \in SeatsOf(s, 2) : Report(s, [status |-> "active", seats |-> n])
    BY <1>2 DEF Subscribe
  <2>3. [status |-> "active", seats |-> n] \in Version
    BY <2>2, TeamsAssumption DEF Version, SeatsOf
  <2> QED
    BY <1>2, <2>1, <2>2, <2>3, SyncReport DEF Subscribe, Canceled, shownVars
<1>3. CASE Change(s)
  <2>1. PICK v \in [status : {"active", "unpaid", "canceled"}, seats : SeatsOf(s, 1)] : Report(s, v)
    BY <1>3 DEF Change
  <2>2. v \in Version
    BY <2>1, TeamsAssumption DEF Version, SeatsOf
  <2> QED
    BY <1>3, <2>1, <2>2, SyncReport DEF Change, shownVars
<1> QED
  BY <1>1, <1>2, <1>3

LEMMA SyncStep == TeamInv /\ SyncInv /\ [TeamNext]_vars => SyncInv'
<1> SUFFICES ASSUME TeamInv, SyncInv, [TeamNext]_vars PROVE SyncInv'
  OBVIOUS
<1>1. CASE Stripe
  BY <1>1, SyncStripe DEF Stripe
<1>2. CASE Webhook
  BY <1>2, SyncReceive, SyncRetrieve, SyncUpdate, SyncDropped DEF Webhook
<1>3. CASE Team
  BY <1>3, TeamLeavesBilling, SyncUnchanged DEF stripeVars, shownVars
<1>4. CASE UNCHANGED vars
  BY <1>4, SyncUnchanged DEF vars, stripeVars, shownVars
<1> QED
  BY <1>1, <1>2, <1>3, <1>4 DEF TeamNext

(***************************************************************************)
(* With any number of subscriptions and webhooks, in any order: once a     *)
(* webhook that was alone wrote, whatever failed or overlapped before, the *)
(* account shows the newest state of its subscription as soon as Stripe    *)
(* has nothing more to report of the account, until a write fails or one   *)
(* that was not alone is made (stripe-webhook.js).                         *)
(***************************************************************************)
THEOREM AccountsFollowStripe == TeamSpec => []InSync
<1>1. ASSUME TeamInv, SyncInv PROVE InSync
  <2> SUFFICES ASSUME NEW a \in Accounts, calm[a], latest[a] # <<>>,
                      \A e \in pending : CustomerOf[e.sub] # a
               PROVE  InStep(a)
    BY DEF InSync
  <2>1. PICK s \in Subs, n \in Nat : s = latest[a][1] /\ n = latest[a][2]
    BY <1>1, LatestIsVersion DEF TeamInv
  <2>2. Shows(a, s, n)
    BY <1>1, <2>1 DEF SyncInv, Shown
  <2>3. Newest(s) \notin pending
    BY <2>2 DEF Shows, Newest
  <2>4. n = Len(history[s])
    BY <1>1, <2>1, <2>3 DEF SyncInv, Reported
  <2> QED
    BY <2>1, <2>2, <2>4 DEF InStep, Shows
<1>2. TeamInit => SyncInv
  BY SyncInit
<1>3. TeamInv /\ TeamInv' /\ SyncInv /\ [TeamNext]_vars => SyncInv'
  BY SyncStep
<1> QED
  BY <1>1, <1>2, <1>3, TeamInvariant, PTL DEF TeamSpec
=============================================================================

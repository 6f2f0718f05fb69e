------------------------------- MODULE Teams -------------------------------
(***************************************************************************)
(* Subscriptions and team seats of grit-taskboard accounts.  Stripe keeps  *)
(* the subscriptions and reports every change by a webhook that may arrive *)
(* late, out of order or twice; the account shows what the webhook wrote   *)
(* last, and invitations are redeemed against the seats it shows.          *)
(*                                                                         *)
(* No handler opens a transaction: every SQL statement and every call of   *)
(* Stripe is a step of its own, except reads of one account that only its  *)
(* own requests change.  Roles are left out: getMembership returns         *)
(* org_owner_cuid where its callers read orgOwnerCuid, so that only an     *)
(* owner ever invites or removes anybody.  An account has its Stripe       *)
(* customer from the start.                                                *)
(***************************************************************************)
EXTENDS Naturals, FiniteSets, Sequences

CONSTANTS
    Accounts,
    Subs,       \* subscriptions Stripe may create
    CustomerOf, \* the account a subscription bills
    PlanOf,     \* metadata.plan, NoPlan for one made in the dashboard
    NoPlan,
    Hooks,      \* webhook handlers that run at once
    Joins,      \* POST /api/team-join requests that run at once
    MaxSeats,   \* bound: seats of a subscription
    MaxChanges, \* bound: versions of a subscription
    MaxFaults   \* look-ups and updates that fail, handlers cut off

ASSUME TeamsAssumption ==
    /\ IsFiniteSet(Accounts) /\ IsFiniteSet(Joins)
    /\ CustomerOf \in [Subs -> Accounts]
    /\ PlanOf \in [Subs -> {"basic", "pro", "team", NoPlan}]
    /\ MaxSeats \in Nat /\ MaxChanges \in [Subs -> Nat] /\ MaxFaults \in Nat

VARIABLES
    checkouts, \* Checkout Sessions a customer may still pay
    history,   \* Stripe: the states a subscription went through, the newest last
    pending,   \* Stripe: changes whose webhook was not acknowledged
    hook,      \* POST /api/stripe-webhook
    account,   \* users: plan, subscription_status, team_seats
    rows,      \* team_members
    invites,   \* owners who gave out an invitation link; nobody need redeem it before it expires
    join,      \* POST /api/team-join
    faults,
    written,   \* history: the newest version of a subscription that was written
    latest,    \* history: the version an account shows
    alone,     \* history: webhooks that had the account for themselves so far
    calm,      \* history: the account was written last by a webhook that was alone
               \* and whose look-up succeeded, and no write failed since
    peak       \* history: the most seats an account ever showed

stripeVars == <<checkouts, history>>
shownVars == <<account, written, latest, peak>>
teamVars == <<rows, invites, join>>
vars == <<stripeVars, pending, hook, shownVars, teamVars, faults, alone, calm>>

Plans == {"basic", "pro", "team"}
Version == [status : {"active", "unpaid", "canceled"}, seats : 0..MaxSeats]
Event == [sub : Subs, version : Nat]
Members(a) == {r.member : r \in {q \in rows : q.owner = a}}
IsMember(a) == \E r \in rows : r.member = a
Canceled(s) == history[s] # <<>> /\ history[s][Len(history[s])].status = "canceled"

NoHook == [step |-> "idle"]
NoJoin == [step |-> "idle"]

TeamTypeOK ==
    /\ checkouts \subseteq Subs
    /\ history \in [Subs -> Seq(Version)]
    /\ pending \subseteq Event
    /\ hook \in [Hooks -> {NoHook} \cup
         [step : {"retrieve", "write"}, event : Event, version : Nat,
          floor : Nat, fellBack : BOOLEAN]]
    /\ account \in [Accounts -> [plan : Plans, status : {"active", "past_due", "canceled"},
                                 seats : 0..MaxSeats]]
    /\ rows \subseteq [member : Accounts, owner : Accounts]
    /\ invites \subseteq Accounts
    /\ join \in [Joins -> {NoJoin} \cup
         [step : {"team", "count", "insert"}, member : Accounts, owner : Accounts, seats : 0..MaxSeats]]
    /\ faults \in 0..MaxFaults
    /\ written \in [Subs -> Nat]
    /\ latest \in [Accounts -> {<<>>} \cup (Subs \X Nat)]
    /\ alone \subseteq Hooks
    /\ calm \in [Accounts -> BOOLEAN]
    /\ peak \in [Accounts -> 0..MaxSeats]

TeamInit ==
    /\ checkouts = {}
    /\ history = [s \in Subs |-> <<>>]
    /\ pending = {}
    /\ hook = [h \in Hooks |-> NoHook]
    /\ account = [a \in Accounts |-> [plan |-> "basic", status |-> "active", seats |-> 0]]
    /\ rows = {}
    /\ invites = {}
    /\ join = [j \in Joins |-> NoJoin]
    /\ faults = 0
    /\ written = [s \in Subs |-> 0]
    /\ latest = [a \in Accounts |-> <<>>]
    /\ alone = {}
    /\ calm = [a \in Accounts |-> TRUE]
    /\ peak = [a \in Accounts |-> 0]

Fault == faults < MaxFaults /\ faults' = faults + 1

-----------------------------------------------------------------------------
\* api/billing-checkout.js, api/billing-portal.js, and Stripe behind them

Checkout(s) ==
    /\ ~IsMember(CustomerOf[s])
    /\ history[s] = <<>>
    /\ PlanOf[s] # NoPlan
    /\ s \notin checkouts
    /\ checkouts' = checkouts \cup {s}
    /\ UNCHANGED <<history, pending, hook, shownVars, teamVars, faults, alone, calm>>

\* MIN_TEAM_SEATS at checkout; the portal and the dashboard know no minimum
SeatsOf(s, least) == IF PlanOf[s] = "team" THEN least..MaxSeats ELSE {1} \cap 0..MaxSeats

Dashboard == {s \in Subs : PlanOf[s] = NoPlan /\ history[s] = <<>>}

Report(s, v) ==
    /\ Len(history[s]) < MaxChanges[s]
    /\ history' = [history EXCEPT ![s] = Append(@, v)]
    /\ pending' = pending \cup {[sub |-> s, version |-> Len(history[s]) + 1]}

Subscribe(s) ==
    /\ s \in checkouts \cup Dashboard
    /\ checkouts' = checkouts \ {s}
    /\ \E n \in SeatsOf(s, 2) : Report(s, [status |-> "active", seats |-> n])
    /\ UNCHANGED <<hook, shownVars, teamVars, faults, alone, calm>>

Change(s) ==
    /\ history[s] # <<>>
    /\ ~Canceled(s)
    /\ \E v \in [status : {"active", "unpaid", "canceled"}, seats : SeatsOf(s, 1)] :
           v # history[s][Len(history[s])] /\ Report(s, v)
    /\ UNCHANGED <<checkouts, hook, shownVars, teamVars, faults, alone, calm>>

-----------------------------------------------------------------------------
\* api/stripe-webhook.js

\* mutant: Stripe's status is stored as it is
SameStatus(status) == status

mapStripeStatus(status) ==
    IF status = "active" THEN "active" ELSE IF status = "unpaid" THEN "past_due" ELSE "canceled"

Of(a) == {h \in Hooks : hook[h].step # "idle" /\ CustomerOf[hook[h].event.sub] = a}

Terminal(e) == history[e.sub][e.version].status = "canceled"

Receive(h) ==
    /\ hook[h].step = "idle"
    /\ \E e \in pending :
        LET a == CustomerOf[e.sub] IN
        /\ hook' = [hook EXCEPT ![h] =
             [step |-> IF Terminal(e) THEN "write" ELSE "retrieve", event |-> e,
              version |-> e.version, floor |-> written[e.sub], fellBack |-> FALSE]]
        /\ alone' = IF Of(a) = {} THEN alone \cup {h} ELSE alone \ Of(a)
    /\ UNCHANGED <<stripeVars, pending, shownVars, teamVars, faults, calm>>

\* mutant: the content of the event is taken for Stripe's current state
Payload(e) == e.version

Current(e) == Len(history[e.sub])

Retrieve(h) ==
    /\ hook[h].step = "retrieve"
    /\ hook' = [hook EXCEPT ![h].step = "write", ![h].version = Current(hook[h].event)]
    /\ UNCHANGED <<stripeVars, pending, shownVars, teamVars, faults, alone, calm>>

RetrieveFails(h) ==
    /\ Fault
    /\ hook[h].step = "retrieve"
    /\ hook' = [hook EXCEPT ![h].step = "write", ![h].fellBack = TRUE]
    /\ UNCHANGED <<stripeVars, pending, shownVars, teamVars, alone, calm>>

Acknowledge(h) ==
    /\ pending' = pending \ {hook[h].event}
    /\ hook' = [hook EXCEPT ![h] = NoHook]
    /\ alone' = alone \ {h}

Larger(m, n) == IF m < n THEN n ELSE m

\* mutant: without a plan the seats stay, too
PlanWithSeats(row, s, v) ==
    [plan |-> IF PlanOf[s] = NoPlan THEN row.plan ELSE PlanOf[s],
     status |-> mapStripeStatus(v.status),
     seats |-> IF PlanOf[s] = NoPlan THEN row.seats ELSE v.seats]

Synced(row, s, v) ==
    [plan |-> IF PlanOf[s] = NoPlan THEN row.plan ELSE PlanOf[s],
     status |-> mapStripeStatus(v.status), seats |-> v.seats]

Update(h) ==
    LET s == hook[h].event.sub
        n == hook[h].version
        a == CustomerOf[s]
        v == history[s][n]
    IN  /\ hook[h].step = "write"
        /\ account' = [account EXCEPT ![a] = Synced(@, s, v)]
        /\ Acknowledge(h)
        /\ written' = [written EXCEPT ![s] = Larger(@, n)]
        /\ latest' = [latest EXCEPT ![a] = <<s, n>>]
        /\ peak' = [peak EXCEPT ![a] = Larger(@, v.seats)]
        /\ calm' = [calm EXCEPT ![a] = h \in alone /\ ~hook[h].fellBack]
        /\ UNCHANGED <<stripeVars, teamVars, faults>>

\* the failure is logged and acknowledged
UpdateFails(h) ==
    /\ Fault
    /\ hook[h].step = "write"
    /\ Acknowledge(h)
    /\ calm' = [calm EXCEPT ![CustomerOf[hook[h].event.sub]] = FALSE]
    /\ UNCHANGED <<stripeVars, shownVars, teamVars>>

CutOff(h) ==
    /\ Fault
    /\ hook[h].step # "idle"
    /\ hook' = [hook EXCEPT ![h] = NoHook]
    /\ alone' = alone \ {h}
    /\ UNCHANGED <<stripeVars, pending, shownVars, teamVars, calm>>

-----------------------------------------------------------------------------
\* api/team-invite.js, api/team-join.js, api/team-members.js

\* mutant: the owner takes no seat
SeatsInvited(a) == Cardinality(Members(a))

SeatsUsed(a) == Cardinality(Members(a)) + 1

Invite(a) ==
    /\ ~IsMember(a)
    /\ account[a].plan = "team"
    /\ SeatsUsed(a) < account[a].seats
    /\ invites' = invites \cup {a}
    /\ UNCHANGED <<stripeVars, pending, hook, shownVars, rows, join, faults, alone, calm>>

\* what the caller itself is: a member, an owner
OpenJoin(j) ==
    /\ join[j].step = "idle"
    /\ \E m \in Accounts, a \in invites :
        /\ m # a
        /\ ~IsMember(m)
        /\ account[m].plan # "team"
        /\ join' = [join EXCEPT ![j] = [step |-> "team", member |-> m, owner |-> a, seats |-> 0]]
    /\ UNCHANGED <<stripeVars, pending, hook, shownVars, rows, invites, faults, alone, calm>>

Refuse(j) == join' = [join EXCEPT ![j] = NoJoin]

ReadTeam(j) ==
    LET a == join[j].owner IN
    /\ join[j].step = "team"
    /\ IF account[a].plan = "team"
       THEN join' = [join EXCEPT ![j].step = "count", ![j].seats = account[a].seats]
       ELSE Refuse(j)
    /\ UNCHANGED <<stripeVars, pending, hook, shownVars, rows, invites, faults, alone, calm>>

CountSeats(j) ==
    /\ join[j].step = "count"
    /\ IF SeatsUsed(join[j].owner) < join[j].seats
       THEN join' = [join EXCEPT ![j].step = "insert"]
       ELSE Refuse(j)
    /\ UNCHANGED <<stripeVars, pending, hook, shownVars, rows, invites, faults, alone, calm>>

\* member_cuid is unique
Insert(j) ==
    /\ join[j].step = "insert"
    /\ rows' = IF IsMember(join[j].member) THEN rows
               ELSE rows \cup {[member |-> join[j].member, owner |-> join[j].owner]}
    /\ join' = [join EXCEPT ![j] = NoJoin]
    /\ UNCHANGED <<stripeVars, pending, hook, shownVars, invites, faults, alone, calm>>

Remove(a, m) ==
    /\ ~IsMember(a)
    /\ [member |-> m, owner |-> a] \in rows
    /\ rows' = rows \ {[member |-> m, owner |-> a]}
    /\ UNCHANGED <<stripeVars, pending, hook, shownVars, invites, join, faults, alone, calm>>

-----------------------------------------------------------------------------
Stripe == \E s \in Subs : Checkout(s) \/ Subscribe(s) \/ Change(s)
Webhook ==
    \E h \in Hooks : \/ Receive(h) \/ Retrieve(h) \/ Update(h)
                     \/ RetrieveFails(h) \/ UpdateFails(h) \/ CutOff(h)
Team ==
    \/ \E a \in Accounts : Invite(a) \/ \E m \in Accounts : Remove(a, m)
    \/ \E j \in Joins : OpenJoin(j) \/ ReadTeam(j) \/ CountSeats(j) \/ Insert(j)

TeamNext == Stripe \/ Webhook \/ Team
TeamSpec == TeamInit /\ [][TeamNext]_vars

-----------------------------------------------------------------------------
(***************************************************************************)
(* A team is never larger than the seats its account ever showed, but for  *)
(* the requests that were redeemed at once: each of them may have counted  *)
(* before the others inserted ("the authoritative one happens again at     *)
(* redemption time", team-invite.js).  One request at a time keeps it.     *)
(***************************************************************************)
SeatsBounded ==
    \A a \in Accounts : Members(a) # {} => Cardinality(Members(a)) + 1 < peak[a] + Cardinality(Joins)

(***************************************************************************)
(* A webhook whose look-up succeeded never undoes what was written before  *)
(* it began, however late or often Stripe delivers it: "a delayed          *)
(* 'customer.subscription.updated' can overwrite newer local state with    *)
(* stale event data" is what the look-up is there to prevent.              *)
(***************************************************************************)
FreshWrites ==
    \A h \in Hooks : hook[h].step = "write" /\ ~hook[h].fellBack => hook[h].version >= hook[h].floor

(***************************************************************************)
(* One webhook that has the account for itself and succeeds puts it in     *)
(* step with Stripe, whatever overlapped or failed before it: as long as   *)
(* no write fails after it and the next writer is such a webhook, too, the *)
(* account shows the newest state of the subscription written last         *)
(* whenever Stripe has no more to report ("always picks the newest         *)
(* state", stripe-webhook.js).                                             *)
(***************************************************************************)
InStep(a) ==
    LET s == latest[a][1]
        newest == history[s][Len(history[s])]
    IN  /\ account[a].status = mapStripeStatus(newest.status)
        /\ account[a].seats = newest.seats
        /\ PlanOf[s] # NoPlan => account[a].plan = PlanOf[s]

InSync ==
    \A a \in Accounts :
        /\ calm[a]
        /\ latest[a] # <<>>
        /\ \A e \in pending : CustomerOf[e.sub] # a
        => InStep(a)
=============================================================================

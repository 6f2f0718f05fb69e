------------------------------ MODULE EventBus ------------------------------
(***************************************************************************)
(* The event bus of packages/shared-events as grit-pos, grit-inventory and *)
(* grit-taskboard use it: publish after the business transaction has       *)
(* committed, the event_outbox table, the fan-out of signed webhooks with  *)
(* a timeout, the cron drain, and the consumers.                           *)
(*                                                                         *)
(* An event stands for one envelope (one event_id).  Its publisher and the *)
(* runs of the drain are callers: each calls the webhooks of one event at  *)
(* a time, all subscribers in parallel, and waits until every call has     *)
(* been answered or has failed.  A call that timed out may still be        *)
(* executed by the consumer afterwards.                                    *)
(*                                                                         *)
(* Signatures, parsing and the content of events are abstracted away.      *)
(* Faults (lost calls, timeouts, failed saves, crashes) are bounded in     *)
(* number, so liveness is claimed for when they have stopped.              *)
(***************************************************************************)
EXTENDS Naturals, FiniteSets

CONSTANTS
    Events,
    Subscribers,
    Drains,       \* concurrent runs of the cron route
    Routes,       \* GRIT_SUBSCRIBERS_<event>: the subscribers of an event
    Publisher,    \* the app that publishes an event
    DrainOf,      \* the app whose outbox a run drains
    Inventory,    \* the app that swallows a failed outbox write
    Consequences, \* facts committed with the first effect of an event (breaches)
    Upserting,    \* subscribers that keep no dedupe marker but upsert (grit-pos)
    Down,         \* subscribers that never answer
    Limit,        \* drainOutbox(limit): rows taken by one run
    MaxFaults,    \* bound: faults in a behaviour
    NoEvent

ASSUME EventsAssumption == IsFiniteSet(Events)
ASSUME RoutesAssumption == Routes \in [Events -> SUBSET Subscribers]
ASSUME ConsequencesAssumption == Consequences \in [Events -> SUBSET Events]
ASSUME UpsertingAssumption == Upserting \subseteq Subscribers
ASSUME NoEventAssumption == NoEvent \notin Events
ASSUME CallersAssumption == Events \cap Drains = {}
ASSUME BoundsAssumption == Limit \in Nat \ {0} /\ MaxFaults \in Nat

VARIABLES
    phase,      \* how far the publisher of an event is
    stamp,      \* rank of an event by its timestamp (buildEvent), 0 before it has one
    outbox,     \* event_outbox: the events that have a row
    delivered,  \* the rows with delivered_at set
    queue,      \* rows a drain run has read and not yet finished
    call,       \* the fan-out a caller is waiting for
    late,       \* calls that timed out and that the consumer still executes
    applied,    \* how often a consumer applied an event
    cache,      \* the last event an upserting consumer wrote
    faults

vars == <<phase, stamp, outbox, delivered, queue, call, late, applied, cache, faults>>
consumerVars == <<applied, cache>>

Callers == Events \cup Drains
Phases == {"none", "committed", "built", "sending", "ended"}
Call == [event : Events \cup {NoEvent}, waiting : SUBSET Subscribers,
         handled : SUBSET Subscribers, publishing : SUBSET Subscribers, failed : BOOLEAN]

TypeOK ==
    /\ phase \in [Events -> Phases]
    /\ stamp \in [Events -> Nat]
    /\ outbox \subseteq Events
    /\ delivered \subseteq outbox
    /\ queue \in [Drains -> SUBSET Events]
    /\ call \in [Callers -> Call]
    /\ late \in [Subscribers -> [Events -> Nat]]
    /\ applied \in [Subscribers -> [Events -> Nat]]
    /\ cache \in [Subscribers -> Events \cup {NoEvent}]
    /\ faults \in Nat

FanOut(e) == [event |-> e, waiting |-> Routes[e], handled |-> {}, publishing |-> {}, failed |-> FALSE]
NoCall == [event |-> NoEvent, waiting |-> {}, handled |-> {}, publishing |-> {}, failed |-> FALSE]

Init ==
    /\ phase = [e \in Events |-> "none"]
    /\ stamp = [e \in Events |-> 0]
    /\ outbox = {}
    /\ delivered = {}
    /\ queue = [d \in Drains |-> {}]
    /\ call = [c \in Callers |-> NoCall]
    /\ late = [s \in Subscribers |-> [e \in Events |-> 0]]
    /\ applied = [s \in Subscribers |-> [e \in Events |-> 0]]
    /\ cache = [s \in Subscribers |-> NoEvent]
    /\ faults = 0

Fault ==
    /\ faults < MaxFaults
    /\ faults' = faults + 1

-----------------------------------------------------------------------------
(***************************************************************************)
(* Consumers.  grit-inventory commits the ProcessedEvent row, and          *)
(* grit-taskboard the card with its unique source_event_id, together with  *)
(* the effects: a second delivery changes nothing.  grit-pos upserts.      *)
(***************************************************************************)
\* mutant: the dedupe marker is not consulted
DedupeOff(e, s) == FALSE

Deduped(e, s) == s \notin Upserting /\ applied[s][e] > 0

Receive(e, s) ==
    /\ applied' = [applied EXCEPT ![s][e] =
                     IF Deduped(e, s) \/ (s \in Upserting /\ @ > 0) THEN @ ELSE @ + 1]
    /\ cache' = IF s \in Upserting THEN [cache EXCEPT ![s] = e] ELSE cache
    /\ phase' = [b \in Events |->
                   IF b \in Consequences[e] /\ ~ Deduped(e, s) /\ phase[b] = "none"
                   THEN "committed" ELSE phase[b]]

\* the execution that had the effect publishes the consequences before it
\* answers; a deduped one answers at once
Settled(e) == \A b \in Consequences[e] : phase[b] = "ended"

-----------------------------------------------------------------------------
(***************************************************************************)
(* The publisher of event e.                                               *)
(***************************************************************************)
\* the business transaction commits; a consequence commits in Receive
Commit(e) ==
    /\ phase[e] = "none"
    /\ \A cause \in Events : e \notin Consequences[cause]
    /\ phase' = [phase EXCEPT ![e] = "committed"]
    /\ UNCHANGED <<stamp, outbox, delivered, queue, call, late, consumerVars, faults>>

Build(e) ==
    /\ phase[e] = "committed"
    /\ phase' = [phase EXCEPT ![e] = "built"]
    /\ stamp' = [stamp EXCEPT ![e] = 1 + Cardinality({f \in Events : stamp[f] > 0})]
    /\ UNCHANGED <<outbox, delivered, queue, call, late, consumerVars, faults>>

Save(e) ==
    /\ phase[e] = "built"
    /\ phase' = [phase EXCEPT ![e] = "sending"]
    /\ outbox' = outbox \cup {e}
    /\ call' = [call EXCEPT ![e] = FanOut(e)]
    /\ UNCHANGED <<stamp, delivered, queue, late, consumerVars, faults>>

\* grit-inventory logs and delivers anyway, grit-pos gives the event up
SaveFails(e) ==
    /\ phase[e] = "built"
    /\ Fault
    /\ phase' = [phase EXCEPT ![e] = IF Publisher[e] = Inventory THEN "sending" ELSE "ended"]
    /\ call' = [call EXCEPT ![e] = IF Publisher[e] = Inventory THEN FanOut(e) ELSE NoCall]
    /\ UNCHANGED <<stamp, outbox, delivered, queue, late, consumerVars>>

\* mutant: markDelivered upserts the row
MarkUpsert(c) == IF call[c].failed THEN delivered ELSE delivered \cup {call[c].event}

\* mutant: a drain run does not mark what it delivered
MarkByPublisher(c) ==
    IF call[c].failed \/ c \in Drains THEN delivered ELSE delivered \cup ({call[c].event} \cap outbox)

\* mutant: an event is marked whatever became of its calls
MarkAlways(c) == delivered \cup ({call[c].event} \cap outbox)

\* markDelivered updates the row if there is one
Mark(c) == IF call[c].failed THEN delivered ELSE delivered \cup ({call[c].event} \cap outbox)

EndPublish(e) ==
    /\ phase[e] = "sending"
    /\ call[e].waiting = {}
    /\ delivered' = Mark(e)
    /\ phase' = [phase EXCEPT ![e] = "ended"]
    /\ call' = [call EXCEPT ![e] = NoCall]
    /\ UNCHANGED <<stamp, outbox, queue, late, consumerVars, faults>>

\* the process dies between the commit and the end of publish
CrashPublisher(e) ==
    /\ phase[e] \in {"committed", "built", "sending"}
    /\ Fault
    /\ phase' = [phase EXCEPT ![e] = "ended"]
    /\ call' = [call EXCEPT ![e] = NoCall]
    /\ UNCHANGED <<stamp, outbox, delivered, queue, late, consumerVars>>

-----------------------------------------------------------------------------
(***************************************************************************)
(* The calls of a fan-out.                                                 *)
(***************************************************************************)
Waiting(c, s) == s \in call[c].waiting

\* the consumer executes the call; the answer is still to come
Handle(c, s) ==
    /\ Waiting(c, s) /\ s \notin call[c].handled /\ s \notin Down
    /\ Receive(call[c].event, s)
    /\ call' = [call EXCEPT ![c].handled = @ \cup {s},
                            ![c].publishing = IF Deduped(call[c].event, s) \/ Consequences[call[c].event] = {}
                                                 THEN @ ELSE @ \cup {s}]
    /\ UNCHANGED <<stamp, outbox, delivered, queue, late, faults>>

Answer(c, s) ==
    /\ Waiting(c, s) /\ s \in call[c].handled
    /\ s \in call[c].publishing => Settled(call[c].event)
    /\ call' = [call EXCEPT ![c].waiting = @ \ {s}]
    /\ UNCHANGED <<phase, stamp, outbox, delivered, queue, late, consumerVars, faults>>

FailedCall(c, s) == [call EXCEPT ![c].waiting = @ \ {s}, ![c].failed = TRUE]

\* no connection, an error status, or the answer is lost
Fail(c, s) ==
    /\ Waiting(c, s)
    /\ Fault
    /\ call' = FailedCall(c, s)
    /\ UNCHANGED <<phase, stamp, outbox, delivered, queue, late, consumerVars>>

\* a subscriber that is down costs no fault
Unreachable(c, s) ==
    /\ Waiting(c, s) /\ s \in Down
    /\ call' = FailedCall(c, s)
    /\ UNCHANGED <<phase, stamp, outbox, delivered, queue, late, consumerVars, faults>>

\* the caller aborts after timeoutMs; the consumer does not notice
Timeout(c, s) ==
    /\ Waiting(c, s) /\ s \notin call[c].handled /\ s \notin Down
    /\ Fault
    /\ call' = FailedCall(c, s)
    /\ late' = [late EXCEPT ![s][call[c].event] = @ + 1]
    /\ UNCHANGED <<phase, stamp, outbox, delivered, queue, consumerVars>>

HandleLate(e, s) ==
    /\ late[s][e] > 0
    /\ late' = [late EXCEPT ![s][e] = @ - 1]
    /\ Receive(e, s)
    /\ UNCHANGED <<stamp, outbox, delivered, queue, call, faults>>

-----------------------------------------------------------------------------
(***************************************************************************)
(* The cron drain: reads the oldest undelivered rows once, then delivers   *)
(* them one after the other.                                               *)
(***************************************************************************)
Undelivered(app) == {e \in outbox \ delivered : Publisher[e] = app}

First(E) == CHOOSE e \in E : \A f \in E : stamp[e] <= stamp[f]

\* ORDER BY created_at LIMIT limit
Oldest(E) == {e \in E : Cardinality({f \in E : stamp[f] < stamp[e]}) < Limit}

\* the run goes on to the oldest row it has left
NextCall(E) == IF E = {} THEN NoCall ELSE FanOut(First(E))

StartDrain(d) ==
    /\ queue[d] = {}
    /\ Undelivered(DrainOf[d]) # {}
    /\ queue' = [queue EXCEPT ![d] = Oldest(Undelivered(DrainOf[d]))]
    /\ call' = [call EXCEPT ![d] = NextCall(queue'[d])]
    /\ UNCHANGED <<phase, stamp, outbox, delivered, late, consumerVars, faults>>

EndDelivery(d) ==
    /\ queue[d] # {}
    /\ call[d].waiting = {}
    /\ delivered' = Mark(d)
    /\ queue' = [queue EXCEPT ![d] = @ \ {call[d].event}]
    /\ call' = [call EXCEPT ![d] = NextCall(queue'[d])]
    /\ UNCHANGED <<phase, stamp, outbox, late, consumerVars, faults>>

CrashDrain(d) ==
    /\ queue[d] # {}
    /\ Fault
    /\ queue' = [queue EXCEPT ![d] = {}]
    /\ call' = [call EXCEPT ![d] = NoCall]
    /\ UNCHANGED <<phase, stamp, outbox, delivered, late, consumerVars>>

-----------------------------------------------------------------------------
PublisherStep(e) ==
    \/ Commit(e)
    \/ Build(e)
    \/ Save(e)
    \/ SaveFails(e)
    \/ EndPublish(e)
    \/ CrashPublisher(e)

CallStep(c, s) ==
    \/ Handle(c, s)
    \/ Answer(c, s)
    \/ Fail(c, s)
    \/ Unreachable(c, s)
    \/ Timeout(c, s)

DrainStep(d) ==
    \/ StartDrain(d)
    \/ EndDelivery(d)
    \/ CrashDrain(d)

Next ==
    \/ \E e \in Events : PublisherStep(e)
    \/ \E c \in Callers, s \in Subscribers : CallStep(c, s)
    \/ \E e \in Events, s \in Subscribers : HandleLate(e, s)
    \/ \E d \in Drains : DrainStep(d)

Spec == Init /\ [][Next]_vars

(***************************************************************************)
(* Processes run, reachable consumers answer, the cron fires: weak         *)
(* fairness of every publisher, of the calls of every caller and of every  *)
(* drain, but of no fault and not of the execution of a late call.         *)
(***************************************************************************)
Fairness ==
    /\ \A e \in Events : WF_vars(Build(e) \/ Save(e) \/ EndPublish(e))
    /\ \A c \in Callers :
         WF_vars(\E s \in Subscribers : Handle(c, s) \/ Answer(c, s) \/ Unreachable(c, s))
    /\ \A d \in Drains : WF_vars(StartDrain(d) \/ EndDelivery(d))

FairSpec == Spec /\ Fairness

-----------------------------------------------------------------------------
(***************************************************************************)
(* delivered_at is set only when every subscriber has applied the event,   *)
(* whichever of the publisher and overlapping drain runs sets it, and      *)
(* whatever was lost or answered late ("Mark an event as delivered to all  *)
(* subscribers", bus.ts).                                                  *)
(***************************************************************************)
DeliveredIsApplied ==
    \A e \in delivered : \A s \in Routes[e] : applied[s][e] > 0

(***************************************************************************)
(* A consumer that dedupes applies an event at most once, although it may  *)
(* be called by its publisher, by drain runs that read the row before it   *)
(* was marked, and by calls their callers gave up on.                      *)
(***************************************************************************)
AppliedAtMostOnce ==
    \A s \in Subscribers, e \in Events : applied[s][e] <= 1

(***************************************************************************)
(* The bus implements the abstract channel: seen through facts, durable    *)
(* records, effects and retired records, publish, the webhooks, the        *)
(* consumers and the drain do nothing but what EventChannel allows.        *)
(***************************************************************************)
Reachable == {e \in Events : Routes[e] \cap Down = {}}

Channel == INSTANCE EventChannel WITH
    facts <- {e \in Events : phase[e] # "none"},
    recorded <- outbox,
    effects <- [e \in Events |-> {s \in Subscribers : applied[s][e] > 0}],
    retired <- delivered

ChannelSpec == Channel!Spec

(***************************************************************************)
(* Every event in the outbox whose subscribers can be reached is           *)
(* eventually marked delivered: crashes, lost answers, timeouts and rows   *)
(* ahead of it that cannot be delivered delay it only, as long as a run    *)
(* of the drain takes more rows than are blocked.                          *)
(***************************************************************************)
OutboxDrains == Channel!Retirement
=============================================================================

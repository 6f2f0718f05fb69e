---------------------------- MODULE EventChannel ----------------------------
(***************************************************************************)
(* What the event bus promises between two Grit apps, without its          *)
(* messages: a business fact may be recorded as an event, a subscriber     *)
(* applies an event once, after the fact it reports, and an event is       *)
(* retired only when all its subscribers have applied it.  A recorded      *)
(* event is eventually retired, if its subscribers can be reached.         *)
(***************************************************************************)
CONSTANTS
    Events,
    Subscribers,
    Routes,     \* the subscribers of an event
    Reachable   \* the events whose subscribers can all be reached

VARIABLES
    facts,      \* events whose business fact has been committed
    recorded,   \* events that are durably recorded
    effects,    \* subscribers that have applied an event
    retired     \* events that will not be delivered again

vars == <<facts, recorded, effects, retired>>

TypeOK ==
    /\ facts \subseteq Events
    /\ recorded \subseteq facts
    /\ effects \in [Events -> SUBSET Subscribers]
    /\ retired \subseteq recorded

Init ==
    /\ facts = {}
    /\ recorded = {}
    /\ effects = [e \in Events |-> {}]
    /\ retired = {}

\* the facts that are committed with the first effect of an event count as its
\* consequences: they may appear in the same step
Happen(F) ==
    /\ facts' = facts \cup F
    /\ UNCHANGED <<recorded, retired>>

Fact(e) ==
    /\ e \notin facts
    /\ Happen({e})
    /\ UNCHANGED effects

Record(e) ==
    /\ e \in facts
    /\ recorded' = recorded \cup {e}
    /\ UNCHANGED <<facts, effects, retired>>

Apply(e, s) ==
    /\ e \in facts
    /\ s \in Routes[e] \ effects[e]
    /\ effects' = [effects EXCEPT ![e] = @ \cup {s}]
    /\ \E F \in SUBSET (Events \ facts) : Happen(F)

Retire(e) ==
    /\ e \in recorded
    /\ Routes[e] \subseteq effects[e]
    /\ retired' = retired \cup {e}
    /\ UNCHANGED <<facts, recorded, effects>>

Next ==
    \E e \in Events :
        \/ Fact(e)
        \/ Record(e)
        \/ \E s \in Subscribers : Apply(e, s)
        \/ Retire(e)

Spec == Init /\ [][Next]_vars

\* every recorded event with reachable subscribers is eventually retired
Retirement == \A e \in Reachable : e \in recorded ~> e \in retired
=============================================================================

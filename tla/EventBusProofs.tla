--------------------------- MODULE EventBusProofs ---------------------------
(***************************************************************************)
(* Proofs about EventBus for any events, subscribers and number of         *)
(* overlapping drain runs: its invariants, and that every step of it is a  *)
(* step of EventChannel or a stutter.                                      *)
(***************************************************************************)
EXTENDS EventBus, FiniteSetTheorems, WellFoundedInduction, TLAPS

\* Only the fact of an event that happened is saved, queued or sent.
HappenedFirst ==
    /\ \A e \in outbox : phase[e] # "none"
    /\ \A d \in Drains : \A e \in queue[d] : phase[e] # "none"
    /\ \A s \in Subscribers, e \in Events :
         late[s][e] > 0 => phase[e] # "none" /\ s \in Routes[e]

\* What a caller knows: a call that was executed, or that was answered in a
\* fan-out without failures, has had its effect.
GoodCall(r) ==
    /\ r \in Call
    /\ r.event # NoEvent => phase[r.event] # "none"
    /\ \A s \in r.waiting : r.event # NoEvent /\ s \in Routes[r.event]
    /\ r.event # NoEvent => \A s \in r.handled : applied[s][r.event] > 0
    /\ r.event # NoEvent /\ ~ r.failed =>
         \A s \in Routes[r.event] \ r.waiting : applied[s][r.event] > 0

CallsAreGood == \A c \in Callers : GoodCall(call[c])

\* The consequences of an event are committed with its first effect.
ConsequencesHappened ==
    \A s \in Subscribers, e \in Events :
        applied[s][e] > 0 => \A b \in Consequences[e] : phase[b] # "none"

IInv ==
    /\ TypeOK
    /\ HappenedFirst
    /\ CallsAreGood
    /\ ConsequencesHappened
    /\ DeliveredIsApplied
    /\ AppliedAtMostOnce

\* Facts and effects are never undone.
Grows ==
    /\ \A e \in Events : phase[e] # "none" => phase'[e] # "none"
    /\ \A s \in Subscribers, e \in Events : applied[s][e] > 0 => applied'[s][e] > 0

-----------------------------------------------------------------------------
LEMMA FreshCalls ==
    /\ GoodCall(NoCall)
    /\ \A e \in Events : phase[e] # "none" => GoodCall(FanOut(e))
BY RoutesAssumption, NoEventAssumption DEF FanOut, NoCall, Call, GoodCall

LEMMA FreshCallsNext ==
    /\ GoodCall(NoCall)'
    /\ \A e \in Events : phase'[e] # "none" => GoodCall(FanOut(e))'
BY RoutesAssumption, NoEventAssumption DEF FanOut, NoCall, Call, GoodCall

\* A call record that is kept stays good.
LEMMA KeptCall ==
    ASSUME Grows, NEW c \in Callers, GoodCall(call[c]), call'[c] = call[c]
    PROVE  GoodCall(call[c])'
BY RoutesAssumption DEF Grows, GoodCall, Call

LEMMA NoStep ==
    ASSUME IInv, UNCHANGED vars
    PROVE  IInv'
BY DEF IInv, vars, consumerVars, TypeOK, HappenedFirst, CallsAreGood, GoodCall, ConsequencesHappened,
       DeliveredIsApplied, AppliedAtMostOnce

\* A step of one caller that has no effect at a consumer: what is left to show.
LEMMA CallerStep ==
    ASSUME IInv, NEW c \in Callers, UNCHANGED <<consumerVars>>,
           \A e \in Events : phase[e] # "none" => phase'[e] # "none",
           phase' \in [Events -> Phases], stamp' \in [Events -> Nat], faults' \in Nat,
           outbox' \subseteq Events, delivered' \subseteq outbox',
           queue' \in [Drains -> SUBSET Events], call' \in [Callers -> Call],
           late' \in [Subscribers -> [Events -> Nat]],
           HappenedFirst', DeliveredIsApplied',
           \A x \in Callers : x # c => call'[x] = call[x], GoodCall(call[c])'
    PROVE  IInv'
<1>1. TypeOK'
  BY DEF IInv, TypeOK, consumerVars
<1>2. Grows
  BY DEF Grows, consumerVars
<1>3. CallsAreGood'
  BY <1>2, KeptCall DEF IInv, CallsAreGood
<1>4. ConsequencesHappened' /\ AppliedAtMostOnce'
  BY ConsequencesAssumption DEF IInv, ConsequencesHappened, AppliedAtMostOnce, consumerVars
<1> QED BY <1>1, <1>3, <1>4 DEF IInv

LEMMA CallersType ==
    /\ \A e \in Events : e \in Callers
    /\ \A d \in Drains : d \in Callers
BY DEF Callers

-----------------------------------------------------------------------------
(***************************************************************************)
(* The publisher.                                                          *)
(***************************************************************************)
LEMMA InitInv == Init => IInv
<1> SUFFICES ASSUME Init PROVE IInv
  OBVIOUS
<1>1. TypeOK
  BY FreshCalls DEF Init, TypeOK, Phases, GoodCall
<1>2. HappenedFirst /\ ConsequencesHappened /\ DeliveredIsApplied /\ AppliedAtMostOnce
  BY DEF Init, HappenedFirst, ConsequencesHappened, DeliveredIsApplied, AppliedAtMostOnce
<1>3. CallsAreGood
  BY FreshCalls DEF Init, CallsAreGood
<1> QED BY <1>1, <1>2, <1>3 DEF IInv

\* The publisher goes on before it has called anyone.
LEMMA CommitInv ==
    ASSUME IInv, NEW e \in Events, Commit(e)
    PROVE  IInv'
<1>1. phase' \in [Events -> Phases] /\ \A f \in Events : phase[f] # "none" => phase'[f] # "none"
  BY DEF IInv, TypeOK, Commit, Phases
<1>2. HappenedFirst' /\ DeliveredIsApplied'
  BY <1>1 DEF IInv, TypeOK, Commit, HappenedFirst, DeliveredIsApplied, consumerVars
<1>3. GoodCall(call[e])'
  BY <1>1, CallersType, KeptCall DEF IInv, CallsAreGood, Commit, Grows, consumerVars
<1> QED BY <1>1, <1>2, <1>3, CallersType, CallerStep DEF IInv, TypeOK, Commit

LEMMA BuildInv ==
    ASSUME IInv, NEW e \in Events, Build(e)
    PROVE  IInv'
<1>1. phase' \in [Events -> Phases] /\ \A f \in Events : phase[f] # "none" => phase'[f] # "none"
  BY DEF IInv, TypeOK, Build, Phases
<1>2. stamp' \in [Events -> Nat]
  <2> DEFINE E == {f \in Events : stamp[f] > 0}
  <2>1. IsFiniteSet(E)
    BY FS_Subset, EventsAssumption
  <2>2. Cardinality(E) \in Nat
    BY <2>1, FS_CardinalityType
  <2> HIDE DEF E
  <2>3. stamp' = [stamp EXCEPT ![e] = 1 + Cardinality(E)]
    BY DEF Build, E
  <2> QED BY <2>2, <2>3 DEF IInv, TypeOK
<1>3. HappenedFirst' /\ DeliveredIsApplied'
  BY <1>1 DEF IInv, TypeOK, Build, HappenedFirst, DeliveredIsApplied, consumerVars
<1>4. GoodCall(call[e])'
  BY <1>1, CallersType, KeptCall DEF IInv, CallsAreGood, Build, Grows, consumerVars
<1> QED BY <1>1, <1>2, <1>3, <1>4, CallersType, CallerStep DEF IInv, TypeOK, Build

LEMMA SaveInv ==
    ASSUME IInv, NEW e \in Events, Save(e)
    PROVE  IInv'
<1>1. phase' \in [Events -> Phases] /\ phase'[e] = "sending"
      /\ \A f \in Events : phase[f] # "none" => phase'[f] # "none"
  BY DEF IInv, TypeOK, Save, Phases
<1>2. GoodCall(FanOut(e))' /\ FanOut(e) \in Call
  BY <1>1, FreshCallsNext DEF GoodCall
<1>3. call' \in [Callers -> Call] /\ GoodCall(call[e])' /\ \A x \in Callers : x # e => call'[x] = call[x]
  BY <1>2, CallersType DEF IInv, TypeOK, Save, GoodCall
<1>4. HappenedFirst' /\ DeliveredIsApplied'
  BY <1>1 DEF IInv, TypeOK, Save, HappenedFirst, DeliveredIsApplied, consumerVars
<1> QED BY <1>1, <1>3, <1>4, CallersType, CallerStep DEF IInv, TypeOK, Save

LEMMA FaultType ==
    ASSUME IInv, Fault
    PROVE  faults' \in Nat
BY DEF IInv, TypeOK, Fault

LEMMA SaveFailsInv ==
    ASSUME IInv, NEW e \in Events, SaveFails(e)
    PROVE  IInv'
<1>1. phase' \in [Events -> Phases] /\ phase'[e] # "none"
      /\ \A f \in Events : phase[f] # "none" => phase'[f] # "none"
  BY DEF IInv, TypeOK, SaveFails, Phases
<1>2. GoodCall(FanOut(e))' /\ FanOut(e) \in Call /\ GoodCall(NoCall)' /\ NoCall \in Call
  BY <1>1, FreshCallsNext DEF GoodCall
<1>3. call'[e] \in {FanOut(e), NoCall} /\ call' \in [Callers -> Call]
      /\ \A x \in Callers : x # e => call'[x] = call[x]
  BY <1>2, CallersType DEF IInv, TypeOK, SaveFails
<1>4. GoodCall(call[e])'
  BY <1>2, <1>3 DEF GoodCall
<1>5. HappenedFirst' /\ DeliveredIsApplied'
  BY <1>1 DEF IInv, TypeOK, SaveFails, HappenedFirst, DeliveredIsApplied, consumerVars
<1> QED BY <1>1, <1>3, <1>4, <1>5, CallersType, CallerStep, FaultType DEF IInv, TypeOK, SaveFails

\* What a caller marks has been applied by all its subscribers.
LEMMA MarkIsApplied ==
    ASSUME IInv, NEW c \in Callers, call[c].waiting = {}
    PROVE  /\ Mark(c) \subseteq outbox
           /\ \A e \in Mark(c) : \A s \in Routes[e] : applied[s][e] > 0
<1>1. GoodCall(call[c])
  BY DEF IInv, CallsAreGood
<1>2. outbox \subseteq Events /\ NoEvent \notin outbox /\ delivered \subseteq outbox
  BY NoEventAssumption DEF IInv, TypeOK
<1> QED BY <1>1, <1>2 DEF Mark, GoodCall, IInv, DeliveredIsApplied

LEMMA EndPublishInv ==
    ASSUME IInv, NEW e \in Events, EndPublish(e)
    PROVE  IInv'
<1>1. phase' \in [Events -> Phases] /\ \A f \in Events : phase[f] # "none" => phase'[f] # "none"
  BY DEF IInv, TypeOK, EndPublish, Phases
<1>2. GoodCall(NoCall)' /\ NoCall \in Call
  BY FreshCallsNext DEF GoodCall
<1>3. call' \in [Callers -> Call] /\ GoodCall(call[e])' /\ \A x \in Callers : x # e => call'[x] = call[x]
  BY <1>2, CallersType DEF IInv, TypeOK, EndPublish, GoodCall
<1>4. delivered' \subseteq outbox' /\ DeliveredIsApplied'
  BY CallersType, MarkIsApplied DEF EndPublish, DeliveredIsApplied, consumerVars
<1>5. HappenedFirst'
  BY <1>1 DEF IInv, TypeOK, EndPublish, HappenedFirst
<1> QED BY <1>1, <1>3, <1>4, <1>5, CallersType, CallerStep DEF IInv, TypeOK, EndPublish

LEMMA CrashPublisherInv ==
    ASSUME IInv, NEW e \in Events, CrashPublisher(e)
    PROVE  IInv'
<1>1. phase' \in [Events -> Phases] /\ \A f \in Events : phase[f] # "none" => phase'[f] # "none"
  BY DEF IInv, TypeOK, CrashPublisher, Phases
<1>2. GoodCall(NoCall)' /\ NoCall \in Call
  BY FreshCallsNext DEF GoodCall
<1>3. call' \in [Callers -> Call] /\ GoodCall(call[e])' /\ \A x \in Callers : x # e => call'[x] = call[x]
  BY <1>2, CallersType DEF IInv, TypeOK, CrashPublisher, GoodCall
<1>4. HappenedFirst' /\ DeliveredIsApplied'
  BY <1>1 DEF IInv, TypeOK, CrashPublisher, HappenedFirst, DeliveredIsApplied, consumerVars
<1> QED BY <1>1, <1>3, <1>4, CallersType, CallerStep, FaultType DEF IInv, TypeOK, CrashPublisher

-----------------------------------------------------------------------------
(***************************************************************************)
(* The consumers and the calls.                                            *)
(***************************************************************************)
LEMMA ReceiveEffect ==
    ASSUME IInv, NEW e \in Events, NEW s \in Subscribers, phase[e] # "none", Receive(e, s)
    PROVE  /\ phase' \in [Events -> Phases]
           /\ applied' \in [Subscribers -> [Events -> Nat]]
           /\ cache' \in [Subscribers -> Events \cup {NoEvent}]
           /\ Grows /\ applied'[s][e] > 0
           /\ \A t \in Subscribers, f \in Events : t # s \/ f # e => applied'[t][f] = applied[t][f]
           /\ applied[s][e] > 0 => \A f \in Events : phase[f] = "none" => phase'[f] = "none"
           /\ AppliedAtMostOnce' /\ ConsequencesHappened' /\ DeliveredIsApplied
<1> DEFINE n == IF Deduped(e, s) \/ (s \in Upserting /\ applied[s][e] > 0)
                THEN applied[s][e] ELSE applied[s][e] + 1
<1>1. applied[s][e] \in Nat /\ applied[s][e] <= 1 /\ applied \in [Subscribers -> [Events -> Nat]]
  BY DEF IInv, TypeOK, AppliedAtMostOnce
<1>2. n = 1
  BY <1>1 DEF Deduped
<1>3. applied' = [applied EXCEPT ![s][e] = n]
  BY DEF Receive
<1> HIDE DEF n
<1>4. /\ applied' \in [Subscribers -> [Events -> Nat]] /\ applied'[s][e] = 1
      /\ \A t \in Subscribers, f \in Events : t # s \/ f # e => applied'[t][f] = applied[t][f]
  BY <1>1, <1>2, <1>3
<1>5. cache' \in [Subscribers -> Events \cup {NoEvent}]
  BY DEF Receive, IInv, TypeOK
<1>6. phase' = [b \in Events |->
                  IF b \in Consequences[e] /\ ~ Deduped(e, s) /\ phase[b] = "none"
                  THEN "committed" ELSE phase[b]]
  BY DEF Receive
<1>7. phase \in [Events -> Phases]
  BY DEF IInv, TypeOK
<1>8. phase' \in [Events -> Phases] /\ \A f \in Events : phase[f] # "none" => phase'[f] # "none"
  BY <1>6, <1>7 DEF Phases
<1>9. Grows
  BY <1>4, <1>8 DEF Grows
<1>10. AppliedAtMostOnce'
  BY <1>4 DEF IInv, AppliedAtMostOnce
<1>11. \A b \in Consequences[e] : phase'[b] # "none"
  <2> SUFFICES ASSUME NEW b \in Consequences[e] PROVE phase'[b] # "none"
    OBVIOUS
  <2>1. b \in Events
    BY ConsequencesAssumption
  <2>2. CASE applied[s][e] > 0
    BY <2>1, <2>2, <1>8 DEF IInv, ConsequencesHappened
  <2>3. CASE ~ (applied[s][e] > 0)
    BY <2>1, <2>3, <1>6 DEF Deduped
  <2> QED BY <2>2, <2>3
<1>12. ConsequencesHappened'
  <2> SUFFICES ASSUME NEW t \in Subscribers, NEW f \in Events, applied'[t][f] > 0,
                      NEW b \in Consequences[f]
               PROVE  phase'[b] # "none"
    BY DEF ConsequencesHappened
  <2>1. CASE t = s /\ f = e
    BY <2>1, <1>11
  <2>2. CASE t # s \/ f # e
    <3>1. b \in Events /\ applied[t][f] > 0
      BY <2>2, <1>4, ConsequencesAssumption
    <3> QED BY <3>1, <1>8 DEF IInv, ConsequencesHappened
  <2> QED BY <2>1, <2>2
<1>13. applied[s][e] > 0 => \A f \in Events : phase[f] = "none" => phase'[f] = "none"
  BY <1>6, ConsequencesAssumption DEF IInv, ConsequencesHappened
<1> QED BY <1>4, <1>5, <1>8, <1>9, <1>10, <1>12, <1>13 DEF IInv

\* A step in which a consumer has executed a call.
LEMMA ReceiveStep ==
    ASSUME IInv, NEW e \in Events, NEW s \in Subscribers, phase[e] # "none", Receive(e, s),
           UNCHANGED <<stamp, outbox, delivered, queue, faults>>,
           late' \in [Subscribers -> [Events -> Nat]],
           \A t \in Subscribers, f \in Events : late'[t][f] <= late[t][f],
           call' \in [Callers -> Call], CallsAreGood'
    PROVE  IInv'
<1>1. TypeOK'
  BY ReceiveEffect DEF IInv, TypeOK
<1>2. HappenedFirst'
  <2>1. \A t \in Subscribers, f \in Events : late[t][f] \in Nat /\ late'[t][f] \in Nat
    BY DEF IInv, TypeOK
  <2>2. \A t \in Subscribers, f \in Events : late'[t][f] > 0 => late[t][f] > 0
    BY <2>1
  <2> QED BY <2>2, ReceiveEffect DEF IInv, TypeOK, HappenedFirst, Grows
<1>3. DeliveredIsApplied'
  BY ReceiveEffect, RoutesAssumption DEF IInv, TypeOK, DeliveredIsApplied, Grows
<1> QED BY <1>1, <1>2, <1>3, ReceiveEffect DEF IInv

LEMMA HandleInv ==
    ASSUME IInv, NEW c \in Callers, NEW s \in Subscribers, Handle(c, s)
    PROVE  IInv'
<1> DEFINE e == call[c].event
           r == [call[c] EXCEPT !.handled = @ \cup {s},
                                !.publishing = IF Deduped(e, s) \/ Consequences[e] = {} THEN @ ELSE @ \cup {s}]
<1>1. GoodCall(call[c]) /\ call \in [Callers -> Call] /\ s \in call[c].waiting
  BY DEF IInv, TypeOK, CallsAreGood, Handle, Waiting
<1>2. e \in Events /\ phase[e] # "none"
  BY <1>1 DEF GoodCall, Call
<1>3. Receive(e, s) /\ UNCHANGED <<stamp, outbox, delivered, queue, late, faults>>
      /\ call' = [call EXCEPT ![c] = r]
  BY DEF Handle
<1>4. /\ r \in Call /\ r.event = e /\ r.waiting = call[c].waiting /\ r.failed = call[c].failed
      /\ r.handled = call[c].handled \cup {s}
  BY <1>1 DEF Call
<1> HIDE DEF r
<1>5. Grows /\ applied'[s][e] > 0
  BY <1>2, <1>3, ReceiveEffect
<1>6. call' \in [Callers -> Call] /\ call'[c] = r /\ \A x \in Callers : x # c => call'[x] = call[x]
  BY <1>1, <1>3, <1>4
<1>7. GoodCall(call[c])'
  <2>1. call[c].handled \subseteq Subscribers /\ Routes[e] \subseteq Subscribers
    BY <1>1, <1>2, RoutesAssumption DEF Call
  <2> QED BY <1>1, <1>2, <1>4, <1>5, <1>6, <2>1 DEF GoodCall, Grows
<1>8. CallsAreGood'
  BY <1>5, <1>6, <1>7, KeptCall DEF IInv, CallsAreGood
<1>9. late' \in [Subscribers -> [Events -> Nat]] /\ \A t \in Subscribers, f \in Events : late'[t][f] <= late[t][f]
  BY <1>3 DEF IInv, TypeOK
<1> QED BY <1>2, <1>3, <1>6, <1>8, <1>9, ReceiveStep

LEMMA HandleLateInv ==
    ASSUME IInv, NEW e \in Events, NEW s \in Subscribers, HandleLate(e, s)
    PROVE  IInv'
<1>1. phase[e] # "none"
  BY DEF IInv, HappenedFirst, HandleLate
<1>2. Receive(e, s) /\ UNCHANGED <<stamp, outbox, delivered, queue, call, faults>>
  BY DEF HandleLate
<1>3. late' \in [Subscribers -> [Events -> Nat]] /\ \A t \in Subscribers, f \in Events : late'[t][f] <= late[t][f]
  BY DEF IInv, TypeOK, HandleLate
<1>4. Grows
  BY <1>1, <1>2, ReceiveEffect
<1>5. CallsAreGood'
  BY <1>2, <1>4, KeptCall DEF IInv, CallsAreGood
<1> QED BY <1>1, <1>2, <1>3, <1>5, ReceiveStep DEF IInv, TypeOK

LEMMA AnswerInv ==
    ASSUME IInv, NEW c \in Callers, NEW s \in Subscribers, Answer(c, s)
    PROVE  IInv'
<1> DEFINE r == [call[c] EXCEPT !.waiting = @ \ {s}]
<1>1. GoodCall(call[c]) /\ call \in [Callers -> Call] /\ s \in call[c].handled
  BY DEF IInv, TypeOK, CallsAreGood, Answer
<1>2. call' = [call EXCEPT ![c] = r]
      /\ UNCHANGED <<phase, stamp, outbox, delivered, queue, late, consumerVars, faults>>
  BY DEF Answer
<1>3. /\ r \in Call /\ r.event = call[c].event /\ r.failed = call[c].failed
      /\ r.waiting = call[c].waiting \ {s} /\ r.handled = call[c].handled
  BY <1>1 DEF Call
<1> HIDE DEF r
<1>4. call' \in [Callers -> Call] /\ call'[c] = r /\ \A x \in Callers : x # c => call'[x] = call[x]
  BY <1>1, <1>2, <1>3
<1>5. GoodCall(call[c])'
  BY <1>1, <1>2, <1>3, <1>4 DEF GoodCall, consumerVars
<1>6. HappenedFirst' /\ DeliveredIsApplied'
  BY <1>2 DEF IInv, HappenedFirst, DeliveredIsApplied, consumerVars
<1> QED BY <1>2, <1>4, <1>5, <1>6, CallerStep DEF IInv, TypeOK

LEMMA FailedCallEffect ==
    ASSUME IInv, NEW c \in Callers, NEW s \in Subscribers, call' = FailedCall(c, s),
           UNCHANGED <<phase, consumerVars>>
    PROVE  /\ call' \in [Callers -> Call] /\ GoodCall(call[c])'
           /\ \A x \in Callers : x # c => call'[x] = call[x]
<1> DEFINE r == [call[c] EXCEPT !.waiting = @ \ {s}, !.failed = TRUE]
<1>1. GoodCall(call[c]) /\ call \in [Callers -> Call]
  BY DEF IInv, TypeOK, CallsAreGood
<1>2. call' = [call EXCEPT ![c] = r]
  BY DEF FailedCall
<1>3. /\ r \in Call /\ r.event = call[c].event /\ r.failed
      /\ r.waiting = call[c].waiting \ {s} /\ r.handled = call[c].handled
  BY <1>1 DEF Call
<1> HIDE DEF r
<1>4. call' \in [Callers -> Call] /\ call'[c] = r /\ \A x \in Callers : x # c => call'[x] = call[x]
  BY <1>1, <1>2, <1>3
<1>5. GoodCall(call[c])'
  BY <1>1, <1>2, <1>3, <1>4 DEF GoodCall, consumerVars
<1> QED BY <1>4, <1>5

LEMMA FailInv ==
    ASSUME IInv, NEW c \in Callers, NEW s \in Subscribers, Fail(c, s) \/ Unreachable(c, s)
    PROVE  IInv'
<1>1. /\ call' = FailedCall(c, s)
      /\ UNCHANGED <<phase, stamp, outbox, delivered, queue, late, consumerVars>>
      /\ faults' \in Nat
  BY FaultType DEF Fail, Unreachable, IInv, TypeOK
<1>2. HappenedFirst' /\ DeliveredIsApplied'
  BY <1>1 DEF IInv, HappenedFirst, DeliveredIsApplied, consumerVars
<1> QED BY <1>1, <1>2, FailedCallEffect, CallerStep DEF IInv, TypeOK

LEMMA TimeoutInv ==
    ASSUME IInv, NEW c \in Callers, NEW s \in Subscribers, Timeout(c, s)
    PROVE  IInv'
<1> DEFINE e == call[c].event
<1>1. /\ call' = FailedCall(c, s) /\ late' = [late EXCEPT ![s][e] = @ + 1]
      /\ UNCHANGED <<phase, stamp, outbox, delivered, queue, consumerVars>>
      /\ faults' \in Nat /\ s \in call[c].waiting
  BY FaultType DEF Timeout, Waiting
<1>2. e \in Events /\ phase[e] # "none" /\ s \in Routes[e]
  <2>1. GoodCall(call[c])
    BY DEF IInv, CallsAreGood
  <2> QED BY <1>1, <2>1 DEF GoodCall, Call
<1>3. late' \in [Subscribers -> [Events -> Nat]]
      /\ \A t \in Subscribers, f \in Events : t # s \/ f # e => late'[t][f] = late[t][f]
  BY <1>1, <1>2 DEF IInv, TypeOK
<1>4. HappenedFirst' /\ DeliveredIsApplied'
  BY <1>1, <1>2, <1>3 DEF IInv, HappenedFirst, DeliveredIsApplied, consumerVars
<1> QED BY <1>1, <1>3, <1>4, FailedCallEffect, CallerStep DEF IInv, TypeOK

-----------------------------------------------------------------------------
(***************************************************************************)
(* The drain.                                                              *)
(***************************************************************************)
LEMMA OldestRowExists ==
    ASSUME NEW E \in SUBSET Events, E # {}, stamp \in [Events -> Nat]
    PROVE  First(E) \in E
<1>1. PICK e \in E : \A f \in E : stamp[e] <= stamp[f]
  <2> DEFINE N == {stamp[f] : f \in E}
  <2>1. N \in SUBSET Nat /\ N # {}
    OBVIOUS
  <2> HIDE DEF N
  <2>2. PICK n \in N : \A m \in N : <<m, n>> \notin OpToRel(<, Nat)
    BY <2>1, NatLessThanWellFounded, WFMin
  <2>3. \A m \in N : ~ (m < n)
    BY <2>1, <2>2, Zenon DEF OpToRel
  <2>4. \A m \in N : n <= m
    BY <2>1, <2>3
  <2> QED BY <2>4 DEF N
<1> QED BY <1>1 DEF First

LEMMA NextCallCases ==
    ASSUME NEW E \in SUBSET Events, stamp \in [Events -> Nat]
    PROVE  NextCall(E) = NoCall \/ \E e \in E : NextCall(E) = FanOut(e)
BY OldestRowExists DEF NextCall

\* A drain run turns to its next row, or to none.
LEMMA DrainGoesOn ==
    ASSUME IInv, NEW d \in Drains, NEW E \in SUBSET Events, \A e \in E : phase'[e] # "none",
           call' = [call EXCEPT ![d] = NextCall(E)]
    PROVE  /\ call' \in [Callers -> Call] /\ GoodCall(call[d])'
           /\ \A x \in Callers : x # d => call'[x] = call[x]
<1>1. d \in Callers /\ call \in [Callers -> Call] /\ stamp \in [Events -> Nat]
  BY CallersType DEF IInv, TypeOK
<1>2. PICK r : r = NextCall(E)
  OBVIOUS
<1>3. r = NoCall \/ \E e \in E : r = FanOut(e)
  BY <1>1, <1>2, NextCallCases
<1>4. r \in Call /\ (call'[d] = r => GoodCall(call[d])')
  BY <1>3, FreshCallsNext DEF GoodCall
<1> QED BY <1>1, <1>2, <1>4

LEMMA StartDrainInv ==
    ASSUME IInv, NEW d \in Drains, StartDrain(d)
    PROVE  IInv'
<1> DEFINE E == queue'[d]
<1>1. E \in SUBSET Events /\ E \subseteq outbox
  BY DEF IInv, TypeOK, StartDrain, Oldest, Undelivered
<1>2. queue' \in [Drains -> SUBSET Events] /\ \A x \in Drains : x # d => queue'[x] = queue[x]
  BY <1>1 DEF IInv, TypeOK, StartDrain
<1>3. call' = [call EXCEPT ![d] = NextCall(E)]
      /\ UNCHANGED <<phase, stamp, outbox, delivered, late, consumerVars, faults>>
  BY DEF StartDrain
<1>4. HappenedFirst' /\ DeliveredIsApplied'
  BY <1>1, <1>2, <1>3 DEF IInv, HappenedFirst, DeliveredIsApplied, consumerVars
<1>5. \A e \in E : phase'[e] # "none"
  BY <1>1, <1>3 DEF IInv, HappenedFirst
<1> HIDE DEF E
<1>6. /\ call' \in [Callers -> Call] /\ GoodCall(call[d])'
      /\ \A x \in Callers : x # d => call'[x] = call[x]
  BY <1>1, <1>3, <1>5, DrainGoesOn
<1> QED BY <1>2, <1>3, <1>4, <1>6, CallersType, CallerStep DEF IInv, TypeOK

LEMMA EndDeliveryInv ==
    ASSUME IInv, NEW d \in Drains, EndDelivery(d)
    PROVE  IInv'
<1> DEFINE E == queue'[d]
<1>1. E \subseteq queue[d] /\ queue[d] \in SUBSET Events
  BY DEF IInv, TypeOK, EndDelivery
<1>2. queue' \in [Drains -> SUBSET Events] /\ \A x \in Drains : x # d => queue'[x] = queue[x]
  BY <1>1 DEF IInv, TypeOK, EndDelivery
<1>3. call' = [call EXCEPT ![d] = NextCall(E)]
      /\ UNCHANGED <<phase, stamp, outbox, late, consumerVars, faults>>
  BY DEF EndDelivery
<1>4. delivered' \subseteq outbox' /\ DeliveredIsApplied'
  BY CallersType, MarkIsApplied DEF EndDelivery, DeliveredIsApplied, consumerVars
<1>5. HappenedFirst'
  BY <1>1, <1>2, <1>3 DEF IInv, HappenedFirst
<1>6. \A e \in E : phase'[e] # "none"
  BY <1>1, <1>3 DEF IInv, HappenedFirst
<1> HIDE DEF E
<1>7. /\ call' \in [Callers -> Call] /\ GoodCall(call[d])'
      /\ \A x \in Callers : x # d => call'[x] = call[x]
  BY <1>1, <1>3, <1>6, DrainGoesOn
<1> QED BY <1>2, <1>3, <1>4, <1>5, <1>7, CallersType, CallerStep DEF IInv, TypeOK

LEMMA CrashDrainInv ==
    ASSUME IInv, NEW d \in Drains, CrashDrain(d)
    PROVE  IInv'
<1>1. /\ UNCHANGED <<phase, stamp, outbox, delivered, late, consumerVars>>
      /\ queue' = [queue EXCEPT ![d] = {}] /\ call' = [call EXCEPT ![d] = NoCall]
      /\ faults' \in Nat
  BY FaultType DEF CrashDrain
<1>2. GoodCall(NoCall)' /\ NoCall \in Call
  BY FreshCallsNext DEF GoodCall
<1>3. call' \in [Callers -> Call] /\ GoodCall(call[d])' /\ \A x \in Callers : x # d => call'[x] = call[x]
  BY <1>1, <1>2, CallersType DEF IInv, TypeOK, GoodCall
<1>4. queue' \in [Drains -> SUBSET Events] /\ HappenedFirst' /\ DeliveredIsApplied'
  BY <1>1 DEF IInv, TypeOK, HappenedFirst, DeliveredIsApplied, consumerVars
<1> QED BY <1>1, <1>3, <1>4, CallersType, CallerStep DEF IInv, TypeOK

-----------------------------------------------------------------------------
LEMMA StepInv ==
    ASSUME IInv, [Next]_vars
    PROVE  IInv'
<1>1. CASE UNCHANGED vars
  BY <1>1, NoStep
<1>2. ASSUME NEW e \in Events, PublisherStep(e) PROVE IInv'
  BY <1>2, CommitInv, BuildInv, SaveInv, SaveFailsInv, EndPublishInv, CrashPublisherInv DEF PublisherStep
<1>3. ASSUME NEW c \in Callers, NEW s \in Subscribers, CallStep(c, s) PROVE IInv'
  BY <1>3, HandleInv, AnswerInv, FailInv, TimeoutInv DEF CallStep
<1>4. ASSUME NEW e \in Events, NEW s \in Subscribers, HandleLate(e, s) PROVE IInv'
  BY <1>4, HandleLateInv
<1>5. ASSUME NEW d \in Drains, DrainStep(d) PROVE IInv'
  BY <1>5, StartDrainInv, EndDeliveryInv, CrashDrainInv DEF DrainStep
<1> QED BY <1>1, <1>2, <1>3, <1>4, <1>5 DEF Next

LEMMA Invariance == Spec => []IInv
<1>1. Init => IInv
  BY InitInv
<1>2. IInv /\ [Next]_vars => IInv'
  BY StepInv
<1> QED BY <1>1, <1>2, PTL DEF Spec

-----------------------------------------------------------------------------
(***************************************************************************)
(* The refinement.  Facts, rows, effects and marks are the state of the    *)
(* channel; calls, queues, crashes and late answers are hidden by it.      *)
(***************************************************************************)
LEMMA ChannelInit == Init => Channel!Init
BY DEF Init, Channel!Init

\* A step that leaves the mapped state alone, or only marks what was applied.
LEMMA ChannelMark ==
    ASSUME IInv, NEW c \in Callers, call[c].waiting = {}, delivered' = Mark(c),
           UNCHANGED <<outbox, applied>>,
           \A e \in Events : (phase'[e] # "none") = (phase[e] # "none")
    PROVE  [Channel!Next]_(Channel!vars)
<1> DEFINE f == call[c].event
<1>1. /\ {e \in Events : phase'[e] # "none"} = {e \in Events : phase[e] # "none"}
      /\ [e \in Events |-> {s \in Subscribers : applied'[s][e] > 0}]
           = [e \in Events |-> {s \in Subscribers : applied[s][e] > 0}]
  OBVIOUS
<1>2. CASE delivered' = delivered
  BY <1>1, <1>2 DEF Channel!vars
<1>3. CASE delivered' # delivered
  <2>1. f \in outbox /\ f \in Events /\ delivered' = delivered \cup {f}
    BY <1>3 DEF Mark, IInv, TypeOK
  <2>2. Routes[f] \subseteq {s \in Subscribers : applied[s][f] > 0}
    BY <2>1, MarkIsApplied, RoutesAssumption
  <2>3. Channel!Retire(f)
    BY <1>1, <2>1, <2>2 DEF Channel!Retire
  <2> QED BY <2>1, <2>3 DEF Channel!Next
<1> QED BY <1>2, <1>3

\* An execution by a consumer is an effect, with the facts it brings, or nothing.
LEMMA ChannelReceive ==
    ASSUME IInv, NEW e \in Events, NEW s \in Subscribers, phase[e] # "none", s \in Routes[e],
           Receive(e, s), UNCHANGED <<outbox, delivered>>
    PROVE  [Channel!Next]_(Channel!vars)
<1> DEFINE F == {b \in Events : phase[b] = "none" /\ phase'[b] # "none"}
           eff == [x \in Events |-> {t \in Subscribers : applied[t][x] > 0}]
<1>1. /\ {b \in Events : phase'[b] # "none"} = {b \in Events : phase[b] # "none"} \cup F
      /\ F \in SUBSET (Events \ {b \in Events : phase[b] # "none"})
  BY ReceiveEffect DEF Grows
<1>2. [x \in Events |-> {t \in Subscribers : applied'[t][x] > 0}] = [eff EXCEPT ![e] = @ \cup {s}]
  <2>1. \A x \in Events : x # e =>
          {t \in Subscribers : applied'[t][x] > 0} = {t \in Subscribers : applied[t][x] > 0}
    BY ReceiveEffect
  <2>2. {t \in Subscribers : applied'[t][e] > 0} = {t \in Subscribers : applied[t][e] > 0} \cup {s}
    BY ReceiveEffect
  <2> QED BY <2>1, <2>2
<1>3. CASE applied[s][e] > 0
  <2>1. F = {} /\ [eff EXCEPT ![e] = @ \cup {s}] = eff
    BY <1>3, ReceiveEffect
  <2> QED BY <1>1, <1>2, <2>1 DEF Channel!vars
<1>4. CASE ~ (applied[s][e] > 0)
  <2>1. Channel!Happen(F)
    BY <1>1 DEF Channel!Happen
  <2>2. e \in {b \in Events : phase[b] # "none"} /\ s \in Routes[e] \ eff[e]
    BY <1>4
  <2> HIDE DEF F
  <2>3. \E G \in SUBSET (Events \ {b \in Events : phase[b] # "none"}) : Channel!Happen(G)
    BY <1>1, <2>1 DEF Channel!Happen
  <2>4. Channel!Apply(e, s)
    BY <1>2, <2>2, <2>3 DEF Channel!Apply, Channel!Happen
  <2> QED BY <2>4 DEF Channel!Next
<1> QED BY <1>3, <1>4

LEMMA ChannelPublisher ==
    ASSUME IInv, NEW e \in Events, PublisherStep(e)
    PROVE  [Channel!Next]_(Channel!vars)
<1>1. CASE Commit(e)
  <2>1. {f \in Events : phase'[f] # "none"} = {f \in Events : phase[f] # "none"} \cup {e}
    BY <1>1 DEF Commit, IInv, TypeOK
  <2>2. Channel!Fact(e)
    BY <1>1, <2>1 DEF Commit, consumerVars, Channel!Fact, Channel!Happen
  <2> QED BY <2>2 DEF Channel!Next
<1>2. CASE Save(e)
  <2>1. {f \in Events : phase'[f] # "none"} = {f \in Events : phase[f] # "none"}
    BY <1>2 DEF Save, IInv, TypeOK
  <2>2. Channel!Record(e)
    BY <1>2, <2>1 DEF Save, consumerVars, Channel!Record
  <2> QED BY <2>2 DEF Channel!Next
<1>3. CASE EndPublish(e)
  <2>1. \A f \in Events : (phase'[f] # "none") = (phase[f] # "none")
    BY <1>3 DEF EndPublish, IInv, TypeOK
  <2> QED BY <1>3, <2>1, CallersType, ChannelMark DEF EndPublish, consumerVars
<1>4. CASE Build(e) \/ SaveFails(e) \/ CrashPublisher(e)
  <2>1. {f \in Events : phase'[f] # "none"} = {f \in Events : phase[f] # "none"}
    BY <1>4 DEF Build, SaveFails, CrashPublisher, IInv, TypeOK
  <2> QED BY <1>4, <2>1 DEF Build, SaveFails, CrashPublisher, consumerVars, Channel!vars
<1> QED BY <1>1, <1>2, <1>3, <1>4 DEF PublisherStep

LEMMA ChannelCall ==
    ASSUME IInv, NEW c \in Callers, NEW s \in Subscribers, CallStep(c, s)
    PROVE  [Channel!Next]_(Channel!vars)
<1>1. CASE Handle(c, s)
  <2>1. GoodCall(call[c]) /\ s \in call[c].waiting
    BY <1>1 DEF IInv, CallsAreGood, Handle, Waiting
  <2>2. call[c].event \in Events /\ phase[call[c].event] # "none" /\ s \in Routes[call[c].event]
    BY <2>1 DEF GoodCall, Call
  <2> QED BY <1>1, <2>2, ChannelReceive DEF Handle
<1>2. CASE Answer(c, s) \/ Fail(c, s) \/ Unreachable(c, s) \/ Timeout(c, s)
  BY <1>2 DEF Answer, Fail, Unreachable, Timeout, consumerVars, Channel!vars
<1> QED BY <1>1, <1>2 DEF CallStep

LEMMA ChannelStep ==
    ASSUME IInv, [Next]_vars
    PROVE  [Channel!Next]_(Channel!vars)
<1>1. CASE UNCHANGED vars
  BY <1>1 DEF vars, consumerVars, Channel!vars
<1>2. ASSUME NEW e \in Events, NEW s \in Subscribers, HandleLate(e, s)
      PROVE  [Channel!Next]_(Channel!vars)
  <2>1. phase[e] # "none" /\ s \in Routes[e]
    BY <1>2 DEF IInv, HappenedFirst, HandleLate
  <2> QED BY <1>2, <2>1, ChannelReceive DEF HandleLate
<1>3. ASSUME NEW d \in Drains, DrainStep(d)
      PROVE  [Channel!Next]_(Channel!vars)
  <2>1. CASE StartDrain(d) \/ CrashDrain(d)
    BY <2>1 DEF StartDrain, CrashDrain, consumerVars, Channel!vars
  <2>2. CASE EndDelivery(d)
    BY <2>2, CallersType, ChannelMark DEF EndDelivery, consumerVars
  <2> QED BY <1>3, <2>1, <2>2 DEF DrainStep
<1> QED BY <1>1, <1>2, <1>3, ChannelPublisher, ChannelCall DEF Next

\* Every reachable state of the bus is well typed.
THEOREM TypeCorrect == Spec => []TypeOK
<1>1. IInv => TypeOK
  BY DEF IInv
<1> QED BY <1>1, Invariance, PTL

\* For any number of overlapping runs and of faults, a row is marked delivered
\* only when every subscriber has applied its event.
THEOREM MarkedMeansApplied == Spec => []DeliveredIsApplied
<1>1. IInv => DeliveredIsApplied
  BY DEF IInv
<1> QED BY <1>1, Invariance, PTL

\* However often an event is called, a consumer applies it at most once.
THEOREM OncePerConsumer == Spec => []AppliedAtMostOnce
<1>1. IInv => AppliedAtMostOnce
  BY DEF IInv
<1> QED BY <1>1, Invariance, PTL

\* The bus implements the channel's steps for every value of the
\* constants: what publish, the webhooks, the consumers and the drain do is a
\* channel step or changes nothing the channel has.
THEOREM ImplementsChannel == Spec => ChannelSpec
<1>1. Init => Channel!Init
  BY ChannelInit
<1>2. IInv /\ [Next]_vars => [Channel!Next]_(Channel!vars)
  BY ChannelStep
<1> QED BY <1>1, <1>2, Invariance, PTL DEF Spec, ChannelSpec, Channel!Spec
=============================================================================

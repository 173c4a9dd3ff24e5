----------------------- MODULE CongestionAnalysisProofs -----------------------
(***************************************************************************)
(* Safety of Congestion Analysis for any events, fill rates, listeners and *)
(* numbers of faults.                                                      *)
(***************************************************************************)
EXTENDS CongestionAnalysis, FiniteSetTheorems, TLAPS

(* A thread that is not idle has an event; only such a thread has a        *)
(* delivery to settle, and it publishes only what the rules call for.      *)
InvListener ==
  \A c \in Consumers :
    /\ listener[c].step # "idle" => listener[c].event \in Events
    /\ listener[c].live => listener[c].step # "idle"
    /\ listener[c].step = "publish" => evaluate(listener[c].event) # None

(* The alert of e, if the rules call for one, has left the service. *)
Served(e) == evaluate(e) = None \/ sent[e] > 0 \/ e \in unconfirmed

(* Nothing is acknowledged, or about to be, before its alert has left. *)
InvServed ==
  /\ \A c \in Consumers : listener[c].step = "ack" => Served(listener[c].event)
  /\ \A e \in acked : Served(e)

(* The alerts at the exchange are those the rules give for what was sent. *)
InvAlerts ==
  /\ \A a \in alerts : a.event \in Events /\ a = evaluate(a.event)
  /\ \A e \in Events : sent[e] > 0 /\ evaluate(e) # None => evaluate(e) \in alerts

(* The event is where the broker, or somebody reading dlq.errors, has it,  *)
(* or was dealt with.                                                      *)
Placed(e) == e \in ready \/ e \in dlq \/ e \in acked \/ InHand(e)

InvPlace == \A e \in Events : Placed(e)

(* The threads that may still send the alert of e. *)
Pending(e) == {c \in Consumers : listener[c].event = e /\ listener[c].step \in {"evaluate", "publish"}}

(* Each of them stands for a delivery of its own, also after an outage has *)
(* handed the event to a second thread.                                    *)
InvDeliveries ==
  \A e \in Events :
    IsFiniteSet(Pending(e)) /\ sent[e] + Cardinality(Pending(e)) <= deliveries[e]

(* What holds whichever events are in the queue. *)
Core == TypeOK /\ InvListener /\ InvServed /\ InvAlerts /\ InvDeliveries

IInv == Core /\ InvPlace

-----------------------------------------------------------------------------
(* The rules.                                                              *)

(* The fields of an event. *)
LEMMA EventFacts ==
  ASSUME NEW e \in Events
  PROVE  /\ EventOf[e].containerCount \in Nat
         /\ EventOf[e].capacity \in Nat /\ EventOf[e].capacity > 0
         /\ EventOf[e].blockageDetected \in BOOLEAN /\ EventOf[e].vesselEta \in BOOLEAN
  BY EventAssumption DEF ProcessedTelemetryEvent

(* An alert has a known type, severity and action, and names its event. *)
LEMMA AlertFacts ==
  ASSUME NEW e \in Events, evaluate(e) # None
  PROVE  evaluate(e) \in CongestionAlertEvent /\ evaluate(e).event = e
  BY DEF evaluate, buildAlert, CongestionAlertEvent

(* A sector at least as full exceeds every threshold that the other does. *)
LEMMA ExceedsMonotone ==
  ASSUME NEW x \in Nat, NEW y \in Nat, y > 0, NEW u \in Nat, NEW v \in Nat, v > 0,
         NEW p \in Nat, u * y >= x * v, 100 * x > p * y
  PROVE  100 * u > p * v
  <1>1. (100 * x) * v > (p * y) * v
    BY SMT
  <1>2. (100 * u) * y >= (100 * x) * v
    <2>1. 100 * (u * y) >= 100 * (x * v)
      BY SMT
    <2> QED
      BY <2>1, SMT
  <1>3. (100 * u) * y > (p * v) * y
    BY <1>1, <1>2, SMT
  <1>4. SUFFICES ASSUME 100 * u <= p * v PROVE FALSE
    BY SMT
  <1>5. (100 * u) * y <= (p * v) * y
    BY <1>4, SMT
  <1> QED
    BY <1>3, <1>5, SMT

(* evaluate is monotone: a sector at least as bad gets an alert at least   *)
(* as severe.                                                              *)
LEMMA EvaluateMonotone ==
  ASSUME NEW e \in Events, NEW f \in Events, AtLeastAsBad(f, e), evaluate(e) # None
  PROVE  evaluate(f) # None /\ Rank(evaluate(f)) >= Rank(evaluate(e))
  <1>1. ASSUME NEW p \in Nat, Exceeds(e, p) PROVE Exceeds(f, p)
    BY <1>1, EventFacts, ExceedsMonotone DEF Exceeds, AtLeastAsBad
  <1>2. /\ Exceeds(e, 90) => Exceeds(f, 90)
        /\ Exceeds(e, 85) => Exceeds(f, 85)
    BY <1>1
  <1>3. EventOf[e].blockageDetected /\ EventOf[e].vesselEta
          => EventOf[f].blockageDetected /\ EventOf[f].vesselEta
    BY DEF AtLeastAsBad
  <1>4. None \notin CongestionAlertEvent
    BY NoneAssumption
  <1>5. evaluate(f) # None
    BY <1>2, <1>3, <1>4 DEF evaluate, buildAlert, CongestionAlertEvent
  <1>6. Rank(evaluate(e)) = 2 => Rank(evaluate(f)) = 2
    BY <1>2, <1>3, <1>5 DEF evaluate, buildAlert, Rank
  <1> QED
    BY <1>5, <1>6 DEF Rank

-----------------------------------------------------------------------------
(* The invariant.                                                          *)

(* It holds before the first event is received. *)
(* Before anything is received the parts hold, whatever is in the queue. *)
LEMMA CoreInit == Fresh /\ ready \subseteq Events => Core
  <1> SUFFICES ASSUME Fresh, ready \subseteq Events PROVE Core
    OBVIOUS
  <1>1. \A e \in Events : Pending(e) = {}
    BY DEF Fresh, Idle, Pending
  <1>2. InvDeliveries
    <2>1. IsFiniteSet({}) /\ Cardinality({}) = 0
      BY FS_EmptySet
    <2>2. \A e \in Events : sent[e] = 0 /\ deliveries[e] = 0
      BY DEF Fresh
    <2>3. \A e \in Events : IsFiniteSet(Pending(e)) /\ Cardinality(Pending(e)) = 0
      BY <1>1, <2>1, Zenon
    <2>4. ASSUME NEW e \in Events
          PROVE  IsFiniteSet(Pending(e)) /\ sent[e] + Cardinality(Pending(e)) <= deliveries[e]
      BY <2>2, <2>3
    <2> QED
      BY <2>4 DEF InvDeliveries
  <1>3. TypeOK
    BY BoundAssumption DEF Fresh, TypeOK, Idle, Listener
  <1>4. InvListener /\ InvServed
    BY DEF Fresh, InvListener, InvServed, Idle
  <1>5. InvAlerts
    BY DEF Fresh, InvAlerts
  <1> QED
    BY <1>2, <1>3, <1>4, <1>5 DEF Core

(* What a step does to the threads that may send the alert of e. *)
LEMMA PendingMoves ==
  ASSUME NEW c \in Consumers, NEW e \in Events,
         IsFiniteSet(Pending(e)),
         \A d \in Consumers \ {c} : listener'[d].event = listener[d].event
                                  /\ listener'[d].step = listener[d].step
  PROVE  /\ IsFiniteSet(Pending(e)')
         /\ Cardinality(Pending(e)) \in Nat
         /\ c \in Pending(e)' /\ c \notin Pending(e)
              => Cardinality(Pending(e)') = Cardinality(Pending(e)) + 1
         /\ c \notin Pending(e)' /\ c \in Pending(e)
              => Cardinality(Pending(e)') = Cardinality(Pending(e)) - 1
         /\ (c \in Pending(e)' <=> c \in Pending(e))
              => Cardinality(Pending(e)') = Cardinality(Pending(e))
  <1>1. \/ Pending(e)' = Pending(e) \cup {c}
        \/ Pending(e)' = Pending(e) \ {c}
    BY DEF Pending
  <1>2. Cardinality(Pending(e)) \in Nat
    BY FS_CardinalityType
  <1>3. /\ IsFiniteSet(Pending(e) \cup {c})
        /\ c \notin Pending(e)
             => Cardinality(Pending(e) \cup {c}) = Cardinality(Pending(e)) + 1
    BY FS_AddElement
  <1>4. /\ IsFiniteSet(Pending(e) \ {c})
        /\ c \in Pending(e)
             => Cardinality(Pending(e) \ {c}) = Cardinality(Pending(e)) - 1
    BY FS_RemoveElement
  <1>5. c \in Pending(e) => Pending(e) \cup {c} = Pending(e)
    OBVIOUS
  <1>6. c \notin Pending(e) => Pending(e) \ {c} = Pending(e)
    OBVIOUS
  <1>7. CASE Pending(e)' = Pending(e) \cup {c}
    BY <1>2, <1>3, <1>5, <1>7
  <1>8. CASE Pending(e)' = Pending(e) \ {c}
    BY <1>2, <1>4, <1>6, <1>8
  <1> QED
    BY <1>1, <1>7, <1>8

(* What every step keeps: the parts, and the place of each event. *)
Kept == Core' /\ \A g \in Events : Placed(g) => Placed(g)'

(* Every step of a listener, the broker and the faults keeps them. *)
LEMMA CoreNext ==
  ASSUME Core, [Next]_vars
  PROVE  Kept
  <1> USE DEF Core, Kept
  <1>t. /\ listener \in [Consumers -> Listener] /\ sent \in [Events -> Nat]
        /\ deliveries \in [Events -> Nat] /\ faults \in 0..MaxFaults
        /\ ready \subseteq Events /\ dlq \subseteq Events /\ acked \subseteq Events
        /\ unconfirmed \subseteq Events /\ MaxFaults \in Nat
    BY BoundAssumption DEF TypeOK
  <1>p. \A c \in Consumers :
          /\ listener[c].event \in Events \cup {None}
          /\ listener[c].step \in {"idle", "evaluate", "publish", "ack"}
          /\ listener[c].live \in BOOLEAN
    BY <1>t DEF Listener
  <1>f. Fault => faults' \in 0..MaxFaults
    BY <1>t DEF Fault
  <1>i. Idle \in Listener /\ Idle.step = "idle" /\ Idle.live = FALSE /\ Idle.event = None
    BY DEF Idle, Listener
  (* A step of one thread: what becomes of the deliveries. *)
  <1>d. ASSUME NEW c \in Consumers,
               \A d \in Consumers \ {c} : listener'[d] = listener[d],
               sent' \in [Events -> Nat], deliveries' \in [Events -> Nat],
               \A e \in Events :
                 LET before == IF c \in Pending(e) THEN 1 ELSE 0
                     after == IF c \in Pending(e)' THEN 1 ELSE 0
                 IN  sent'[e] + after + deliveries[e] <= sent[e] + before + deliveries'[e]
        PROVE  InvDeliveries'
    <2> SUFFICES ASSUME NEW e \in Events
                 PROVE  IsFiniteSet(Pending(e)') /\ sent'[e] + Cardinality(Pending(e)') <= deliveries'[e]
      BY DEF InvDeliveries
    <2>1. IsFiniteSet(Pending(e)) /\ sent[e] + Cardinality(Pending(e)) <= deliveries[e]
      BY DEF InvDeliveries
    <2>2. /\ IsFiniteSet(Pending(e)')
          /\ Cardinality(Pending(e)) \in Nat
          /\ c \in Pending(e)' /\ c \notin Pending(e)
               => Cardinality(Pending(e)') = Cardinality(Pending(e)) + 1
          /\ c \notin Pending(e)' /\ c \in Pending(e)
               => Cardinality(Pending(e)') = Cardinality(Pending(e)) - 1
          /\ (c \in Pending(e)' <=> c \in Pending(e))
               => Cardinality(Pending(e)') = Cardinality(Pending(e))
      BY <1>d, <2>1, PendingMoves
    <2>3. /\ sent[e] \in Nat /\ deliveries[e] \in Nat /\ sent'[e] \in Nat /\ deliveries'[e] \in Nat
      BY <1>t, <1>d
    <2>4. sent'[e] + (IF c \in Pending(e)' THEN 1 ELSE 0) + deliveries[e]
            <= sent[e] + (IF c \in Pending(e) THEN 1 ELSE 0) + deliveries'[e]
      BY <1>d
    <2> QED
      BY <2>1, <2>2, <2>3, <2>4
  <1>0. CASE UNCHANGED vars
    BY <1>0 DEF vars, inVars, outVars, TypeOK, InvListener, InvServed, InvAlerts, Placed,
       InvDeliveries, Served, InHand, Pending
  <1>1. ASSUME NEW c \in Consumers, Receive(c) PROVE Kept
    <2>1. PICK e \in ready :
            /\ ready' = ready \ {e}
            /\ deliveries' = [deliveries EXCEPT ![e] = @ + 1]
            /\ listener' = [listener EXCEPT ![c] = [step |-> "evaluate", event |-> e, live |-> TRUE]]
      BY <1>1 DEF Receive
    <2>2. /\ UNCHANGED <<brokerUp, dlq, acked, alerts, sent, unconfirmed, faults>>
          /\ listener[c].step = "idle" /\ ~listener[c].live
      BY <1>1 DEF Receive, outVars, InvListener
    <2>3. listener'[c] = [step |-> "evaluate", event |-> e, live |-> TRUE]
      BY <1>t, <2>1
    <2>4. \A d \in Consumers \ {c} : listener'[d] = listener[d]
      BY <1>t, <2>1
    <2>5. TypeOK'
      BY <1>t, <2>1, <2>2 DEF TypeOK, Listener
    <2>6. InvListener' /\ InvServed'
      BY <1>t, <2>1, <2>2, <2>3, <2>4 DEF InvListener, InvServed, Served
    <2>7. InvAlerts'
      BY <2>2 DEF InvAlerts
    <2>8. \A g \in Events : Placed(g) => Placed(g)'
      BY <2>1, <2>2, <2>3, <2>4 DEF Placed, InHand
    <2>9. InvDeliveries'
      <3>1. \A g \in Events : c \notin Pending(g) /\ (c \in Pending(g)' <=> g = e)
        BY <2>2, <2>3 DEF Pending
      <3>2. \A g \in Events : deliveries'[g] = IF g = e THEN deliveries[g] + 1 ELSE deliveries[g]
        BY <1>t, <2>1
      <3>3. deliveries' \in [Events -> Nat] /\ sent' \in [Events -> Nat]
        BY <1>t, <2>1, <2>2
      <3> QED
        BY <1>d, <1>t, <2>2, <2>4, <3>1, <3>2, <3>3
    <2> QED
      BY <2>5, <2>6, <2>7, <2>8, <2>9
  <1>2. ASSUME NEW c \in Consumers, Evaluate(c) PROVE Kept
    <2> DEFINE e == listener[c].event
    <2>1. /\ UNCHANGED <<brokerUp, ready, dlq, deliveries, acked, alerts, sent, unconfirmed, faults>>
          /\ listener[c].step = "evaluate" /\ e \in Events
      BY <1>2 DEF Evaluate, inVars, outVars, InvListener
    <2>2. listener' = [listener EXCEPT ![c].step = IF evaluate(e) = None THEN "ack" ELSE "publish"]
      BY <1>2 DEF Evaluate
    <2>3. /\ listener'[c].event = e /\ listener'[c].live = listener[c].live
          /\ listener'[c].step = IF evaluate(e) = None THEN "ack" ELSE "publish"
      BY <1>t, <2>2 DEF Listener
    <2>4. \A d \in Consumers \ {c} : listener'[d] = listener[d]
      BY <1>t, <2>2
    <2>5. TypeOK'
      <3>1. listener' \in [Consumers -> Listener]
        BY <1>t, <2>2 DEF Listener
      <3> QED
        BY <2>1, <3>1 DEF TypeOK
    <2>6. InvListener' /\ InvServed'
      BY <1>t, <2>1, <2>3, <2>4 DEF InvListener, InvServed, Served
    <2>7. InvAlerts'
      BY <2>1 DEF InvAlerts
    <2>8. \A g \in Events : Placed(g) => Placed(g)'
      BY <2>1, <2>3, <2>4 DEF Placed, InHand
    <2>9. InvDeliveries'
      <3>1. \A g \in Events : c \in Pending(g)' => c \in Pending(g)
        BY <2>1, <2>3 DEF Pending
      <3> QED
        BY <1>d, <1>t, <2>1, <2>4, <3>1
    <2> QED
      BY <2>5, <2>6, <2>7, <2>8, <2>9
  <1>3. ASSUME NEW c \in Consumers, publish(c) PROVE Kept
    <2> DEFINE e == listener[c].event
    <2>1. /\ UNCHANGED <<brokerUp, ready, dlq, deliveries, acked, faults>>
          /\ listener[c].step = "publish" /\ e \in Events /\ evaluate(e) # None
          /\ listener' = [listener EXCEPT ![c].step = "ack"]
      BY <1>3 DEF publish, inVars, InvListener
    <2>2. \/ /\ alerts' = alerts \cup {evaluate(e)}
             /\ sent' = [sent EXCEPT ![e] = @ + 1]
             /\ unconfirmed' = unconfirmed
          \/ unconfirmed' = unconfirmed \cup {e} /\ alerts' = alerts /\ sent' = sent
      BY <1>3 DEF publish
    <2>3. /\ listener'[c].event = e /\ listener'[c].live = listener[c].live
          /\ listener'[c].step = "ack"
      BY <1>t, <2>1 DEF Listener
    <2>4. \A d \in Consumers \ {c} : listener'[d] = listener[d]
      BY <1>t, <2>1
    <2>5. evaluate(e) \in CongestionAlertEvent /\ evaluate(e).event = e
      BY <2>1, AlertFacts
    <2>6. /\ sent' \in [Events -> Nat]
          /\ \A g \in Events : sent'[g] = sent[g] \/ (g = e /\ sent'[g] = sent[g] + 1
                                                       /\ evaluate(e) \in alerts')
          /\ sent'[e] > 0 \/ e \in unconfirmed'
      BY <1>t, <2>1, <2>2
    <2>7. \A g \in Events : Served(g) => Served(g)'
      BY <1>t, <2>2, <2>6 DEF Served
    <2>8. TypeOK'
      <3>1. listener' \in [Consumers -> Listener]
        BY <1>t, <2>1 DEF Listener
      <3>2. alerts' \subseteq CongestionAlertEvent /\ unconfirmed' \subseteq Events
        BY <2>1, <2>2, <2>5 DEF TypeOK
      <3> QED
        BY <2>1, <2>6, <3>1, <3>2 DEF TypeOK
    <2>9. InvListener'
      BY <2>1, <2>3, <2>4 DEF InvListener
    <2>10. InvServed'
      <3>1. Served(listener[c].event)'
        BY <2>3, <2>6 DEF Served
      <3>2. \A d \in Consumers \ {c} : listener'[d].step = "ack" => Served(listener[d].event)'
        BY <2>4, <2>7 DEF InvServed, InvListener
      <3>3. \A g \in acked : Served(g)'
        BY <1>t, <2>7 DEF InvServed
      <3> QED
        BY <2>1, <2>3, <2>4, <3>1, <3>2, <3>3 DEF InvServed, Served
    <2>11. InvAlerts'
      BY <2>1, <2>2, <2>5, <2>6 DEF InvAlerts
    <2>12. \A g \in Events : Placed(g) => Placed(g)'
      BY <2>1, <2>3, <2>4 DEF Placed, InHand
    <2>13. InvDeliveries'
      <3>1. \A g \in Events : c \notin Pending(g)' /\ (c \in Pending(g) <=> g = e)
        BY <2>1, <2>3 DEF Pending
      <3>2. \A g \in Events : sent'[g] <= IF g = e THEN sent[g] + 1 ELSE sent[g]
        BY <1>t, <2>6
      <3> QED
        BY <1>d, <1>t, <2>1, <2>4, <2>6, <3>1, <3>2
    <2> QED
      BY <2>8, <2>9, <2>10, <2>11, <2>12, <2>13
  (* The three steps that end a handler. *)
  <1>4. ASSUME NEW c \in Consumers, listener' = [listener EXCEPT ![c] = Idle],
               UNCHANGED <<deliveries, alerts, sent, unconfirmed>>,
               brokerUp' \in BOOLEAN, faults' \in 0..MaxFaults,
               ready \subseteq ready', dlq \subseteq dlq', acked \subseteq acked',
               ready' \subseteq Events, dlq' \subseteq Events, acked' \subseteq Events,
               listener[c].live => listener[c].event \in ready' \cup dlq' \cup acked',
               \A e \in acked' : e \in acked \/ (e = listener[c].event /\ listener[c].step = "ack")
        PROVE  Kept
    <2>1. listener'[c] = Idle
      BY <1>4, <1>t
    <2>2. \A d \in Consumers \ {c} : listener'[d] = listener[d]
      BY <1>t, <1>4
    <2>3. TypeOK'
      BY <1>t, <1>i, <1>4 DEF TypeOK
    <2>4. InvListener'
      BY <1>i, <1>4, <2>1, <2>2 DEF InvListener
    <2>5. InvServed'
      BY <1>i, <1>4, <2>1, <2>2 DEF InvServed, Served
    <2>6. InvAlerts'
      BY <1>4 DEF InvAlerts
    <2>7. \A g \in Events : Placed(g) => Placed(g)'
      BY <1>4, <2>1, <2>2 DEF Placed, InHand
    <2>8. InvDeliveries'
      <3>1. \A g \in Events : c \notin Pending(g)'
        BY <1>i, <2>1 DEF Pending
      <3> QED
        BY <1>d, <1>t, <1>4, <2>2, <3>1
    <2> QED
      BY <2>3, <2>4, <2>5, <2>6, <2>7, <2>8
  <1>5. ASSUME NEW c \in Consumers, publishThrows(c) PROVE Kept
    <2>1. listener[c].event \in Events
      BY <1>5 DEF publishThrows, InvListener
    <2>2. brokerUp' \in BOOLEAN /\ faults' \in 0..MaxFaults
      BY <1>t, <1>f, <1>5 DEF publishThrows, TypeOK
    <2> QED
      BY <1>4, <1>5, <1>t, <2>1, <2>2 DEF publishThrows, outVars
  <1>6. ASSUME NEW c \in Consumers, Ack(c) PROVE Kept
    <2>1. listener[c].event \in Events
      BY <1>6 DEF Ack, InvListener
    <2>2. brokerUp' \in BOOLEAN /\ faults' \in 0..MaxFaults
      BY <1>t, <1>6 DEF Ack, TypeOK
    <2> QED
      BY <1>4, <1>6, <1>t, <2>1, <2>2 DEF Ack, outVars
  <1>7. ASSUME NEW c \in Consumers, Crash(c) PROVE Kept
    <2>1. listener[c].event \in Events
      BY <1>7 DEF Crash, InvListener
    <2>2. brokerUp' \in BOOLEAN /\ faults' \in 0..MaxFaults
      BY <1>t, <1>f, <1>7 DEF Crash, TypeOK
    <2> QED
      BY <1>4, <1>7, <1>t, <2>1, <2>2 DEF Crash, outVars
  <1>8. CASE BrokerDown
    <2>1. /\ UNCHANGED <<dlq, deliveries, acked, alerts, sent, unconfirmed>>
          /\ ready' = ready \cup {listener[c].event : c \in {d \in Consumers : listener[d].live}}
          /\ listener' = [c \in Consumers |-> [listener[c] EXCEPT !.live = FALSE]]
          /\ brokerUp' = FALSE /\ faults' \in 0..MaxFaults
      BY <1>8, <1>f DEF BrokerDown, outVars
    <2>2. \A c \in Consumers : /\ listener'[c].step = listener[c].step
                               /\ listener'[c].event = listener[c].event
                               /\ listener'[c].live = FALSE
                               /\ listener'[c] \in Listener
      BY <1>t, <2>1 DEF Listener
    <2>3. \A c \in Consumers : listener[c].live => listener[c].event \in Events
      BY DEF InvListener
    <2>4. TypeOK'
      BY <1>t, <2>1, <2>2, <2>3 DEF TypeOK
    <2>5. InvListener' /\ InvServed'
      BY <2>1, <2>2 DEF InvListener, InvServed, Served
    <2>6. InvAlerts'
      BY <2>1 DEF InvAlerts
    <2>7. \A g \in Events : Placed(g) => Placed(g)'
      BY <2>1 DEF Placed, InHand
    <2>8. InvDeliveries'
      <3>1. \A e \in Events : Pending(e)' = Pending(e)
        BY <2>2 DEF Pending
      <3> QED
        BY <2>1, <3>1 DEF InvDeliveries
    <2> QED
      BY <2>4, <2>5, <2>6, <2>7, <2>8
  <1>9. CASE BrokerBack
    BY <1>9 DEF BrokerBack, inVars, outVars, TypeOK, InvListener, InvServed, InvAlerts, Placed,
       InvDeliveries, Served, InHand, Pending
  <1> QED
    BY <1>0, <1>1, <1>2, <1>3, <1>5, <1>6, <1>7, <1>8, <1>9 DEF Next, onTelemetryReceived

(* The pending alerts of an event take up deliveries of their own. *)
LEMMA AlertsWithinDeliveries == Core => OneAlertPerDelivery
  <1> SUFFICES ASSUME Core, NEW e \in Events PROVE sent[e] <= deliveries[e]
    BY DEF OneAlertPerDelivery
  <1>1. IsFiniteSet(Pending(e)) /\ sent[e] + Cardinality(Pending(e)) <= deliveries[e]
    BY DEF Core, InvDeliveries
  <1>2. Cardinality(Pending(e)) \in Nat
    BY <1>1, FS_CardinalityType
  <1>3. sent[e] \in Nat /\ deliveries[e] \in Nat
    BY DEF Core, TypeOK
  <1> QED
    BY <1>1, <1>2, <1>3

(* The invariant holds throughout. *)
LEMMA Invariant == Spec => []IInv
  <1>1. Init => IInv
    BY CoreInit DEF Init, IInv, InvPlace, Placed
  <1>2. IInv /\ [Next]_vars => IInv'
    BY CoreNext DEF IInv, InvPlace, Kept
  <1> QED
    BY <1>1, <1>2, PTL DEF Spec

-----------------------------------------------------------------------------
(* Every variable of the service keeps its type; alerts have a known type, *)
(* severity and action (CongestionAlertEvent).                             *)
THEOREM TypeCorrect == Spec => []TypeOK
  <1>1. IInv => TypeOK
    BY DEF IInv, Core
  <1> QED
    BY <1>1, Invariant, PTL

(* No outage, crash or failing publish loses an alarm: an event leaves the *)
(* queue's care only after its alert was sent (onTelemetryReceived).       *)
THEOREM NoAlarmSwallowed == Spec => []AlarmNotSwallowed
  <1>1. IInv => AlarmNotSwallowed
    BY DEF IInv, Core, InvPlace, Placed, InvServed, Served, AlarmNotSwallowed
  <1> QED
    BY <1>1, Invariant, PTL

(* However often listeners crash and overlap, an event is alerted at most  *)
(* once per delivery (onTelemetryReceived).                                *)
THEOREM AlertsCounted == Spec => []OneAlertPerDelivery
  <1>1. IInv => OneAlertPerDelivery
    BY AlertsWithinDeliveries DEF IInv
  <1> QED
    BY <1>1, Invariant, PTL

(* For all fill rates, on the thresholds too, the rules never report a     *)
(* worse sector more mildly (CongestionRuleEngine.evaluate).               *)
THEOREM WorseIsNotMilder == Spec => []WorseNotMilder
  <1>1. IInv => WorseNotMilder
    <2> SUFFICES ASSUME IInv, NEW a \in alerts, NEW f \in acked \ unconfirmed,
                        AtLeastAsBad(f, a.event)
                 PROVE  \E b \in alerts : b.event = f /\ Rank(b) >= Rank(a)
      BY DEF WorseNotMilder
    <2>1. a.event \in Events /\ a = evaluate(a.event) /\ f \in Events /\ Served(f)
      BY DEF IInv, Core, TypeOK, InvAlerts, InvServed
    <2>2. evaluate(a.event) # None
      BY <2>1, NoneAssumption DEF IInv, Core, TypeOK
    <2>3. evaluate(f) # None /\ Rank(evaluate(f)) >= Rank(a)
      BY <2>1, <2>2, EvaluateMonotone
    <2>4. evaluate(f) \in alerts
      BY <2>1, <2>3 DEF IInv, Core, InvAlerts, Served
    <2>5. evaluate(f).event = f
      BY <2>1, <2>3, AlertFacts
    <2> QED
      BY <2>3, <2>4, <2>5
  <1> QED
    BY <1>1, Invariant, PTL
=============================================================================

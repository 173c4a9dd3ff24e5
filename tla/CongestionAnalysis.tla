-------------------------- MODULE CongestionAnalysis --------------------------
(***************************************************************************)
(* The Congestion Analysis service: the listener on telemetry.processed    *)
(* (TelemetryConsumer), the rules that turn an event into an alert         *)
(* (CongestionRuleEngine) and the publication of congestion.alert          *)
(* (CongestionAlertProducer) to the exchange.  Listener threads interleave *)
(* with broker outages and crashes.                                        *)
(***************************************************************************)
EXTENDS Naturals

CONSTANTS
  Events,     \* the messages the Telemetry Service has published
  EventOf,    \* the ProcessedTelemetryEvent each one carries
  Consumers,  \* the listener threads, one per replica
  None,       \* no event, no alert
  MaxFaults   \* bound on outages, crashes and failing publishes

(* fillRate stands as the two integers it is the quotient of, within the   *)
(* bounds the Telemetry Service enforces.  Go and Java agree on the double *)
(* and its JSON form, equal quotients round to equal doubles, and a        *)
(* quotient above a threshold rounds above it for capacities below 2^45,   *)
(* so comparing the doubles is comparing the fractions.  vesselEta says    *)
(* whether the string has text.                                            *)
ProcessedTelemetryEvent ==
  {e \in [containerCount : Nat, capacity : Nat \ {0}, blockageDetected : BOOLEAN,
          vesselEta : BOOLEAN] : e.containerCount <= e.capacity}

ASSUME EventAssumption == EventOf \in [Events -> ProcessedTelemetryEvent]
ASSUME BoundAssumption == MaxFaults \in Nat

VARIABLES
  brokerUp,     \* RabbitMQ is reachable
  ready,        \* events waiting in telemetry.processed
  dlq,          \* events dead-lettered to dlq.errors
  deliveries,   \* how often each event was handed to the listener
  listener,     \* the local state of each listener thread
  acked,        \* events whose delivery was acknowledged
  alerts,       \* the alerts that reached the exchange
  sent,         \* how often the alert of each event reached the exchange
  unconfirmed,  \* events whose alert was sent into a lost connection
  faults

inVars  == <<ready, dlq, deliveries, acked>>
outVars == <<alerts, sent, unconfirmed>>
vars == <<brokerUp, inVars, listener, outVars, faults>>

CongestionAlertEvent ==
  [event : Events, alertType : {"IMMEDIATE_ACTION", "SECTOR_CRITICAL", "SECTOR_WARNING"},
   severity : {"HIGH", "MEDIUM"},
   recommendedAction : {"HOLD_VESSEL", "REDIRECT_CRANE", "MONITOR_SECTOR"}]

ASSUME NoneAssumption == None \notin Events \cup CongestionAlertEvent

Listener == [step : {"idle", "evaluate", "publish", "ack"}, event : Events \cup {None},
             live : BOOLEAN]

-----------------------------------------------------------------------------
(* The rules.                                                              *)

buildAlert(e, alertType, severity, recommendedAction) ==
  [event |-> e, alertType |-> alertType, severity |-> severity,
   recommendedAction |-> recommendedAction]

(* fillRate > percent / 100, on integers. *)
Exceeds(e, percent) == 100 * EventOf[e].containerCount > percent * EventOf[e].capacity

(* Mutant: the blockage rule is tested after the thresholds. *)
evaluateBlockageLast(e) ==
  IF Exceeds(e, 90) THEN buildAlert(e, "SECTOR_CRITICAL", "HIGH", "REDIRECT_CRANE")
  ELSE IF Exceeds(e, 85) THEN buildAlert(e, "SECTOR_WARNING", "MEDIUM", "MONITOR_SECTOR")
  ELSE IF EventOf[e].blockageDetected /\ EventOf[e].vesselEta
  THEN buildAlert(e, "IMMEDIATE_ACTION", "HIGH", "HOLD_VESSEL")
  ELSE None

evaluate(e) ==
  IF EventOf[e].blockageDetected /\ EventOf[e].vesselEta
  THEN buildAlert(e, "IMMEDIATE_ACTION", "HIGH", "HOLD_VESSEL")
  ELSE IF Exceeds(e, 90) THEN buildAlert(e, "SECTOR_CRITICAL", "HIGH", "REDIRECT_CRANE")
  ELSE IF Exceeds(e, 85) THEN buildAlert(e, "SECTOR_WARNING", "MEDIUM", "MONITOR_SECTOR")
  ELSE None

-----------------------------------------------------------------------------
Idle == [step |-> "idle", event |-> None, live |-> FALSE]

(* Nothing has been received yet. *)
Fresh ==
  /\ brokerUp = TRUE
  /\ dlq = {}
  /\ deliveries = [e \in Events |-> 0]
  /\ listener = [c \in Consumers |-> Idle]
  /\ acked = {}
  /\ alerts = {}
  /\ sent = [e \in Events |-> 0]
  /\ unconfirmed = {}
  /\ faults = 0

Init == Fresh /\ ready = Events

Fault == faults < MaxFaults /\ faults' = faults + 1

(* Steps of onTelemetryReceived in the listener container.                 *)

Receive(c) ==
  /\ listener[c].step = "idle"
  /\ brokerUp
  /\ \E e \in ready :
       /\ ready' = ready \ {e}
       /\ deliveries' = [deliveries EXCEPT ![e] = @ + 1]
       /\ listener' = [listener EXCEPT ![c] = [step |-> "evaluate", event |-> e, live |-> TRUE]]
  /\ UNCHANGED <<brokerUp, dlq, acked, outVars, faults>>

Evaluate(c) ==
  /\ listener[c].step = "evaluate"
  /\ listener' = [listener EXCEPT ![c].step =
                    IF evaluate(listener[c].event) = None THEN "ack" ELSE "publish"]
  /\ UNCHANGED <<brokerUp, inVars, outVars, faults>>

(* No publisher confirms: in an outage the alert can vanish unnoticed. *)
publish(c) ==
  LET e == listener[c].event IN
  /\ listener[c].step = "publish"
  /\ listener' = [listener EXCEPT ![c].step = "ack"]
  /\ IF brokerUp
     THEN /\ alerts' = alerts \cup {evaluate(e)}
          /\ sent' = [sent EXCEPT ![e] = @ + 1]
          /\ UNCHANGED unconfirmed
     ELSE unconfirmed' = unconfirmed \cup {e} /\ UNCHANGED <<alerts, sent>>
  /\ UNCHANGED <<brokerUp, inVars, faults>>

(* Mutant: the exception of convertAndSend is swallowed. *)
publishThrowsIsSwallowed(c) ==
  /\ listener[c].step = "publish"
  /\ \/ ~brokerUp /\ UNCHANGED faults
     \/ brokerUp /\ Fault
  /\ listener' = [listener EXCEPT ![c].step = "ack"]
  /\ UNCHANGED <<brokerUp, inVars, outVars>>

(* convertAndSend throws, because of an outage or because no channel can   *)
(* be opened.  The container rejects without requeue, at the first failure *)
(* (its factory has no retry advice), and telemetry.processed              *)
(* dead-letters.  The delivery of a lost connection is out of reach: its   *)
(* event is back in the queue.                                             *)
publishThrows(c) ==
  /\ listener[c].step = "publish"
  /\ \/ ~brokerUp /\ UNCHANGED faults
     \/ brokerUp /\ Fault
  /\ dlq' = IF listener[c].live THEN dlq \cup {listener[c].event} ELSE dlq
  /\ listener' = [listener EXCEPT ![c] = Idle]
  /\ UNCHANGED <<brokerUp, ready, deliveries, acked, outVars>>

(* Mutant: the acknowledgement is lost and the handler runs again. *)
AckRetries(c) ==
  /\ listener[c].step = "ack"
  /\ \/ acked' = acked \cup {listener[c].event} /\ listener' = [listener EXCEPT ![c] = Idle]
     \/ listener' = [listener EXCEPT ![c].step = "evaluate"] /\ UNCHANGED acked
  /\ UNCHANGED <<brokerUp, ready, dlq, deliveries, outVars, faults>>

(* The container acknowledges after the listener has returned. *)
Ack(c) ==
  /\ listener[c].step = "ack"
  /\ acked' = IF listener[c].live THEN acked \cup {listener[c].event} ELSE acked
  /\ listener' = [listener EXCEPT ![c] = Idle]
  /\ UNCHANGED <<brokerUp, ready, dlq, deliveries, outVars, faults>>

-----------------------------------------------------------------------------
(* The environment.                                                        *)

BrokerDown ==
  /\ brokerUp
  /\ Fault
  /\ brokerUp' = FALSE
  /\ ready' = ready \cup {listener[c].event : c \in {d \in Consumers : listener[d].live}}
  /\ listener' = [c \in Consumers |-> [listener[c] EXCEPT !.live = FALSE]]
  /\ UNCHANGED <<dlq, deliveries, acked, outVars>>

(* Mutant: the listener container does not recover its connection. *)
BrokerBackNever == FALSE /\ UNCHANGED vars

BrokerBack ==
  /\ ~brokerUp
  /\ brokerUp' = TRUE
  /\ UNCHANGED <<inVars, listener, outVars, faults>>

Crash(c) ==
  /\ listener[c].step # "idle"
  /\ Fault
  /\ ready' = IF listener[c].live THEN ready \cup {listener[c].event} ELSE ready
  /\ listener' = [listener EXCEPT ![c] = Idle]
  /\ UNCHANGED <<brokerUp, dlq, deliveries, acked, outVars>>

-----------------------------------------------------------------------------
onTelemetryReceived(c) == Evaluate(c) \/ publish(c) \/ publishThrows(c) \/ Ack(c)

Next ==
  \/ \E c \in Consumers : Receive(c) \/ onTelemetryReceived(c) \/ Crash(c)
  \/ BrokerDown \/ BrokerBack

Spec == Init /\ [][Next]_vars

(* Listener threads run and outages end. *)
Fairness ==
  /\ WF_vars(BrokerBack)
  /\ \A c \in Consumers : WF_vars(Receive(c)) /\ WF_vars(onTelemetryReceived(c))

FairSpec == Spec /\ Fairness

-----------------------------------------------------------------------------
(* Properties.                                                             *)

(* Every variable keeps its type; every alert has a known type, severity   *)
(* and action.                                                             *)
TypeOK ==
  /\ brokerUp \in BOOLEAN
  /\ ready \subseteq Events /\ dlq \subseteq Events /\ acked \subseteq Events
  /\ deliveries \in [Events -> Nat] /\ sent \in [Events -> Nat]
  /\ listener \in [Consumers -> Listener]
  /\ alerts \subseteq CongestionAlertEvent
  /\ unconfirmed \subseteq Events
  /\ faults \in 0..MaxFaults

InHand(e) == \E c \in Consumers : listener[c].live /\ listener[c].event = e

(* A congested sector does not go unnoticed: whatever fails, an event is   *)
(* waiting, in hand under a delivery the broker would repeat, in           *)
(* dlq.errors, or acknowledged, and then the alert the rules call for was  *)
(* sent (TelemetryConsumer, RabbitMqConfig).                               *)
AlarmNotSwallowed ==
  \A e \in Events :
    \/ e \in ready \/ e \in dlq \/ InHand(e)
    \/ e \in acked /\ (evaluate(e) = None \/ sent[e] > 0 \/ e \in unconfirmed)

(* A delivery sends at most one alert: consumers see duplicates only of    *)
(* events that RabbitMQ delivered again (TelemetryConsumer).               *)
OneAlertPerDelivery == \A e \in Events : sent[e] <= deliveries[e]

Rank(a) == IF a.severity = "MEDIUM" THEN 1 ELSE 2

(* f is at least as full as e, and blocked before a vessel if e is. *)
AtLeastAsBad(f, e) ==
  /\ EventOf[f].containerCount * EventOf[e].capacity
       >= EventOf[e].containerCount * EventOf[f].capacity
  /\ EventOf[e].blockageDetected => EventOf[f].blockageDetected
  /\ EventOf[e].vesselEta => EventOf[f].vesselEta

(* A worse sector is never reported more mildly: once the report of a      *)
(* sector at least as full and as blocked as one an alert was raised for   *)
(* is acknowledged, it has an alert of at least that severity, also on the *)
(* thresholds and unless the alert was lost on the way to the broker       *)
(* (CongestionRuleEngine.evaluate, TelemetryConsumer).                     *)
WorseNotMilder ==
  \A a \in alerts, f \in acked \ unconfirmed :
    AtLeastAsBad(f, a.event) => \E b \in alerts : b.event = f /\ Rank(b) >= Rank(a)

(* Every event is eventually settled for good, once outages and crashes    *)
(* end.                                                                    *)
EventsSettle == \A e \in Events : <>[](e \notin ready /\ ~InHand(e) /\ e \in acked \cup dlq)
=============================================================================

------------------------------- MODULE Pipeline -------------------------------
(***************************************************************************)
(* From a drone's report to a task: the Telemetry Service, Congestion      *)
(* Analysis and the Task Assignment Service on one RabbitMQ.  Each         *)
(* component keeps its own module; here they share the broker, its outages *)
(* and the bound on faults, and what one publishes is put into the queue   *)
(* the next one consumes.  A report is known by its request, an alert by   *)
(* its report and by how many alerts the report has caused.                *)
(*                                                                         *)
(* Docker Compose starts the services together, so the queue of the Task   *)
(* Assignment Service may be bound after the first alerts are published:   *)
(* the exchange then drops them.  Steps that only change Redis or the      *)
(* vessels (expiry, late commands and calls, port operators) and the       *)
(* completion of tasks are left out: nothing here depends on them.         *)
(***************************************************************************)
EXTENDS Integers, FiniteSets

CONSTANTS
  Requests, PayloadOf, Drones, ConnectAttempts,  \* as in TelemetryService
  Vessels, Berths, TaskIds,                      \* as in TaskAssignment
  Analysts, Assigners,  \* listener threads of the two consuming services
  None,                 \* nothing
  MaxFaults             \* bound on the failures of all services together

VARIABLES
  brokerUp, faults,
  proc, attempt, conn, step, answer, redis, lateSets, published, lostEvents,
  torn, stored, overdue, after,
  events, eventDlq, deliveries, listener, acked, alerts, sent, lostAlerts,
  alertQueue, alertDlq, attempts, saga, tasks, used, created, unconfirmed, failed,
  vessels, lateCalls, touched, contended, compensated, ops,
  bound,     \* congestion.alert.task-assignment exists and is bound: durable
  unrouted   \* alerts published before that

ASSUME BoundAssumption == MaxFaults \in Nat /\ ConnectAttempts \in Nat \ {0}

Tel == INSTANCE TelemetryService WITH late <- lateSets, unconfirmed <- lostEvents

ASSUME PayloadAssumption == PayloadOf \in [Requests -> Tel!RawTelemetryPayload]

(* The reports that handleIngest accepts, as the events it makes of them. *)
Reports == {r \in Requests : PayloadOf[r].json /\ Tel!validateTelemetry(PayloadOf[r])}

ReportOf ==
  [r \in Reports |-> [containerCount   |-> PayloadOf[r].containerCount,
                      capacity         |-> PayloadOf[r].capacity,
                      blockageDetected |-> PayloadOf[r].blockageDetected,
                      vesselEta        |-> PayloadOf[r].vesselEta]]

Cong == INSTANCE CongestionAnalysis WITH
  Events <- Reports, EventOf <- ReportOf, Consumers <- Analysts,
  ready <- events, dlq <- eventDlq, unconfirmed <- lostAlerts

Alarming == {r \in Reports : Cong!evaluate(r) # None}

(* Every alert after a report's first needs a redelivery of the event. *)
Alerts == Alarming \X (1..(MaxFaults + 1))

AlertOf ==
  [a \in Alerts |-> [alertType |-> Cong!evaluate(a[1]).alertType,
                     severity  |-> Cong!evaluate(a[1]).severity,
                     sector    |-> PayloadOf[a[1]].sector]]

ASSUME NoneAssumption ==
  None \notin UNION {Requests, Drones, Cong!CongestionAlertEvent, Alerts, Vessels, TaskIds, Berths}

Task == INSTANCE TaskAssignment WITH
  Consumers <- Assigners, MaxOps <- 0,
  ready <- alertQueue, dlq <- alertDlq, late <- lateCalls

telVars  == <<proc, attempt, conn, step, answer, redis, lateSets, published, lostEvents, torn,
              stored, overdue, after>>
congVars == <<events, eventDlq, deliveries, listener, acked, alerts, sent, lostAlerts>>
taskVars == <<alertQueue, alertDlq, attempts, saga, tasks, used, created, unconfirmed, failed,
              vessels, lateCalls, touched, contended, compensated, ops>>
linkVars == <<bound, unrouted>>
vars == <<brokerUp, faults, telVars, congVars, taskVars, linkVars>>

Init ==
  /\ Tel!Init
  /\ Cong!Fresh /\ events = {}
  /\ Task!Fresh /\ alertQueue = {}
  /\ bound = FALSE /\ unrouted = {}

-----------------------------------------------------------------------------
(* Where the components meet.                                              *)

BrokerDown ==
  /\ Tel!BrokerDown /\ Cong!BrokerDown /\ Task!BrokerDown
  /\ UNCHANGED linkVars

BrokerBack ==
  /\ Tel!BrokerBack /\ Cong!BrokerBack /\ Task!BrokerBack
  /\ UNCHANGED linkVars

(* RabbitAdmin of the Task Assignment Service declares and binds its queue *)
(* when the service first connects.                                        *)
BindAlertQueue ==
  /\ ~bound
  /\ brokerUp
  /\ bound' = TRUE
  /\ UNCHANGED <<brokerUp, faults, telVars, congVars, taskVars, unrouted>>

(* newRabbitPublisher has declared and bound telemetry.processed before    *)
(* the first request is served.                                            *)
PublishEvent(r) ==
  /\ Tel!Publish(r) \/ Tel!PublishFails(r)
  /\ events' = events \cup (published' \ published)
  /\ UNCHANGED <<eventDlq, deliveries, listener, acked, alerts, sent, lostAlerts, taskVars, linkVars>>

(* Mutant: the queue is bound with its own name as the routing key. *)
PublishAlertWrongKey(c) ==
  /\ Cong!publish(c)
  /\ UNCHANGED <<telVars, taskVars, linkVars>>

(* An alert that reached the exchange is routed to the bound queue. *)
PublishAlert(c) ==
  LET new == {a \in Alerts : sent[a[1]] < a[2] /\ a[2] <= sent'[a[1]]} IN
  /\ Cong!publish(c)
  /\ alertQueue' = IF bound THEN alertQueue \cup new ELSE alertQueue
  /\ unrouted' = IF bound THEN unrouted ELSE unrouted \cup new
  /\ UNCHANGED <<telVars, alertDlq, attempts, saga, tasks, used, created, unconfirmed, failed,
                 vessels, lateCalls, touched, contended, compensated, ops, bound>>

-----------------------------------------------------------------------------
(* What each component does on its own.                                    *)

Start ==
  /\ Tel!Connect \/ Tel!ConnectFails \/ Tel!Restart
  /\ UNCHANGED <<congVars, taskVars, linkVars>>

HandleIngest(r) ==
  /\ Tel!BadRequest(r) \/ Tel!Accept(r) \/ Tel!Store(r) \/ Tel!StoreFails(r)
  /\ UNCHANGED <<congVars, taskVars, linkVars>>

(* Clients, the broken connection and crashes. *)
AroundTelemetry ==
  /\ \/ Tel!LossNoticed \/ Tel!Crash
     \/ \E r \in Requests : Tel!Arrive(r) \/ Tel!HangUp(r)
  /\ UNCHANGED <<congVars, taskVars, linkVars>>

Analyse(c) ==
  /\ Cong!Receive(c) \/ Cong!Evaluate(c) \/ Cong!publishThrows(c) \/ Cong!Ack(c)
  /\ UNCHANGED <<telVars, taskVars, linkVars>>

AnalystCrash(c) == Cong!Crash(c) /\ UNCHANGED <<telVars, taskVars, linkVars>>

Assign(c) ==
  /\ Task!Receive(c) \/ Task!HandlerStep(c)
  /\ UNCHANGED <<telVars, congVars, linkVars>>

AssignerCrash(c) == Task!Crash(c) /\ UNCHANGED <<telVars, congVars, linkVars>>

Next ==
  \/ Start \/ AroundTelemetry
  \/ \E r \in Requests : HandleIngest(r) \/ PublishEvent(r)
  \/ \E c \in Analysts : Analyse(c) \/ PublishAlert(c) \/ AnalystCrash(c)
  \/ \E c \in Assigners : Assign(c) \/ AssignerCrash(c)
  \/ BindAlertQueue \/ BrokerDown \/ BrokerBack

Spec == Init /\ [][Next]_vars

(* The fairness of the components: their threads run, outages end, and the *)
(* Task Assignment Service is started.                                     *)
Fairness ==
  /\ WF_vars(BrokerBack) /\ WF_vars(BindAlertQueue)
  /\ WF_vars(Start)
  /\ \A r \in Requests : WF_vars(HandleIngest(r) \/ PublishEvent(r))
  /\ \A c \in Analysts : WF_vars(Analyse(c) \/ PublishAlert(c))
  /\ \A c \in Assigners : WF_vars(Assign(c))

FairSpec == Spec /\ Fairness

-----------------------------------------------------------------------------
(* Properties.                                                             *)

HasTask(r) == \E t \in DOMAIN tasks : tasks[t].alert[1] = r

(* The report's event, or its alert, is waiting or being worked on. *)
UnderWay(r) ==
  \/ r \in events \/ Cong!InHand(r)
  \/ \E a \in Alerts : a[1] = r /\ (a \in alertQueue \/ Task!InHand(a))

(* The report has come to an end that somebody can see: a task, or a dead  *)
(* letter, which the Notification Service logs.                            *)
Visible(r) == HasTask(r) \/ r \in eventDlq \/ \E a \in alertDlq : a[1] = r

(* The ways a report can vanish: written to a connection that was already  *)
(* lost, by either publisher, or published before the queue was bound.     *)
Vanished(r) == r \in lostEvents \/ r \in lostAlerts \/ \E a \in unrouted : a[1] = r

(* An alarming report that was answered with 202 is never silently         *)
(* dropped between the services: it is under way, has a visible end, or    *)
(* has vanished in one of the three ways that no confirm or mandatory flag *)
(* guards (handleIngest, onTelemetryReceived, onAlertReceived).            *)
AcceptedIsAccounted ==
  \A r \in Alarming : answer[r] = "202" => UnderWay(r) \/ Visible(r) \/ Vanished(r)

(* Two tasks for one report mean that something failed: without a fault    *)
(* neither service handles a message twice.                                *)
DuplicateNeedsFault ==
  faults = 0 => \A t, u \in DOMAIN tasks : tasks[t].alert[1] = tasks[u].alert[1] => t = u

(* Every accepted alarming report ends: with a task or a dead letter, or   *)
(* it has vanished.                                                        *)
AcceptedSettles ==
  \A r \in Alarming :
    (answer[r] = "202") ~> [](~UnderWay(r) /\ (Visible(r) \/ Vanished(r)))

(* In a system that is up, an alarming report whose sector fits the tasks  *)
(* table gets a task: each service lets pass what the next one requires.   *)
AcceptedGetsTask ==
  \A r \in Alarming :
    (answer[r] = "202" /\ PayloadOf[r].sector = "fits" /\ bound /\ <<r, 1>> \notin unrouted)
      ~> (HasTask(r) \/ faults > 0)
=============================================================================

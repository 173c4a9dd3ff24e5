---------------------------- MODULE PipelineProofs ----------------------------
(***************************************************************************)
(* Safety of the flow from a report to a task, for any reports, vessels,   *)
(* listener threads and faults.  The components' own proofs are            *)
(* instantiated: their invariants hold here too, since another component's *)
(* step changes nothing of a component but its queue and the count of      *)
(* faults.  What is added are the invariants that link the queues.         *)
(***************************************************************************)
EXTENDS Pipeline, TLAPS

TelP == INSTANCE TelemetryServiceProofs WITH late <- lateSets, unconfirmed <- lostEvents

CongP == INSTANCE CongestionAnalysisProofs WITH
  Events <- Reports, EventOf <- ReportOf, Consumers <- Analysts,
  ready <- events, dlq <- eventDlq, unconfirmed <- lostAlerts

TaskP == INSTANCE TaskAssignmentProofs WITH
  Consumers <- Assigners, MaxOps <- 0,
  ready <- alertQueue, dlq <- alertDlq, late <- lateCalls

TaskInv == TaskP!TypeInv /\ TaskP!DeliveryInv /\ TaskP!OneTaskPerDelivery

(* What handleIngest published is in the care of Congestion Analysis. *)
EventsPlaced == \A r \in published : CongP!Placed(r)

(* The first alert of a report, once sent, is in the care of the Task      *)
(* Assignment Service, unless its queue was not bound yet.                 *)
AlertsPlaced ==
  \A r \in Alarming : sent[r] > 0 => <<r, 1>> \in unrouted \/ TaskP!Safe(<<r, 1>>)

(* Without a fault every message is delivered once: what waits has not     *)
(* been delivered, and only what was sent is delivered.                    *)
EventsOnce ==
  /\ events \subseteq published
  /\ \A r \in Reports : deliveries[r] > 0 => r \in published
  /\ \A r \in events : deliveries[r] = 0
  /\ \A r \in Reports : deliveries[r] <= 1

AlertsOnce ==
  /\ \A a \in alertQueue : attempts[a] = 0
  /\ \A a \in Alerts : attempts[a] <= 1
  /\ \A a \in Alerts : a \in alertQueue \/ attempts[a] > 0 => a[2] <= sent[a[1]]

OnceWithoutFault == faults = 0 => EventsOnce /\ AlertsOnce

IInv ==
  /\ TelP!IInv /\ CongP!Core /\ TaskInv
  /\ EventsPlaced /\ AlertsPlaced
  /\ OnceWithoutFault

-----------------------------------------------------------------------------
(* The assumptions of the components hold.                                 *)

(* Those of TelemetryService. *)
LEMMA TelAssumptions ==
  /\ PayloadOf \in [Requests -> TelP!RawTelemetryPayload]
  /\ None \notin Requests \cup Drones
  /\ MaxFaults \in Nat /\ ConnectAttempts \in Nat \ {0}
  BY PayloadAssumption, NoneAssumption, BoundAssumption
  DEF Tel!RawTelemetryPayload, TelP!RawTelemetryPayload

(* Those of CongestionAnalysis: what passes validateTelemetry has a        *)
(* positive capacity and a count within it.                                *)
LEMMA CongAssumptions ==
  /\ ReportOf \in [Reports -> CongP!ProcessedTelemetryEvent]
  /\ MaxFaults \in Nat
  /\ None \notin Reports \cup CongP!CongestionAlertEvent
  <1>1. MaxFaults \in Nat
    BY BoundAssumption
  <1>2. None \notin Reports \cup CongP!CongestionAlertEvent
    BY NoneAssumption DEF Reports, CongP!CongestionAlertEvent, Cong!CongestionAlertEvent
  <1>3. \A r \in Reports : PayloadOf[r] \in Tel!RawTelemetryPayload
                           /\ Tel!validateTelemetry(PayloadOf[r])
    BY PayloadAssumption DEF Reports
  <1>4. \A r \in Reports : ReportOf[r] \in CongP!ProcessedTelemetryEvent
    BY <1>3 DEF ReportOf, Tel!RawTelemetryPayload, Tel!validateTelemetry,
                CongP!ProcessedTelemetryEvent
  <1>5. ReportOf \in [Reports -> CongP!ProcessedTelemetryEvent]
    BY <1>4 DEF ReportOf
  <1> QED
    BY <1>1, <1>2, <1>5

(* Both modules mean the same rules. *)
LEMMA SameRules == \A r \in Reports : CongP!evaluate(r) = Cong!evaluate(r)
  BY DEF CongP!evaluate, Cong!evaluate, CongP!buildAlert, Cong!buildAlert,
         CongP!Exceeds, Cong!Exceeds

(* An alert has a type and a severity that the saga knows. *)
LEMMA AlertFields ==
  ASSUME NEW r \in Alarming
  PROVE  /\ Cong!evaluate(r).alertType \in {"IMMEDIATE_ACTION", "SECTOR_CRITICAL", "SECTOR_WARNING"}
         /\ Cong!evaluate(r).severity \in {"HIGH", "MEDIUM"}
  BY DEF Alarming, Cong!evaluate, Cong!buildAlert

(* Those of TaskAssignment: an alert has the fields validateAlert and the  *)
(* saga's decisions read.                                                  *)
LEMMA TaskAssumptions ==
  /\ None \notin Alerts \cup Vessels \cup TaskIds \cup Berths
  /\ AlertOf \in [Alerts -> TaskP!AlertEvent]
  /\ MaxFaults \in Nat /\ 0 \in Nat
  <1>1. None \notin Alerts \cup Vessels \cup TaskIds \cup Berths
    BY NoneAssumption
  <1>2. ASSUME NEW a \in Alerts PROVE AlertOf[a] \in TaskP!AlertEvent
    <2>1. a[1] \in Alarming /\ a[1] \in Requests
      BY DEF Alerts, Alarming, Reports
    <2>2. PayloadOf[a[1]].sector \in {"blank", "fits", "long"}
      BY <2>1, PayloadAssumption DEF Tel!RawTelemetryPayload
    <2> QED
      BY <2>1, <2>2, AlertFields DEF AlertOf, TaskP!AlertEvent, TaskP!AlertTypes, TaskP!Severities
  <1>3. AlertOf \in [Alerts -> TaskP!AlertEvent]
    BY <1>2 DEF AlertOf
  <1> QED
    BY <1>1, <1>3, BoundAssumption

(* The reports are the requests that handleIngest lets pass. *)
LEMMA ReportsAreValid == TelP!Valid = Reports
  BY DEF TelP!Valid, Reports, TelP!validateTelemetry, Tel!validateTelemetry

-----------------------------------------------------------------------------
(* A step of a component here is a step in its proofs, and keeps what they *)
(* prove invariant.                                                        *)

(* The Telemetry Service takes the steps its proofs are about. *)
LEMMA TelSteps == Tel!Next => TelP!Next
  BY DEF Tel!Next, TelP!Next, Tel!Connect, TelP!Connect, Tel!ConnectFails,
  TelP!ConnectFails, Tel!Restart, TelP!Restart, Tel!Arrive, TelP!Arrive,
  Tel!handleIngest, TelP!handleIngest, Tel!BadRequest, TelP!BadRequest, Tel!Accept,
  TelP!Accept, Tel!Store, TelP!Store, Tel!StoreFails, TelP!StoreFails, Tel!MayBeLate,
  TelP!MayBeLate, Tel!Publish, TelP!Publish, Tel!PublishFails, TelP!PublishFails,
  Tel!HangUp, TelP!HangUp, Tel!LateStore, TelP!LateStore, Tel!Expire, TelP!Expire,
  Tel!BrokerDown, TelP!BrokerDown, Tel!BrokerBack, TelP!BrokerBack, Tel!LossNoticed,
  TelP!LossNoticed, Tel!Crash, TelP!Crash, Tel!Fault, TelP!Fault, Tel!Reply, TelP!Reply,
  Tel!Goto, TelP!Goto, Tel!validateTelemetry, TelP!validateTelemetry, Tel!procVars,
  TelP!procVars, Tel!reqVars, TelP!reqVars, Tel!stateVars, TelP!stateVars, Tel!sentVars,
  TelP!sentVars

(* So does Congestion Analysis, *)
LEMMA CongSteps == Cong!Next => CongP!Next
  BY DEF Cong!Next, CongP!Next, Cong!Receive, CongP!Receive, Cong!onTelemetryReceived,
  CongP!onTelemetryReceived, Cong!Evaluate, CongP!Evaluate, Cong!publish, CongP!publish,
  Cong!publishThrows, CongP!publishThrows, Cong!Ack, CongP!Ack, Cong!Crash, CongP!Crash,
  Cong!BrokerDown, CongP!BrokerDown, Cong!BrokerBack, CongP!BrokerBack, Cong!Fault,
  CongP!Fault, Cong!Idle, CongP!Idle, Cong!inVars, CongP!inVars, Cong!outVars,
  CongP!outVars, Cong!evaluate, CongP!evaluate, Cong!Exceeds, CongP!Exceeds,
  Cong!buildAlert, CongP!buildAlert

(* and the Task Assignment Service. *)
LEMMA TaskSteps == Task!Next => TaskP!Next
  BY DEF Task!Next, TaskP!Next, Task!HandlerStep, TaskP!HandlerStep, Task!Receive,
  TaskP!Receive, Task!ThrowEarly, TaskP!ThrowEarly, Task!ListVessels, TaskP!ListVessels,
  Task!ReserveBerth, TaskP!ReserveBerth, Task!ReserveBerthFails,
  TaskP!ReserveBerthFails, Task!SaveTask, TaskP!SaveTask, Task!PublishCreated,
  TaskP!PublishCreated, Task!PublishCreatedThrows, TaskP!PublishCreatedThrows,
  Task!ReleaseBerth, TaskP!ReleaseBerth, Task!ReleaseBerthFails,
  TaskP!ReleaseBerthFails, Task!PublishFailed, TaskP!PublishFailed, Task!Commit,
  TaskP!Commit, Task!CommitFails, TaskP!CommitFails, Task!Ack, TaskP!Ack, Task!Crash,
  TaskP!Crash, Task!BrokerDown, TaskP!BrokerDown, Task!BrokerBack, TaskP!BrokerBack,
  Task!LateCall, TaskP!LateCall, Task!OperatorWrite, TaskP!OperatorWrite,
  Task!completeTask, TaskP!completeTask, Task!Idle, TaskP!Idle, Task!eventVars,
  TaskP!eventVars, Task!portVars, TaskP!portVars, Task!histVars, TaskP!histVars,
  Task!queueVars, TaskP!queueVars, Task!Fault, TaskP!Fault, Task!Reject, TaskP!Reject,
  Task!validateAlert, TaskP!validateAlert, Task!Candidates, TaskP!Candidates,
  Task!BeingReserved, TaskP!BeingReserved, Task!InFlight, TaskP!InFlight, Task!ToRelease,
  TaskP!ToRelease, Task!WithTask,
  TaskP!WithTask, Task!NewTask, TaskP!NewTask, Task!determineAssignedUnit, TaskP!determineAssignedUnit,
  Task!normalizePriority, TaskP!normalizePriority, Task!Priorities, TaskP!Priorities,
  Task!Reserved, TaskP!Reserved, Task!Released, TaskP!Released, Task!Updated,
  TaskP!Updated, Task!VesselStatus, TaskP!VesselStatus, Task!BerthValue,
  TaskP!BerthValue

(* A step of the Telemetry Service keeps its invariant. *)
LEMMA TelKept ==
  ASSUME TelP!IInv, Tel!Next
  PROVE  TelP!IInv'
  BY TelSteps, TelP!IInvNext, TelAssumptions

(* A step of Congestion Analysis keeps its invariant, and loses no event. *)
LEMMA CongKept ==
  ASSUME CongP!Core, Cong!Next
  PROVE  CongP!Core' /\ \A r \in Reports : CongP!Placed(r) => CongP!Placed(r)'
  BY CongSteps, CongP!CoreNext, CongAssumptions DEF CongP!Kept

(* A step of the saga keeps its invariant, and loses no alert. *)
LEMMA TaskKept ==
  ASSUME TaskInv, Task!Next
  PROVE  TaskInv' /\ \A a \in Alerts : TaskP!Safe(a) => TaskP!Safe(a)'
  <1>1. TaskP!Next
    BY TaskSteps
  <1>2. TaskP!TypeInv'
    BY <1>1, TaskP!TypeNext, TaskAssumptions DEF TaskInv
  <1>3. TaskP!DeliveryInv' /\ TaskP!OneTaskPerDelivery'
    BY <1>1, TaskP!DeliveryNext, TaskAssumptions DEF TaskInv
  <1>4. \A a \in Alerts : TaskP!Safe(a) => TaskP!Safe(a)'
    BY <1>1, TaskP!SafeNext, TaskAssumptions DEF TaskInv
  <1> QED
    BY <1>2, <1>3, <1>4 DEF TaskInv

-----------------------------------------------------------------------------
(* A step of another component keeps them too.                             *)

(* The Telemetry Service shares only the broker and the count of faults. *)
LEMMA TelFrame ==
  ASSUME TelP!IInv, UNCHANGED <<brokerUp, telVars>>, faults' \in 0..MaxFaults
  PROVE  TelP!IInv'
  <1>1. TelP!Types'
    BY DEF TelP!IInv, TelP!TypeOK, TelP!Types, telVars
  <1>2. UNCHANGED <<TelP!reqVars, TelP!stateVars, TelP!sentVars>>
    BY DEF telVars, TelP!reqVars, TelP!stateVars, TelP!sentVars
  <1> QED
    BY <1>1, <1>2, TelP!QuietKeeps, TelAssumptions

(* Events may be put into the queue of Congestion Analysis, *)
LEMMA CongFrame ==
  ASSUME CongP!Core, brokerUp' \in BOOLEAN, faults' \in 0..MaxFaults,
         events \subseteq events', events' \subseteq Reports,
         UNCHANGED <<eventDlq, deliveries, listener, acked, alerts, sent, lostAlerts>>
  PROVE  CongP!Core' /\ \A r \in Reports : CongP!Placed(r) => CongP!Placed(r)'
  <1>1. CongP!TypeOK'
    BY DEF CongP!Core, CongP!TypeOK
  <1>2. CongP!InvListener' /\ CongP!InvServed' /\ CongP!InvAlerts'
    BY DEF CongP!Core, CongP!InvListener, CongP!InvServed, CongP!Served, CongP!InvAlerts
  <1>3. CongP!InvDeliveries'
    BY DEF CongP!Core, CongP!InvDeliveries, CongP!Pending
  <1>4. \A r \in Reports : CongP!Placed(r) => CongP!Placed(r)'
    BY DEF CongP!Placed, CongP!InHand
  <1> QED
    BY <1>1, <1>2, <1>3, <1>4 DEF CongP!Core

(* and alerts into that of the saga. *)
LEMMA TaskFrame ==
  ASSUME TaskInv, brokerUp' \in BOOLEAN, faults' \in 0..MaxFaults,
         alertQueue \subseteq alertQueue', alertQueue' \subseteq Alerts,
         UNCHANGED <<alertDlq, attempts, saga, tasks, used, created, unconfirmed, failed,
                     vessels, lateCalls, touched, contended, compensated, ops>>
  PROVE  TaskInv' /\ \A a \in Alerts : TaskP!Safe(a) => TaskP!Safe(a)'
  <1>1. TaskP!TypeOK' /\ TaskP!InvHeld'
    BY DEF TaskInv, TaskP!TypeInv, TaskP!TypeOK, TaskP!InvHeld
  <1>2. TaskP!InvDelivery' /\ TaskP!InvApart' /\ TaskP!InvTask'
    BY DEF TaskInv, TaskP!DeliveryInv, TaskP!InvDelivery, TaskP!InvApart, TaskP!InvTask
  <1>3. TaskP!InvRows' /\ TaskP!InvUncommitted' /\ TaskP!InvCommitted' /\ TaskP!OneTaskPerDelivery'
    BY DEF TaskInv, TaskP!DeliveryInv, TaskP!InvRows, TaskP!InvUncommitted, TaskP!InvCommitted,
           TaskP!OneTaskPerDelivery
  <1>4. \A a \in Alerts : TaskP!Safe(a) => TaskP!Safe(a)'
    BY DEF TaskP!Safe, TaskP!InHand, TaskP!HasTask
  <1> QED
    BY <1>1, <1>2, <1>3, <1>4 DEF TaskInv, TaskP!TypeInv, TaskP!DeliveryInv

-----------------------------------------------------------------------------
(* Faults are only counted up. *)
LEMMA FaultsGrow ==
  ASSUME IInv, Tel!Next \/ Cong!Next \/ Task!Next
  PROVE  faults' \in 0..MaxFaults /\ (faults' = 0 => faults = 0)
  <1>1. faults \in 0..MaxFaults /\ MaxFaults \in Nat
    BY TelAssumptions DEF IInv, TelP!IInv, TelP!TypeOK
  <1>2. Tel!Next => faults' = faults \/ (faults < MaxFaults /\ faults' = faults + 1)
    BY DEF Tel!Next, Tel!Connect, Tel!ConnectFails, Tel!Restart, Tel!Arrive, Tel!handleIngest,
           Tel!BadRequest, Tel!Accept, Tel!Store, Tel!StoreFails, Tel!MayBeLate, Tel!Publish,
           Tel!PublishFails, Tel!HangUp, Tel!LateStore, Tel!Expire, Tel!BrokerDown,
           Tel!BrokerBack, Tel!LossNoticed, Tel!Crash, Tel!Fault
  <1>3. Cong!Next => faults' = faults \/ (faults < MaxFaults /\ faults' = faults + 1)
    BY DEF Cong!Next, Cong!onTelemetryReceived, Cong!Receive, Cong!Evaluate, Cong!publish,
           Cong!publishThrows, Cong!Ack, Cong!BrokerDown, Cong!BrokerBack, Cong!Crash, Cong!Fault
  <1>4. Task!Next => faults' = faults \/ (faults < MaxFaults /\ faults' = faults + 1)
    BY DEF Task!Next, Task!HandlerStep, Task!Receive, Task!ThrowEarly, Task!ListVessels,
           Task!ReserveBerth, Task!ReserveBerthFails, Task!SaveTask, Task!PublishCreated,
           Task!PublishCreatedThrows, Task!ReleaseBerth, Task!ReleaseBerthFails,
           Task!PublishFailed, Task!Commit, Task!CommitFails, Task!Ack, Task!BrokerDown,
           Task!BrokerBack, Task!Crash, Task!LateCall, Task!OperatorWrite, Task!completeTask,
           Task!Fault
  <1> QED
    BY <1>1, <1>2, <1>3, <1>4

(* The types the linking invariants rest on. *)
LEMMA LinkTypes ==
  ASSUME IInv
  PROVE  /\ brokerUp \in BOOLEAN
         /\ published \subseteq Reports /\ events \subseteq Reports
         /\ deliveries \in [Reports -> Nat] /\ sent \in [Reports -> Nat]
         /\ alertQueue \subseteq Alerts /\ attempts \in [Alerts -> Nat]
  <1>1. published \subseteq Reports
    BY ReportsAreValid DEF IInv, TelP!IInv, TelP!InvValid
  <1>2. /\ brokerUp \in BOOLEAN /\ events \subseteq Reports
        /\ deliveries \in [Reports -> Nat] /\ sent \in [Reports -> Nat]
    BY DEF IInv, CongP!Core, CongP!TypeOK
  <1>3. alertQueue \subseteq Alerts /\ attempts \in [Alerts -> Nat]
    BY DEF IInv, TaskInv, TaskP!TypeInv, TaskP!TypeOK
  <1> QED
    BY <1>1, <1>2, <1>3

(* The first alert of an alarming report is a message of the saga's queue. *)
LEMMA FirstAlert == \A r \in Alarming : r \in Reports /\ <<r, 1>> \in Alerts
  BY BoundAssumption DEF Alarming, Alerts

(* The Telemetry Service, other than by publishing. *)
LEMMA TelemetryStep ==
  ASSUME IInv, Tel!Next, UNCHANGED <<brokerUp, published, congVars, taskVars, linkVars>>
  PROVE  IInv'
  <1> USE DEF congVars, taskVars, linkVars
  <1>1. faults' \in 0..MaxFaults /\ (faults' = 0 => faults = 0)
    BY FaultsGrow
  <1>2. brokerUp' \in BOOLEAN /\ events \subseteq Reports /\ published \subseteq Reports
        /\ alertQueue \subseteq Alerts
    BY LinkTypes
  <1>3. TelP!IInv'
    BY TelKept DEF IInv
  <1>4. CongP!Core' /\ \A r \in Reports : CongP!Placed(r) => CongP!Placed(r)'
    BY <1>1, <1>2, CongFrame DEF IInv
  <1>5. TaskInv' /\ \A a \in Alerts : TaskP!Safe(a) => TaskP!Safe(a)'
    BY <1>1, <1>2, TaskFrame DEF IInv
  <1>6. EventsPlaced'
    BY <1>2, <1>4 DEF IInv, EventsPlaced
  <1>7. AlertsPlaced'
    BY <1>5, FirstAlert DEF IInv, AlertsPlaced
  <1>8. OnceWithoutFault'
    BY <1>1 DEF IInv, OnceWithoutFault, EventsOnce, AlertsOnce
  <1> QED
    BY <1>3, <1>4, <1>5, <1>6, <1>7, <1>8 DEF IInv

(* What handleIngest publishes is new, and waits in telemetry.processed. *)
LEMMA PublishEventStep ==
  ASSUME IInv, NEW r \in Requests, PublishEvent(r)
  PROVE  IInv'
  <1> USE DEF taskVars, linkVars
  <1>1. /\ Tel!Next
        /\ events' = events \cup (published' \ published)
        /\ UNCHANGED <<brokerUp, eventDlq, deliveries, listener, acked, alerts, sent, lostAlerts,
                       taskVars, linkVars>>
        /\ published' = published \/ published' = published \cup {r}
        /\ step[r] = "publish"
    BY DEF PublishEvent, Tel!Next, Tel!handleIngest, Tel!Publish, Tel!PublishFails
  <1>2. r \in Reports /\ r \notin published
    BY <1>1, ReportsAreValid DEF IInv, TelP!IInv, TelP!InvValid, TelP!InvRunning
  <1>3. faults' \in 0..MaxFaults /\ (faults' = 0 => faults = 0)
    BY <1>1, FaultsGrow
  <1>4. TelP!IInv'
    BY <1>1, TelKept DEF IInv
  <1>5. /\ brokerUp' \in BOOLEAN /\ events \subseteq events' /\ events' \subseteq Reports
        /\ published \subseteq Reports /\ alertQueue \subseteq Alerts
        /\ deliveries \in [Reports -> Nat]
    BY <1>1, <1>2, LinkTypes
  <1>6. CongP!Core' /\ \A q \in Reports : CongP!Placed(q) => CongP!Placed(q)'
    BY <1>1, <1>3, <1>5, CongFrame DEF IInv
  <1>7. TaskInv' /\ \A a \in Alerts : TaskP!Safe(a) => TaskP!Safe(a)'
    BY <1>1, <1>3, <1>5, TaskFrame DEF IInv
  <1>8. EventsPlaced'
    <2>1. \A q \in published' : q \in published \/ q \in events'
      BY <1>1
    <2> QED
      BY <1>5, <1>6, <2>1 DEF IInv, EventsPlaced, CongP!Placed
  <1>9. AlertsPlaced'
    BY <1>1, <1>7, FirstAlert DEF IInv, AlertsPlaced
  <1>10. OnceWithoutFault'
    <2> SUFFICES ASSUME faults' = 0 PROVE EventsOnce' /\ AlertsOnce'
      BY DEF OnceWithoutFault
    <2>1. EventsOnce /\ AlertsOnce
      BY <1>3 DEF IInv, OnceWithoutFault
    <2>2. deliveries[r] = 0
      BY <1>2, <1>5, <2>1 DEF EventsOnce
    <2> QED
      BY <1>1, <2>1, <2>2 DEF EventsOnce, AlertsOnce
  <1> QED
    BY <1>4, <1>6, <1>7, <1>8, <1>9, <1>10 DEF IInv

(* Congestion Analysis, other than by publishing. *)
LEMMA AnalyseStep ==
  ASSUME IInv, NEW c \in Analysts, Analyse(c) \/ AnalystCrash(c)
  PROVE  IInv'
  <1> USE DEF telVars, taskVars, linkVars
  <1>1. Cong!Next /\ UNCHANGED <<brokerUp, telVars, taskVars, linkVars, sent>>
    BY DEF Analyse, AnalystCrash, Cong!Next, Cong!onTelemetryReceived, Cong!Receive,
           Cong!Evaluate, Cong!publishThrows, Cong!Ack, Cong!Crash, Cong!inVars, Cong!outVars
  <1>2. faults' \in 0..MaxFaults /\ (faults' = 0 => faults = 0)
    BY <1>1, FaultsGrow
  <1>3. /\ brokerUp' \in BOOLEAN /\ published \subseteq Reports /\ events \subseteq Reports
        /\ alertQueue \subseteq Alerts /\ deliveries \in [Reports -> Nat]
    BY <1>1, LinkTypes
  <1>4. TelP!IInv'
    BY <1>1, <1>2, TelFrame DEF IInv
  <1>5. CongP!Core' /\ \A r \in Reports : CongP!Placed(r) => CongP!Placed(r)'
    BY <1>1, CongKept DEF IInv
  <1>6. TaskInv' /\ \A a \in Alerts : TaskP!Safe(a) => TaskP!Safe(a)'
    BY <1>1, <1>2, <1>3, TaskFrame DEF IInv
  <1>7. EventsPlaced'
    BY <1>1, <1>3, <1>5 DEF IInv, EventsPlaced
  <1>8. AlertsPlaced'
    BY <1>1, <1>6, FirstAlert DEF IInv, AlertsPlaced
  <1>9. ASSUME faults' = 0 PROVE EventsOnce' /\ AlertsOnce'
    <2>1. EventsOnce /\ AlertsOnce /\ faults \in Nat
      BY <1>2, <1>9 DEF IInv, OnceWithoutFault
    <2>2. AlertsOnce'
      BY <1>1, <2>1 DEF AlertsOnce
    <2>3. \/ events' = events /\ deliveries' = deliveries
          \/ \E r \in events : /\ events' = events \ {r}
                               /\ deliveries' = [deliveries EXCEPT ![r] = @ + 1]
      BY <1>9, <2>1 DEF Analyse, AnalystCrash, Cong!Receive, Cong!Evaluate, Cong!publishThrows,
                        Cong!Ack, Cong!Crash, Cong!Fault, Cong!inVars
    <2> QED
      BY <1>1, <1>3, <2>1, <2>2, <2>3 DEF EventsOnce
  <1> QED
    BY <1>4, <1>5, <1>6, <1>7, <1>8, <1>9 DEF IInv, OnceWithoutFault

(* An alert that is sent is numbered anew, and waits for the saga unless   *)
(* the queue is not bound yet.                                             *)
LEMMA PublishAlertStep ==
  ASSUME IInv, NEW c \in Analysts, PublishAlert(c)
  PROVE  IInv'
  <1> USE DEF telVars
  <1>1. PICK new \in SUBSET Alerts :
          /\ new = {a \in Alerts : sent[a[1]] < a[2] /\ a[2] <= sent'[a[1]]}
          /\ alertQueue' = IF bound THEN alertQueue \cup new ELSE alertQueue
          /\ unrouted' = IF bound THEN unrouted ELSE unrouted \cup new
    BY DEF PublishAlert
  <1>2. /\ Cong!publish(c) /\ Cong!Next
        /\ UNCHANGED <<brokerUp, faults, telVars, events, eventDlq, deliveries, acked, alertDlq,
                       attempts, saga, tasks, used, created, unconfirmed, failed, vessels,
                       lateCalls, touched, contended, compensated, ops, bound>>
    BY DEF PublishAlert, Cong!publish, Cong!Next, Cong!onTelemetryReceived, Cong!inVars
  <1>3. /\ faults' \in 0..MaxFaults /\ brokerUp' \in BOOLEAN
        /\ published \subseteq Reports /\ events \subseteq Reports
        /\ sent \in [Reports -> Nat] /\ alertQueue \subseteq Alerts
        /\ attempts \in [Alerts -> Nat]
    BY <1>2, FaultsGrow, LinkTypes
  <1>4. TelP!IInv'
    BY <1>2, <1>3, TelFrame DEF IInv
  <1>5. CongP!Core' /\ \A r \in Reports : CongP!Placed(r) => CongP!Placed(r)'
    BY <1>2, CongKept DEF IInv
  <1>6. TaskInv' /\ \A a \in Alerts : TaskP!Safe(a) => TaskP!Safe(a)'
    <2>1. alertQueue \subseteq alertQueue' /\ alertQueue' \subseteq Alerts
      BY <1>1, <1>3
    <2> QED
      BY <1>2, <1>3, <2>1, TaskFrame DEF IInv
  <1>7. EventsPlaced'
    BY <1>2, <1>3, <1>5 DEF IInv, EventsPlaced
  <1>8. \A r \in Reports : sent[r] \in Nat /\ sent'[r] \in Nat /\ sent[r] <= sent'[r]
    <2>1. sent' \in [Reports -> Nat]
      BY <1>5 DEF CongP!Core, CongP!TypeOK
    <2>2. sent' = sent \/ \E r : sent' = [sent EXCEPT ![r] = @ + 1]
      BY <1>2 DEF Cong!publish
    <2> QED
      BY <1>3, <2>1, <2>2
  <1>9. AlertsPlaced'
    <2> SUFFICES ASSUME NEW r \in Alarming, sent'[r] > 0
                 PROVE  <<r, 1>> \in unrouted' \/ TaskP!Safe(<<r, 1>>)'
      BY DEF AlertsPlaced
    <2>1. r \in Reports /\ <<r, 1>> \in Alerts
      BY FirstAlert
    <2>2. CASE sent[r] > 0
      BY <1>1, <1>6, <2>1, <2>2 DEF IInv, AlertsPlaced
    <2>3. CASE sent[r] = 0
      <3>1. <<r, 1>> \in new
        BY <1>1, <1>8, <2>1, <2>3
      <3> QED
        BY <1>1, <3>1 DEF TaskP!Safe
    <2> QED
      BY <1>8, <2>1, <2>2, <2>3
  <1>10. ASSUME faults' = 0 PROVE EventsOnce' /\ AlertsOnce'
    <2>1. EventsOnce /\ AlertsOnce
      BY <1>2, <1>10 DEF IInv, OnceWithoutFault
    <2>2. EventsOnce'
      BY <1>2, <2>1 DEF EventsOnce
    <2>3. \A a \in Alerts : a[1] \in Reports /\ a[2] \in Nat
      BY BoundAssumption DEF Alerts, Alarming
    <2>4. \A a \in new : attempts[a] = 0
      BY <1>1, <1>3, <1>8, <2>1, <2>3 DEF AlertsOnce
    <2>5. \A a \in alertQueue' : a \in alertQueue \/ a \in new
      BY <1>1
    <2>6. \A a \in Alerts : (a \in alertQueue' \/ attempts[a] > 0) => a[2] <= sent'[a[1]]
      BY <1>1, <1>3, <1>8, <2>1, <2>3, <2>5 DEF AlertsOnce
    <2> QED
      BY <1>2, <2>1, <2>2, <2>4, <2>5, <2>6 DEF AlertsOnce
  <1> QED
    BY <1>4, <1>5, <1>6, <1>7, <1>9, <1>10 DEF IInv, OnceWithoutFault

(* The Task Assignment Service. *)
LEMMA AssignStep ==
  ASSUME IInv, NEW c \in Assigners, Assign(c) \/ AssignerCrash(c)
  PROVE  IInv'
  <1> USE DEF telVars, congVars, linkVars
  <1>1. Task!Next /\ UNCHANGED <<telVars, congVars, linkVars>>
    BY DEF Assign, AssignerCrash, Task!Next
  <1>2. brokerUp' = brokerUp
    BY DEF Assign, AssignerCrash, Task!HandlerStep, Task!Receive, Task!ThrowEarly,
           Task!ListVessels, Task!ReserveBerth, Task!ReserveBerthFails, Task!SaveTask,
           Task!PublishCreated, Task!PublishCreatedThrows, Task!ReleaseBerth,
           Task!ReleaseBerthFails, Task!PublishFailed, Task!Commit, Task!CommitFails,
           Task!Ack, Task!Crash
  <1>3. faults' \in 0..MaxFaults /\ (faults' = 0 => faults = 0)
    BY <1>1, FaultsGrow
  <1>4. /\ brokerUp' \in BOOLEAN /\ published \subseteq Reports /\ events \subseteq Reports
        /\ alertQueue \subseteq Alerts /\ attempts \in [Alerts -> Nat]
    BY <1>2, LinkTypes
  <1>5. TelP!IInv'
    BY <1>1, <1>2, <1>3, TelFrame DEF IInv
  <1>6. CongP!Core' /\ \A r \in Reports : CongP!Placed(r) => CongP!Placed(r)'
    BY <1>1, <1>3, <1>4, CongFrame DEF IInv
  <1>7. TaskInv' /\ \A a \in Alerts : TaskP!Safe(a) => TaskP!Safe(a)'
    BY <1>1, TaskKept DEF IInv
  <1>8. EventsPlaced'
    BY <1>1, <1>4, <1>6 DEF IInv, EventsPlaced
  <1>9. AlertsPlaced'
    BY <1>1, <1>7, FirstAlert DEF IInv, AlertsPlaced
  <1>10. ASSUME faults' = 0 PROVE EventsOnce' /\ AlertsOnce'
    <2>1. EventsOnce /\ AlertsOnce
      BY <1>3, <1>10 DEF IInv, OnceWithoutFault
    <2>2. EventsOnce'
      BY <1>1, <2>1 DEF EventsOnce
    <2>3. \/ alertQueue' = alertQueue /\ attempts' = attempts
          \/ \E a \in alertQueue : /\ alertQueue' = alertQueue \ {a}
                                   /\ attempts' = [attempts EXCEPT ![a] = @ + 1]
      <3>1. Task!Receive(c) \/ Task!HandlerStep(c)
        BY <1>3, <1>10 DEF Assign, AssignerCrash, Task!Crash, Task!Fault
      <3> QED
        BY <3>1 DEF Task!HandlerStep, Task!Receive, Task!ThrowEarly, Task!ListVessels,
             Task!ReserveBerth, Task!ReserveBerthFails, Task!SaveTask, Task!PublishCreated,
             Task!PublishCreatedThrows, Task!ReleaseBerth, Task!ReleaseBerthFails,
             Task!PublishFailed, Task!Commit, Task!CommitFails, Task!Ack, Task!queueVars
    <2> QED
      BY <1>1, <1>4, <2>1, <2>2, <2>3 DEF AlertsOnce
  <1> QED
    BY <1>5, <1>6, <1>7, <1>8, <1>9, <1>10 DEF IInv, OnceWithoutFault

(* An outage hits, and ends for, all components at once. *)
LEMMA BrokerStep ==
  ASSUME IInv, BrokerDown \/ BrokerBack
  PROVE  IInv'
  <1>1. Tel!Next /\ Cong!Next /\ Task!Next
    BY DEF BrokerDown, BrokerBack, Tel!Next, Cong!Next, Task!Next
  <1>2. UNCHANGED <<published, sent, unrouted>>
    BY DEF BrokerDown, BrokerBack, linkVars, Tel!BrokerDown, Tel!BrokerBack, Cong!BrokerDown,
           Cong!BrokerBack, Tel!sentVars, Cong!outVars
  <1>3. published \subseteq Reports
    BY LinkTypes
  <1>4. TelP!IInv'
    BY <1>1, TelKept DEF IInv
  <1>5. CongP!Core' /\ \A r \in Reports : CongP!Placed(r) => CongP!Placed(r)'
    BY <1>1, CongKept DEF IInv
  <1>6. TaskInv' /\ \A a \in Alerts : TaskP!Safe(a) => TaskP!Safe(a)'
    BY <1>1, TaskKept DEF IInv
  <1>7. EventsPlaced'
    BY <1>2, <1>3, <1>5 DEF IInv, EventsPlaced
  <1>8. AlertsPlaced'
    BY <1>2, <1>6, FirstAlert DEF IInv, AlertsPlaced
  <1>9. OnceWithoutFault'
    <2>1. CASE BrokerDown
      <3>1. faults \in Nat /\ faults' = faults + 1
        BY <2>1, BoundAssumption
           DEF BrokerDown, Tel!BrokerDown, Tel!Fault, IInv, TelP!IInv, TelP!TypeOK
      <3> QED
        BY <3>1 DEF OnceWithoutFault
    <2>2. CASE BrokerBack
      <3>1. UNCHANGED <<faults, published, events, deliveries, sent, alertQueue, attempts>>
        BY <1>2, <2>2 DEF BrokerBack, Cong!BrokerBack, Task!BrokerBack, Cong!inVars, Task!queueVars
      <3> QED
        BY <3>1 DEF IInv, OnceWithoutFault, EventsOnce, AlertsOnce
    <2> QED
      BY <2>1, <2>2
  <1> QED
    BY <1>4, <1>5, <1>6, <1>7, <1>8, <1>9 DEF IInv

(* Steps that change no variable of the invariant. *)
LEMMA QuietStep ==
  ASSUME IInv, UNCHANGED <<brokerUp, faults, telVars, congVars, taskVars, unrouted>>
  PROVE  IInv'
  <1> USE DEF congVars, taskVars
  <1>1. /\ brokerUp' \in BOOLEAN /\ events \subseteq Reports /\ published \subseteq Reports
        /\ alertQueue \subseteq Alerts
    BY LinkTypes
  <1>2. faults' \in 0..MaxFaults
    BY DEF IInv, TelP!IInv, TelP!TypeOK
  <1>3. TelP!IInv'
    BY <1>2, TelFrame DEF IInv
  <1>4. CongP!Core' /\ \A r \in Reports : CongP!Placed(r) => CongP!Placed(r)'
    BY <1>1, <1>2, CongFrame DEF IInv
  <1>5. TaskInv' /\ \A a \in Alerts : TaskP!Safe(a) => TaskP!Safe(a)'
    BY <1>1, <1>2, TaskFrame DEF IInv
  <1>6. EventsPlaced'
    BY <1>1, <1>4 DEF IInv, EventsPlaced, telVars
  <1>7. AlertsPlaced'
    BY <1>5, FirstAlert DEF IInv, AlertsPlaced
  <1>8. OnceWithoutFault'
    BY DEF IInv, OnceWithoutFault, EventsOnce, AlertsOnce, telVars
  <1> QED
    BY <1>3, <1>4, <1>5, <1>6, <1>7, <1>8 DEF IInv

-----------------------------------------------------------------------------
(* Initially nothing is published, sent or delivered. *)
LEMMA IInvInit == Init => IInv
  <1> SUFFICES ASSUME Init PROVE IInv
    OBVIOUS
  <1>1. TelP!IInv
    <2>1. TelP!Init
      BY DEF Init, Tel!Init, TelP!Init
    <2> QED
      BY <2>1, TelP!IInvInit, TelAssumptions
  <1>2. CongP!Core
    <2>1. CongP!Fresh /\ events \subseteq Reports
      BY DEF Init, Cong!Fresh, CongP!Fresh, Cong!Idle, CongP!Idle
    <2> QED
      BY <2>1, CongP!CoreInit, CongAssumptions
  <1>3. TaskInv
    <2>1. TaskP!Fresh /\ alertQueue \subseteq Alerts
      BY DEF Init, Task!Fresh, TaskP!Fresh, Task!Idle, TaskP!Idle, Task!BerthValue,
             TaskP!BerthValue
    <2> QED
      BY <2>1, TaskP!TypeFresh, TaskP!DeliveryFresh, TaskAssumptions DEF TaskInv
  <1>4. EventsPlaced
    BY DEF Init, Tel!Init, EventsPlaced
  <1>5. \A r \in Reports : sent[r] = 0 /\ deliveries[r] = 0
    BY DEF Init, Cong!Fresh
  <1>6. \A a \in Alerts : attempts[a] = 0
    BY DEF Init, Task!Fresh
  <1>7. AlertsPlaced
    BY <1>5, FirstAlert DEF AlertsPlaced
  <1>8. EventsOnce /\ AlertsOnce
    BY <1>5, <1>6 DEF Init, EventsOnce, AlertsOnce
  <1> QED
    BY <1>1, <1>2, <1>3, <1>4, <1>7, <1>8 DEF IInv, OnceWithoutFault

(* Every step keeps the invariant. *)
LEMMA IInvNext == IInv /\ [Next]_vars => IInv'
  <1> SUFFICES ASSUME IInv, [Next]_vars PROVE IInv'
    OBVIOUS
  <1>1. CASE Start \/ AroundTelemetry
    <2>1. Tel!Next /\ UNCHANGED <<brokerUp, published, congVars, taskVars, linkVars>>
      BY <1>1 DEF Start, AroundTelemetry, Tel!Next, Tel!Connect, Tel!ConnectFails, Tel!Restart,
                  Tel!LossNoticed, Tel!Crash, Tel!Arrive, Tel!HangUp, Tel!sentVars
    <2> QED
      BY <2>1, TelemetryStep
  <1>2. ASSUME NEW r \in Requests, HandleIngest(r) PROVE IInv'
    <2>1. Tel!Next /\ UNCHANGED <<brokerUp, published, congVars, taskVars, linkVars>>
      BY <1>2 DEF HandleIngest, Tel!Next, Tel!handleIngest, Tel!BadRequest, Tel!Accept,
                  Tel!Store, Tel!StoreFails, Tel!sentVars
    <2> QED
      BY <2>1, TelemetryStep
  <1>3. CASE BindAlertQueue \/ UNCHANGED vars
    BY <1>3, QuietStep DEF BindAlertQueue, vars, linkVars
  <1> QED
    BY <1>1, <1>2, <1>3, PublishEventStep, AnalyseStep, PublishAlertStep, AssignStep, BrokerStep
    DEF Next

(* The invariant holds throughout. *)
LEMMA Invariant == Spec => []IInv
  BY IInvInit, IInvNext, PTL DEF Spec

-----------------------------------------------------------------------------
(* No alarming report that handleIngest answered with 202 is silently      *)
(* dropped between the three services, through any outages, crashes and    *)
(* start orders: it is under way, ended visibly, or vanished in one of the *)
(* three ways that no confirm or mandatory flag guards.                    *)
THEOREM AcceptedAccounted == Spec => []AcceptedIsAccounted
  <1>1. IInv => AcceptedIsAccounted
    <2> SUFFICES ASSUME IInv, NEW r \in Alarming, answer[r] = "202"
                 PROVE  UnderWay(r) \/ Visible(r) \/ Vanished(r)
      BY DEF AcceptedIsAccounted
    <2>1. r \in Reports /\ r \in Requests /\ <<r, 1>> \in Alerts /\ <<r, 1>>[1] = r
      BY FirstAlert DEF Reports
    <2>2. r \in published \/ r \in lostEvents
      BY <2>1 DEF IInv, TelP!IInv, TelP!AnswersTruthful
    <2>3. CASE r \in lostEvents
      BY <2>3 DEF Vanished
    <2>4. CASE r \in published
      <3>1. r \in events \/ r \in eventDlq \/ r \in acked \/ CongP!InHand(r)
        BY <2>4 DEF IInv, EventsPlaced, CongP!Placed
      <3>2. CongP!InHand(r) = Cong!InHand(r)
        BY DEF CongP!InHand, Cong!InHand
      <3>3. r \in acked => sent[r] > 0 \/ r \in lostAlerts
        <4>1. CongP!evaluate(r) # None
          BY <2>1, SameRules DEF Alarming
        <4> QED
          BY <4>1 DEF IInv, CongP!Core, CongP!InvServed, CongP!Served
      <3>4. sent[r] > 0 => <<r, 1>> \in unrouted \/ TaskP!Safe(<<r, 1>>)
        BY DEF IInv, AlertsPlaced
      <3>5. TaskP!Safe(<<r, 1>>) => UnderWay(r) \/ Visible(r)
        <4>1. TaskP!InHand(<<r, 1>>) => Task!InHand(<<r, 1>>)
          BY DEF TaskP!InHand, Task!InHand
        <4>2. TaskP!HasTask(<<r, 1>>) => HasTask(r)
          BY <2>1 DEF TaskP!HasTask, HasTask
        <4> QED
          BY <2>1, <4>1, <4>2 DEF TaskP!Safe, UnderWay, Visible
      <3> QED
        BY <2>1, <3>1, <3>2, <3>3, <3>4, <3>5 DEF UnderWay, Visible, Vanished
    <2> QED
      BY <2>2, <2>3, <2>4
  <1> QED
    BY <1>1, Invariant, PTL

(* Without a fault in any of the services a report leads to one task at    *)
(* most, however many listeners compete (onTelemetryReceived,              *)
(* handleAlert).                                                           *)
THEOREM DuplicatesNeedFaults == Spec => []DuplicateNeedsFault
  <1>1. IInv => DuplicateNeedsFault
    <2> SUFFICES ASSUME IInv, faults = 0, NEW t \in DOMAIN tasks, NEW u \in DOMAIN tasks,
                        tasks[t].alert[1] = tasks[u].alert[1]
                 PROVE  t = u
      BY DEF DuplicateNeedsFault
    <2>1. EventsOnce /\ AlertsOnce
      BY DEF IInv, OnceWithoutFault
    <2>2. \A r \in Reports : sent[r] <= 1
      <3>1. CongP!OneAlertPerDelivery
        BY CongP!AlertsWithinDeliveries, CongAssumptions DEF IInv
      <3>2. \A r \in Reports : sent[r] \in Nat /\ deliveries[r] \in Nat /\ deliveries[r] <= 1
        BY <2>1, LinkTypes DEF EventsOnce
      <3> QED
        BY <3>1, <3>2 DEF CongP!OneAlertPerDelivery
    <2>3. ASSUME NEW x \in DOMAIN tasks
          PROVE  tasks[x].alert = <<tasks[x].alert[1], 1>> /\ tasks[x].delivery = 1
      <3>1. tasks[x].alert \in Alerts /\ tasks[x].delivery \in Nat
        BY DEF IInv, TaskInv, TaskP!TypeInv, TaskP!TypeOK, TaskP!TaskRow
      <3>2. 1 <= tasks[x].delivery /\ tasks[x].delivery <= attempts[tasks[x].alert]
        BY DEF IInv, TaskInv, TaskP!DeliveryInv, TaskP!InvRows
      <3>3. attempts[tasks[x].alert] \in Nat /\ attempts[tasks[x].alert] <= 1
        BY <2>1, <3>1, LinkTypes DEF AlertsOnce
      <3>4. PICK r \in Alarming, n \in 1..(MaxFaults + 1) : tasks[x].alert = <<r, n>>
        BY <3>1 DEF Alerts
      <3>5. n <= sent[r] /\ r \in Reports /\ sent[r] \in Nat /\ n \in Nat
        BY <2>1, <3>1, <3>2, <3>3, <3>4, LinkTypes, BoundAssumption DEF AlertsOnce, Alarming
      <3>6. n = 1
        BY <2>2, <3>4, <3>5, BoundAssumption
      <3> QED
        BY <3>2, <3>1, <3>3, <3>4, <3>6
    <2> QED
      BY <2>3 DEF IInv, TaskInv, TaskP!OneTaskPerDelivery
  <1> QED
    BY <1>1, Invariant, PTL
=============================================================================

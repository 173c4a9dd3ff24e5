---------------------------- MODULE TaskAssignment ----------------------------
(***************************************************************************)
(* The Task Assignment Service: the listener on the queue                  *)
(* congestion.alert.task-assignment and the saga                           *)
(* TaskAssignmentService.handleAlert, which queries the Vessel Service,    *)
(* reserves a berth, saves a task, publishes task.created and, when that   *)
(* publish throws, compensates.  The steps of several listener threads     *)
(* interleave with each other, with port operators changing vessels, with  *)
(* HTTP calls that take effect after the caller has given up on them, with *)
(* broker outages, database failures and process crashes.                  *)
(*                                                                         *)
(* The HTTP operations of the Vessel Service are atomic here; the steps    *)
(* inside its transactions are the subject of module VesselService.        *)
(***************************************************************************)
EXTENDS VesselOps, Naturals, FiniteSets

CONSTANTS
  Alerts,     \* the alert messages in the queue
  AlertOf,    \* the CongestionAlertEvent each message carries
  Vessels,    \* ids of the registered vessels
  TaskIds,    \* the UUIDs that can be generated for tasks
  Consumers,  \* the listener threads, one per replica of the service
  MaxFaults,  \* bound on outages, crashes, timeouts and database failures
  MaxOps      \* bound on the operators' vessel requests

AlertTypes == {"IMMEDIATE_ACTION", "SECTOR_CRITICAL", "SECTOR_WARNING", "blank"}
Severities == {"HIGH", "MEDIUM", "LOW", "other"}  \* other: blank or unknown

(* A sector is "blank", "fits" its VARCHAR(20) column, or is "long": the   *)
(* Telemetry Service bounds no lengths.                                    *)
AlertEvent == [alertType : AlertTypes, severity : Severities,
               sector : {"blank", "fits", "long"}]

ASSUME NoneAssumption ==
  /\ None \notin Alerts \cup Vessels \cup TaskIds \cup Berths
ASSUME AlertAssumption == AlertOf \in [Alerts -> AlertEvent]
ASSUME BoundAssumption == MaxFaults \in Nat /\ MaxOps \in Nat

VARIABLES
  brokerUp,     \* RabbitMQ is reachable, from both services
  ready,        \* alerts waiting in the queue
  dlq,          \* alerts dead-lettered to dlq.errors
  attempts,     \* how often each alert was handed to handleAlert
  saga,         \* the local state of each listener thread
  tasks,        \* committed rows of the tasks table, by id
  used,         \* UUIDs generated so far
  created,      \* tasks whose task.created reached the broker
  unconfirmed,  \* tasks whose task.created was sent into a dead connection
  failed,       \* tasks whose task.failed reached the broker
  vessels,      \* the vessels table
  late,         \* HTTP calls given up by the caller, perhaps still executing
  touched,      \* vessels a port operator has written to
  contended,    \* vessels two sagas have chosen before either reserved them
  compensated,  \* vessels a compensation has set out to release
  faults, ops   \* how much of MaxFaults and MaxOps is used

queueVars == <<ready, dlq, attempts>>
eventVars == <<created, unconfirmed, failed>>
portVars  == <<vessels, late>>
histVars  == <<touched, contended, compensated, ops>>
vars == <<brokerUp, queueVars, saga, tasks, used, eventVars, portVars, histVars, faults>>

TaskStatus == {"PENDING", "IN_PROGRESS", "COMPLETED", "FAILED"}
Priorities == {"HIGH", "MEDIUM", "LOW"}
Unit == [team : {"Emergency-Team", "Crane", "Team"}, berth : BerthValue]

(* A row.  delivery and vessel are history fields, not columns: which      *)
(* delivery of the alert produced the row, and reservedVesselId.           *)
TaskRow == [alert : Alerts, delivery : Nat, unit : Unit, priority : Priorities,
            status : TaskStatus, vessel : Vessels \cup {None}]

Steps == {"idle", "start", "reserve", "save", "publish", "release", "fail",
          "commit", "ack"}

(* vessel and berth are vesselToReserve; reserved says reservedVesselId is *)
(* set; live, that the delivery can still be acknowledged.                 *)
Saga == [step : Steps, alert : Alerts \cup {None}, delivery : Nat,
         vessel : Vessels \cup {None}, berth : BerthValue, reserved : BOOLEAN,
         task : TaskIds \cup {None}, status : {"PENDING", "FAILED"},
         live : BOOLEAN]

VesselRow == [status : VesselStatus, berth : BerthValue]

Call == [op : {"reserve", "release"}, vessel : Vessels, berth : BerthValue]

-----------------------------------------------------------------------------
(* Decisions of the saga.                                                  *)

validateAlert(alert) == alert.sector # "blank" /\ alert.alertType # "blank"

(* With no berth the code's unit number is 1. *)
determineAssignedUnit(alert, berth) ==
  [team  |-> IF alert.alertType = "IMMEDIATE_ACTION" THEN "Emergency-Team"
             ELSE IF alert.alertType = "SECTOR_CRITICAL" \/ alert.severity = "HIGH"
             THEN "Crane" ELSE "Team",
   berth |-> berth]

normalizePriority(severity) == IF severity \in Priorities THEN severity ELSE "LOW"

(* Mutant: the query forgets its status filter. *)
CandidatesAnyStatus == {v \in Vessels : vessels[v].berth # None}

(* The vessels the saga may reserve: the query has no ORDER BY, so any     *)
(* arriving vessel with a berth can be the first of the list.              *)
Candidates == {v \in Vessels : vessels[v].status = "ARRIVING" /\ vessels[v].berth # None}

NewTask(s) ==
  [alert    |-> s.alert, delivery |-> s.delivery,
   unit     |-> determineAssignedUnit(AlertOf[s.alert], s.berth),
   priority |-> normalizePriority(AlertOf[s.alert].severity),
   status   |-> s.status,
   vessel   |-> IF s.reserved THEN s.vessel ELSE None]

-----------------------------------------------------------------------------
Idle == [step |-> "idle", alert |-> None, delivery |-> 0, vessel |-> None,
         berth |-> None, reserved |-> FALSE, task |-> None,
         status |-> "PENDING", live |-> FALSE]

(* Nothing has been received yet. *)
Fresh ==
  /\ brokerUp = TRUE
  /\ dlq = {}
  /\ attempts = [a \in Alerts |-> 0]
  /\ saga = [c \in Consumers |-> Idle]
  /\ tasks = [t \in {} |-> None]
  /\ used = {}
  /\ created = {} /\ unconfirmed = {} /\ failed = {}
  /\ vessels \in [Vessels -> [status : {"ARRIVING"}, berth : BerthValue]]
  /\ late = {}
  /\ touched = {} /\ contended = {} /\ compensated = {}
  /\ faults = 0 /\ ops = 0

Init == Fresh /\ ready = Alerts

Fault == faults < MaxFaults /\ faults' = faults + 1

(* Mutant: the queue is declared without dead-letter arguments. *)
RejectDrops(c) ==
  /\ saga' = [saga EXCEPT ![c] = Idle]
  /\ UNCHANGED dlq

(* The listener container rejects without requeue when the listener throws *)
(* (defaultRequeueRejected is false, no retry advice is installed), and    *)
(* the queue dead-letters.  A delivery of a closed channel is beyond       *)
(* reach: its alert is back in the queue.                                  *)
Reject(c) ==
  /\ dlq' = IF saga[c].live THEN dlq \cup {saga[c].alert} ELSE dlq
  /\ saga' = [saga EXCEPT ![c] = Idle]

-----------------------------------------------------------------------------
(* Steps of a listener thread.                                             *)

Receive(c) ==
  /\ saga[c].step = "idle"
  /\ brokerUp
  /\ \E a \in ready :
       /\ ready' = ready \ {a}
       /\ attempts' = [attempts EXCEPT ![a] = @ + 1]
       /\ saga' = [saga EXCEPT ![c] = [Idle EXCEPT !.step = "start", !.alert = a,
                                         !.delivery = attempts[a] + 1, !.live = TRUE]]
  /\ UNCHANGED <<brokerUp, dlq, tasks, used, eventVars, portVars, histVars, faults>>

(* validateAlert throws, or the transaction cannot be opened. *)
ThrowEarly(c) ==
  /\ saga[c].step = "start"
  /\ \/ ~validateAlert(AlertOf[saga[c].alert]) /\ UNCHANGED faults
     \/ Fault
  /\ Reject(c)
  /\ UNCHANGED <<brokerUp, ready, attempts, tasks, used, eventVars, portVars, histVars>>

(* Another saga has chosen v too and has not reserved it yet. *)
BeingReserved(v) == \E d \in Consumers : saga[d].step = "reserve" /\ saga[d].vessel = v

(* getArrivingVessels and the choice of vesselToReserve.  When the call    *)
(* fails or the circuit breaker is open the fallback list is empty.        *)
ListVessels(c) ==
  /\ saga[c].step = "start"
  /\ validateAlert(AlertOf[saga[c].alert])
  /\ \/ \E v \in Candidates :
          /\ saga' = [saga EXCEPT ![c] = [@ EXCEPT !.step = "reserve", !.vessel = v,
                                                   !.berth = vessels[v].berth]]
          /\ contended' = IF BeingReserved(v) THEN contended \cup {v} ELSE contended
     \/ saga' = [saga EXCEPT ![c].step = "save"] /\ UNCHANGED contended
  /\ UNCHANGED <<brokerUp, queueVars, tasks, used, eventVars, portVars, touched, compensated,
                 ops, faults>>

(* Mutant: reservedVesselId is not remembered. *)
ReserveBerthForgets(c) ==
  /\ saga[c].step = "reserve"
  /\ vessels' = [vessels EXCEPT ![saga[c].vessel] = Reserved(@, saga[c].berth)]
  /\ saga' = [saga EXCEPT ![c].step = "save"]
  /\ UNCHANGED <<brokerUp, queueVars, tasks, used, eventVars, late, histVars, faults>>

ReserveBerth(c) ==
  LET v == saga[c].vessel IN
  /\ saga[c].step = "reserve"
  /\ vessels' = [vessels EXCEPT ![v] = Reserved(@, saga[c].berth)]
  /\ saga' = [saga EXCEPT ![c] = [@ EXCEPT !.step = "save", !.reserved = TRUE]]
  /\ UNCHANGED <<brokerUp, queueVars, tasks, used, eventVars, late, histVars, faults>>

(* The call a saga is waiting for. *)
InFlight(s) ==
  IF s.step \in {"reserve", "release"}
  THEN {[op |-> s.step, vessel |-> s.vessel,
         berth |-> IF s.step = "reserve" THEN s.berth ELSE None]}
  ELSE {}

(* Mutant: the exception of reserveBerth is not caught. *)
ReserveBerthFailsThrows(c) ==
  /\ saga[c].step = "reserve"
  /\ Reject(c)
  /\ UNCHANGED <<brokerUp, ready, attempts, tasks, used, eventVars, portVars, histVars,
                 faults>>

(* The call throws and the saga goes on without the reservation.  After a  *)
(* timeout of block(10s) the request may still be executed.                *)
ReserveBerthFails(c) ==
  /\ saga[c].step = "reserve"
  /\ saga' = [saga EXCEPT ![c].step = "save"]
  /\ \/ UNCHANGED <<late, faults>>
     \/ Fault /\ late' = late \cup InFlight(saga[c])
  /\ UNCHANGED <<brokerUp, queueVars, tasks, used, eventVars, vessels, histVars>>

(* taskRepository.save: the id is generated now, the INSERT waits for the  *)
(* commit.                                                                 *)
SaveTask(c) ==
  /\ saga[c].step = "save"
  /\ \E t \in TaskIds \ used :
       /\ used' = used \cup {t}
       /\ saga' = [saga EXCEPT ![c] = [@ EXCEPT !.step = "publish", !.task = t]]
  /\ UNCHANGED <<brokerUp, queueVars, tasks, eventVars, portVars, histVars, faults>>

(* task.created is sent before the transaction commits and without a       *)
(* publisher confirm: during an outage it can vanish unnoticed.            *)
PublishCreated(c) ==
  LET t == saga[c].task IN
  /\ saga[c].step = "publish"
  /\ saga' = [saga EXCEPT ![c].step = "commit"]
  /\ IF brokerUp
     THEN created' = created \cup {t} /\ UNCHANGED unconfirmed
     ELSE unconfirmed' = unconfirmed \cup {t} /\ UNCHANGED created
  /\ UNCHANGED <<brokerUp, queueVars, tasks, used, failed, portVars, histVars, faults>>

(* reservedVesselId, when it is set. *)
ToRelease(s) == IF s.reserved THEN {s.vessel} ELSE {}

(* Mutant: the catch block forgets setStatus(FAILED). *)
PublishCreatedThrowsKeepsStatus(c) ==
  /\ saga[c].step = "publish"
  /\ ~brokerUp
  /\ saga' = [saga EXCEPT ![c].step = IF saga[c].reserved THEN "release" ELSE "fail"]
  /\ compensated' = compensated \cup ToRelease(saga[c])
  /\ UNCHANGED <<brokerUp, queueVars, tasks, used, eventVars, portVars, touched, contended,
                 ops, faults>>

PublishCreatedThrows(c) ==
  /\ saga[c].step = "publish"
  /\ ~brokerUp
  /\ saga' = [saga EXCEPT ![c] =
                [@ EXCEPT !.status = "FAILED",
                          !.step = IF saga[c].reserved THEN "release" ELSE "fail"]]
  /\ compensated' = compensated \cup ToRelease(saga[c])
  /\ UNCHANGED <<brokerUp, queueVars, tasks, used, eventVars, portVars, touched, contended,
                 ops, faults>>

(* The Vessel Service publishes vessel.arrived inside the transaction of   *)
(* releaseBerth, so in an outage it usually rolls back and the call fails. *)
ReleaseBerth(c) ==
  /\ saga[c].step = "release"
  /\ vessels' = [vessels EXCEPT ![saga[c].vessel] = Released(@)]
  /\ saga' = [saga EXCEPT ![c].step = "fail"]
  /\ UNCHANGED <<brokerUp, queueVars, tasks, used, eventVars, late, histVars, faults>>

ReleaseBerthFails(c) ==
  /\ saga[c].step = "release"
  /\ saga' = [saga EXCEPT ![c].step = "fail"]
  /\ \/ ~brokerUp /\ UNCHANGED <<late, faults>>
     \/ Fault /\ late' = late \cup InFlight(saga[c])
  /\ UNCHANGED <<brokerUp, queueVars, tasks, used, eventVars, vessels, histVars>>

(* task.failed is best effort: an exception is only logged. *)
PublishFailed(c) ==
  /\ saga[c].step = "fail"
  /\ saga' = [saga EXCEPT ![c].step = "commit"]
  /\ failed' = IF brokerUp THEN failed \cup {saga[c].task} ELSE failed
  /\ UNCHANGED <<brokerUp, queueVars, tasks, used, created, unconfirmed, portVars,
                 histVars, faults>>

WithTask(s) == [t \in DOMAIN tasks \cup {s.task} |->
                  IF t = s.task THEN NewTask(s) ELSE tasks[t]]

(* Mutant: the transaction is read-only and flushes nothing. *)
CommitReadOnly(c) ==
  /\ saga[c].step = "commit"
  /\ saga' = [saga EXCEPT ![c].step = "ack"]
  /\ UNCHANGED <<brokerUp, queueVars, tasks, used, eventVars, portVars, histVars, faults>>

Commit(c) ==
  /\ saga[c].step = "commit"
  /\ AlertOf[saga[c].alert].sector # "long"
  /\ tasks' = WithTask(saga[c])
  /\ saga' = [saga EXCEPT ![c].step = "ack"]
  /\ UNCHANGED <<brokerUp, queueVars, used, eventVars, portVars, histVars, faults>>

(* Mutant: the retry of application.yml takes effect and runs the handler  *)
(* again within the delivery, although the row may be there.               *)
CommitFailsRetries(c) ==
  /\ saga[c].step = "commit"
  /\ Fault
  /\ tasks' \in {tasks, WithTask(saga[c])}
  /\ saga' = [saga EXCEPT ![c] = [Idle EXCEPT !.step = "start", !.alert = saga[c].alert,
                                     !.delivery = saga[c].delivery, !.live = saga[c].live]]
  /\ UNCHANGED <<brokerUp, queueVars, used, eventVars, portVars, histVars>>

(* The INSERT is refused (the sector does not fit its column), or the      *)
(* database fails and the transaction rolls back, or only the answer to    *)
(* COMMIT is lost; the listener throws in all three cases.                 *)
CommitFails(c) ==
  /\ saga[c].step = "commit"
  /\ \/ AlertOf[saga[c].alert].sector = "long" /\ UNCHANGED <<tasks, faults>>
     \/ /\ AlertOf[saga[c].alert].sector # "long"
        /\ Fault
        /\ tasks' \in {tasks, WithTask(saga[c])}
  /\ Reject(c)
  /\ UNCHANGED <<brokerUp, ready, attempts, used, eventVars, portVars, histVars>>

(* The container acknowledges after the listener has returned. *)
Ack(c) ==
  /\ saga[c].step = "ack"
  /\ saga' = [saga EXCEPT ![c] = Idle]
  /\ UNCHANGED <<brokerUp, queueVars, tasks, used, eventVars, portVars, histVars, faults>>

-----------------------------------------------------------------------------
(* The environment.                                                        *)

(* Every delivery on the lost connections returns to the queue, while the  *)
(* listener threads carry on with the alerts they hold.                    *)
BrokerDown ==
  /\ brokerUp
  /\ Fault
  /\ brokerUp' = FALSE
  /\ ready' = ready \cup {saga[c].alert : c \in {d \in Consumers : saga[d].live}}
  /\ saga' = [c \in Consumers |-> [saga[c] EXCEPT !.live = FALSE]]
  /\ UNCHANGED <<dlq, attempts, tasks, used, eventVars, portVars, histVars>>

(* Mutant: the listener container does not recover its connection. *)
BrokerBackNever == FALSE /\ UNCHANGED vars

BrokerBack ==
  /\ ~brokerUp
  /\ brokerUp' = TRUE
  /\ UNCHANGED <<queueVars, saga, tasks, used, eventVars, portVars, histVars, faults>>

(* The process dies: its transaction rolls back, its delivery returns to   *)
(* the queue, and a request it had on the wire may still be executed.      *)
Crash(c) ==
  LET s == saga[c] IN
  /\ s.step # "idle"
  /\ Fault
  /\ ready' = IF s.live THEN ready \cup {s.alert} ELSE ready
  /\ late' = late \cup InFlight(s)
  /\ saga' = [saga EXCEPT ![c] = Idle]
  /\ UNCHANGED <<brokerUp, dlq, attempts, tasks, used, eventVars, vessels, histVars>>

(* A call nobody waits for any more is executed, or comes to nothing. *)
LateCall(call) ==
  /\ call \in late
  /\ late' = late \ {call}
  /\ vessels' \in {vessels,
                   [vessels EXCEPT ![call.vessel] =
                      IF call.op = "reserve" THEN Reserved(@, call.berth) ELSE Released(@)]}
  /\ UNCHANGED <<brokerUp, queueVars, saga, tasks, used, eventVars, histVars, faults>>

(* A port operator's PUT on /vessels/{id}/status or /berth, via the gateway. *)
OperatorWrite(v) ==
  /\ ops < MaxOps
  /\ ops' = ops + 1
  /\ touched' = touched \cup {v}
  /\ \/ \E s \in VesselStatus, b \in BerthValue :
          vessels' = [vessels EXCEPT ![v] = Updated(@, s, b)]
     \/ \E b \in Berths : vessels' = [vessels EXCEPT ![v] = Reserved(@, b)]
     \/ vessels' = [vessels EXCEPT ![v] = Released(@)]
  /\ UNCHANGED <<brokerUp, queueVars, saga, tasks, used, eventVars, late, contended,
                 compensated, faults>>

(* PUT /tasks/{id}/complete, whatever the task's status. *)
completeTask(t) ==
  /\ t \in DOMAIN tasks
  /\ tasks' = [tasks EXCEPT ![t].status = "COMPLETED"]
  /\ UNCHANGED <<brokerUp, queueVars, saga, used, eventVars, portVars, histVars, faults>>

-----------------------------------------------------------------------------
HandlerStep(c) ==
  \/ ThrowEarly(c) \/ ListVessels(c)
  \/ ReserveBerth(c) \/ ReserveBerthFails(c)
  \/ SaveTask(c)
  \/ PublishCreated(c) \/ PublishCreatedThrows(c)
  \/ ReleaseBerth(c) \/ ReleaseBerthFails(c) \/ PublishFailed(c)
  \/ Commit(c) \/ CommitFails(c) \/ Ack(c)

Next ==
  \/ \E c \in Consumers : Receive(c) \/ HandlerStep(c) \/ Crash(c)
  \/ BrokerDown \/ BrokerBack
  \/ \E call \in late : LateCall(call)
  \/ \E v \in Vessels : OperatorWrite(v)
  \/ \E t \in TaskIds : completeTask(t)

Spec == Init /\ [][Next]_vars

(* A listener thread never stops (each HTTP call is bounded by 10 s) and a *)
(* broker outage ends.                                                     *)
Fairness ==
  /\ WF_vars(BrokerBack)
  /\ \A c \in Consumers : WF_vars(Receive(c)) /\ WF_vars(HandlerStep(c))

FairSpec == Spec /\ Fairness

-----------------------------------------------------------------------------
(* Properties.                                                             *)

(* Every variable keeps the type its declaration promises. *)
TypeOK ==
  /\ brokerUp \in BOOLEAN
  /\ ready \subseteq Alerts /\ dlq \subseteq Alerts
  /\ attempts \in [Alerts -> Nat]
  /\ saga \in [Consumers -> Saga]
  /\ DOMAIN tasks \subseteq TaskIds /\ tasks \in [DOMAIN tasks -> TaskRow]
  /\ used \subseteq TaskIds
  /\ created \subseteq TaskIds /\ unconfirmed \subseteq TaskIds /\ failed \subseteq TaskIds
  /\ vessels \in [Vessels -> VesselRow]
  /\ late \subseteq Call
  /\ touched \subseteq Vessels /\ contended \subseteq Vessels /\ compensated \subseteq Vessels
  /\ faults \in 0..MaxFaults /\ ops \in 0..MaxOps

HasTask(a) == \E t \in DOMAIN tasks : tasks[t].alert = a
InHand(a)  == \E c \in Consumers : saga[c].live /\ saga[c].alert = a

(* An alert taken off the queue is never lost, whatever outage, crash or   *)
(* database failure hits the listener: it waits in the queue, is being     *)
(* handled under a delivery the broker would repeat, lies in dlq.errors,   *)
(* or has a committed task (CongestionAlertConsumer, RabbitMqConfig).      *)
AlertNotLost == \A a \in Alerts : a \in ready \/ a \in dlq \/ InHand(a) \/ HasTask(a)

(* One delivery of an alert yields at most one row, also when the answer   *)
(* to COMMIT is lost: handleAlert never runs its transaction twice.  A     *)
(* second row for an alert needs a redelivery.                             *)
OneTaskPerDelivery ==
  \A t, u \in DOMAIN tasks :
    (tasks[t].alert = tasks[u].alert /\ tasks[t].delivery = tasks[u].delivery) => t = u

(* The two outcomes of the publish in handleAlert exclude each other: no   *)
(* task is announced by both task.created and task.failed, and a row that  *)
(* the compensation marked FAILED was never announced as created.          *)
EventsExclusive ==
  /\ created \cap failed = {}
  /\ \A t \in DOMAIN tasks : tasks[t].status = "FAILED" => t \notin created

(* A PENDING row is one whose task.created left the service: only the      *)
(* absence of publisher confirms can keep it from the broker.              *)
PendingAnnounced ==
  \A t \in DOMAIN tasks : tasks[t].status = "PENDING" => t \in created \cup unconfirmed

(* The vessel a pending task reserved stays BERTHED at the berth the task's *)
(* unit is named after: later sagas, calls that fail and calls executed    *)
(* late never move or free it.  Only a port operator does, or the          *)
(* compensation of another saga that chose the vessel before this one had  *)
(* reserved it, which needs a second listener thread.                      *)
ReservationHeld ==
  \A t \in DOMAIN tasks :
    LET v == tasks[t].vessel IN
    (/\ tasks[t].status = "PENDING"
     /\ v \notin {None} \cup touched \cup (contended \cap compensated))
      => vessels[v] = [status |-> "BERTHED", berth |-> tasks[t].unit.berth]

(* What the compensation of handleAlert is for (the test                   *)
(* handleAlertShouldCompensateBerthReservationWhenPublishFails): a FAILED  *)
(* task keeps no vessel BERTHED.  Refuted: releaseBerth publishes          *)
(* vessel.arrived before it commits, and fails in the same outage.         *)
FailedTaskHoldsNoBerth ==
  \A t \in DOMAIN tasks :
    LET v == tasks[t].vessel IN
    (tasks[t].status = "FAILED" /\ v # None /\ v \notin touched)
      => vessels[v].status # "BERTHED"

(* The vessels left BERTHED although no task and no saga knows of their    *)
(* reservation.                                                            *)
Orphans ==
  {v \in Vessels \ touched :
     /\ vessels[v].status = "BERTHED"
     /\ \A t \in DOMAIN tasks : tasks[t].vessel # v
     /\ \A c \in Consumers : saga[c].vessel = v => ~saga[c].reserved}

(* No alert names a sector the tasks table refuses. *)
SectorsFit == \A a \in Alerts : AlertOf[a].sector # "long"

(* A crash, a commit that fails or a request executed after its caller     *)
(* timed out costs at most one berth: each leaves at most one vessel       *)
(* BERTHED without an owner, however often the alert is then redelivered.  *)
(* A sector longer than its column costs one without any fault.            *)
OneBerthPerFault == SectorsFit => Cardinality(Orphans) <= faults

(* Tasks announced by task.created that have no row and will have none. *)
Phantoms == {t \in created \ DOMAIN tasks : \A c \in Consumers : saga[c].task # t}

(* task.created leaves before the transaction of handleAlert commits; each *)
(* crash or failing commit leaves at most one announced task without a     *)
(* row, and nothing else does unless a sector does not fit its column.     *)
OnePhantomPerFault == SectorsFit => Cardinality(Phantoms) <= faults

(* An alert that handleAlert can process is given up only for a fault, and *)
(* no fault gives up two: exceptions of the Vessel Service and of the      *)
(* publish are caught and never reach the listener container, which would  *)
(* dead-letter at the first one.                                           *)
OneDeadLetterPerFault ==
  SectorsFit => Cardinality({a \in dlq : validateAlert(AlertOf[a])}) <= faults

(* Every alert is eventually settled for good, with a task or in           *)
(* dlq.errors, once outages and crashes end.                               *)
AlertsSettle ==
  \A a \in Alerts : <>[](a \notin ready /\ ~InHand(a) /\ (a \in dlq \/ HasTask(a)))
=============================================================================

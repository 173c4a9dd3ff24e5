------------------------- MODULE TaskAssignmentProofs -------------------------
(***************************************************************************)
(* Safety of the task assignment saga for any number of alerts, listener   *)
(* threads, vessels, faults and operator requests.                         *)
(***************************************************************************)
EXTENDS TaskAssignment, FiniteSetTheorems, TLAPS

Holding == {"publish", "release", "fail", "commit", "ack"}

(* The fields a step relies on are set. *)
InvHeld ==
  \A c \in Consumers :
    /\ saga[c].step = "idle" => ~saga[c].live
    /\ saga[c].step # "idle" => saga[c].alert \in Alerts
    /\ saga[c].step \in {"reserve", "release"} => saga[c].vessel \in Vessels
    /\ saga[c].reserved => saga[c].vessel \in Vessels
    /\ saga[c].step \in Holding => saga[c].task \in TaskIds

(* A busy thread holds a delivery that has been counted. *)
InvDelivery ==
  \A c \in Consumers :
    saga[c].step # "idle" => /\ 1 <= saga[c].delivery
                             /\ saga[c].delivery <= attempts[saga[c].alert]

(* No delivery is in the hands of two threads. *)
InvApart ==
  \A c, d \in Consumers :
    (c # d /\ saga[c].step # "idle" /\ saga[d].step # "idle" /\ saga[c].alert = saga[d].alert)
      => saga[c].delivery # saga[d].delivery

(* A task id belongs to one thread, from save on. *)
InvTask ==
  /\ \A c \in Consumers : saga[c].step \in Holding => saga[c].task \in used
  /\ \A c \in Consumers : saga[c].step \notin Holding => saga[c].task = None
  /\ \A c, d \in Consumers : (c # d /\ saga[c].task = saga[d].task) => saga[c].task = None

InvRows ==
  /\ DOMAIN tasks \subseteq used
  /\ \A t \in DOMAIN tasks : /\ 1 <= tasks[t].delivery
                              /\ tasks[t].delivery <= attempts[tasks[t].alert]

(* Before its commit a delivery has left no row. *)
InvUncommitted ==
  \A c \in Consumers : saga[c].step \notin {"idle", "ack"} =>
    /\ saga[c].task \notin DOMAIN tasks
    /\ \A t \in DOMAIN tasks : ~(/\ tasks[t].alert = saga[c].alert
                                 /\ tasks[t].delivery = saga[c].delivery)

(* Before the acknowledgement there is a row. *)
InvCommitted ==
  \A c \in Consumers : saga[c].step = "ack" =>
    saga[c].task \in DOMAIN tasks /\ tasks[saga[c].task].alert = saga[c].alert

(* What a thread knows of the events published for its task. *)
ThreadEvents(c) ==
  /\ saga[c].step = "publish" => /\ saga[c].task \notin created
                                 /\ saga[c].task \notin failed
  /\ saga[c].step \in {"release", "fail"} => /\ saga[c].status = "FAILED"
                                             /\ saga[c].task \notin created
  /\ saga[c].step = "commit" =>
       \/ saga[c].status = "FAILED" /\ saga[c].task \notin created
       \/ saga[c].status = "PENDING" /\ saga[c].task \in created \cup unconfirmed
  /\ saga[c].step \in {"start", "reserve", "save", "publish"} => saga[c].status = "PENDING"

InvEvents ==
  /\ created \subseteq used /\ failed \subseteq used
  /\ \A c \in Consumers : ThreadEvents(c)

DeliveryInv == InvDelivery /\ InvApart /\ InvTask /\ InvRows /\ InvUncommitted /\ InvCommitted

TypeInv == TypeOK /\ InvHeld

EventInv == InvEvents /\ EventsExclusive /\ PendingAnnounced

IInv == TypeInv /\ DeliveryInv /\ OneTaskPerDelivery /\ AlertNotLost /\ EventInv

-----------------------------------------------------------------------------
USE DEF AlertEvent, Fault

(* The row a saga writes has the type of the tasks table. *)
LEMMA NewTaskType ==
  ASSUME NEW s \in Saga, s.alert \in Alerts
  PROVE  NewTask(s) \in TaskRow
  <1>1. AlertOf[s.alert] \in AlertEvent
    BY AlertAssumption
  <1>2. determineAssignedUnit(AlertOf[s.alert], s.berth) \in Unit
    BY DEF determineAssignedUnit, Unit, Saga
  <1>3. normalizePriority(AlertOf[s.alert].severity) \in Priorities
    BY DEF normalizePriority, Priorities
  <1>4. s.status \in TaskStatus /\ (IF s.reserved THEN s.vessel ELSE None) \in Vessels \cup {None}
    BY DEF Saga, TaskStatus
  <1> QED
    BY <1>2, <1>3, <1>4 DEF NewTask, TaskRow, Saga

(* An idle listener thread is a well-typed one. *)
LEMMA IdleType == Idle \in Saga
  BY DEF Idle, Saga, Steps, BerthValue

(* Before anything is received the state is well typed and no thread holds *)
(* anything, whatever is in the queue.                                     *)
LEMMA TypeFresh == Fresh /\ ready \subseteq Alerts => TypeInv
  <1> SUFFICES ASSUME Fresh, ready \subseteq Alerts PROVE TypeOK /\ InvHeld
    BY DEF TypeInv
  <1>1. saga \in [Consumers -> Saga]
    BY IdleType DEF Fresh
  <1>2. DOMAIN tasks \subseteq TaskIds /\ tasks \in [DOMAIN tasks -> TaskRow]
    BY DEF Fresh
  <1>3. vessels \in [Vessels -> VesselRow]
    BY DEF Fresh, VesselRow, VesselStatus
  <1>4. InvHeld
    BY DEF Fresh, Idle, InvHeld, Holding
  <1> QED
    BY <1>1, <1>2, <1>3, <1>4, BoundAssumption DEF Fresh, TypeOK

(* So it is initially. *)
LEMMA TypeInvInit == Init => TypeInv
  BY TypeFresh DEF Init

(* TypeInv is inductive: one step per action. *)
LEMMA TypeNext == TypeInv /\ [Next]_vars => TypeInv'
  <1> SUFFICES ASSUME TypeOK, InvHeld, [Next]_vars PROVE TypeOK' /\ InvHeld'
    BY DEF TypeInv
  <1> USE DEF queueVars, eventVars, portVars, histVars
  <1>a. saga \in [Consumers -> Saga]
    BY DEF TypeOK
  <1>b. vessels \in [Vessels -> VesselRow]
    BY DEF TypeOK
  <1>0. CASE UNCHANGED vars
    BY <1>0 DEF vars, InvHeld, TypeOK
  <1>1. ASSUME NEW c \in Consumers, Receive(c) PROVE TypeOK' /\ InvHeld'
    <2> DEFINE new(a) == [Idle EXCEPT !.step = "start", !.alert = a,
                                      !.delivery = attempts[a] + 1, !.live = TRUE]
    <2>1. PICK a \in ready :
            /\ ready' = ready \ {a}
            /\ attempts' = [attempts EXCEPT ![a] = @ + 1]
            /\ saga' = [saga EXCEPT ![c] = new(a)]
      BY <1>1 DEF Receive
    <2>2. a \in Alerts /\ attempts[a] + 1 \in Nat
      BY DEF TypeOK
    <2>3. new(a) \in Saga
      BY <2>2 DEF Idle, Saga, Steps, BerthValue
    <2>4. saga' \in [Consumers -> Saga]
      BY <1>a, <2>1, <2>3
    <2>5. InvHeld'
      BY <1>a, <2>1, <2>2 DEF InvHeld, Idle, Holding
    <2> HIDE DEF new
    <2> QED
      BY <1>1, <2>1, <2>2, <2>4, <2>5 DEF Receive, TypeOK
  <1>2. ASSUME NEW c \in Consumers, ThrowEarly(c) PROVE TypeOK' /\ InvHeld'
    <2>1. saga' \in [Consumers -> Saga]
      BY <1>a, <1>2, IdleType DEF ThrowEarly, Saga, Steps, Reject
    <2>2. InvHeld'
      BY <1>a, <1>2 DEF ThrowEarly, InvHeld, Holding, Saga, Reject, Idle
    <2> QED
      BY <1>2, <2>1, <2>2, BoundAssumption DEF ThrowEarly, TypeOK, Reject, InvHeld
  <1>3. ASSUME NEW c \in Consumers, ListVessels(c) PROVE TypeOK' /\ InvHeld'
    <2>0. contended' \subseteq Vessels
      BY <1>3 DEF ListVessels, Candidates, TypeOK
    <2>3. saga[c].step = "start"
      BY <1>3 DEF ListVessels
    <2>1. CASE saga' = [saga EXCEPT ![c].step = "save"]
      <3>1. saga' \in [Consumers -> Saga]
        BY <1>a, <2>1 DEF Saga, Steps
      <3>2. InvHeld'
        BY <1>a, <2>1, <2>3 DEF InvHeld, Holding, Saga
      <3> QED
        BY <1>3, <2>0, <3>1, <3>2 DEF ListVessels, TypeOK
    <2>2. ASSUME NEW v \in Candidates,
                 saga' = [saga EXCEPT ![c] = [@ EXCEPT !.step = "reserve", !.vessel = v,
                                                       !.berth = vessels[v].berth]]
          PROVE  TypeOK' /\ InvHeld'
      <3>1. v \in Vessels /\ vessels[v].berth \in BerthValue
        BY <1>b DEF Candidates, VesselRow
      <3>2. saga' \in [Consumers -> Saga]
        BY <1>a, <2>2, <3>1, ZenonT(60) DEF Saga, Steps
      <3>4. InvHeld'
        BY <1>a, <2>2, <2>3, <3>1 DEF InvHeld, Holding, Saga
      <3> QED
        BY <1>3, <2>0, <3>2, <3>4 DEF ListVessels, TypeOK
    <2> QED
      BY <1>3, <2>1, <2>2 DEF ListVessels
  <1>4. ASSUME NEW c \in Consumers, ReserveBerth(c) PROVE TypeOK' /\ InvHeld'
    <2>1. saga' \in [Consumers -> Saga]
      BY <1>a, <1>4, ZenonT(60) DEF ReserveBerth, Saga, Steps
    <2>2. InvHeld'
      BY <1>a, <1>4 DEF ReserveBerth, InvHeld, Holding, Saga
    <2>3. vessels' \in [Vessels -> VesselRow]
      BY <1>a, <1>b, <1>4 DEF ReserveBerth, VesselRow, VesselStatus, Reserved, Saga
    <2> QED
      BY <1>4, <2>1, <2>2, <2>3 DEF ReserveBerth, TypeOK
  <1>5. ASSUME NEW c \in Consumers, ReserveBerthFails(c) PROVE TypeOK' /\ InvHeld'
    <2>1. saga' \in [Consumers -> Saga]
      BY <1>a, <1>5 DEF ReserveBerthFails, Saga, Steps
    <2>2. InvHeld'
      BY <1>a, <1>5 DEF ReserveBerthFails, InvHeld, Holding, Saga
    <2>3. InFlight(saga[c]) \subseteq Call
      BY <1>a DEF InFlight, InvHeld, Call, Saga, BerthValue
    <2> HIDE DEF InFlight
    <2> QED
      BY <1>5, <2>1, <2>2, <2>3, BoundAssumption DEF ReserveBerthFails, TypeOK
  <1>6. ASSUME NEW c \in Consumers, SaveTask(c) PROVE TypeOK' /\ InvHeld'
    <2>1. PICK t \in TaskIds :
            /\ used' = used \cup {t}
            /\ saga' = [saga EXCEPT ![c] = [@ EXCEPT !.step = "publish", !.task = t]]
      BY <1>6 DEF SaveTask
    <2>2. saga' \in [Consumers -> Saga]
      BY <1>a, <2>1, ZenonT(60) DEF Saga, Steps
    <2>3. InvHeld'
      BY <1>a, <1>6, <2>1 DEF SaveTask, InvHeld, Holding, Saga
    <2> QED
      BY <1>6, <2>1, <2>2, <2>3 DEF SaveTask, TypeOK
  <1>7. ASSUME NEW c \in Consumers, PublishCreated(c) PROVE TypeOK' /\ InvHeld'
    <2>1. saga' \in [Consumers -> Saga]
      BY <1>a, <1>7 DEF PublishCreated, Saga, Steps
    <2>2. InvHeld'
      BY <1>a, <1>7 DEF PublishCreated, InvHeld, Holding, Saga
    <2> QED
      BY <1>7, <2>1, <2>2 DEF PublishCreated, TypeOK, InvHeld, Holding
  <1>8. ASSUME NEW c \in Consumers, PublishCreatedThrows(c) PROVE TypeOK' /\ InvHeld'
    <2>1. PICK st \in {"release", "fail"} :
            /\ saga[c].reserved \/ st = "fail"
            /\ saga' = [saga EXCEPT ![c] = [@ EXCEPT !.status = "FAILED", !.step = st]]
      BY <1>a, <1>8 DEF PublishCreatedThrows, Saga
    <2>2. saga' \in [Consumers -> Saga]
      BY <1>a, <2>1, ZenonT(60) DEF Saga, Steps
    <2>3. InvHeld'
      BY <1>a, <1>8, <2>1 DEF PublishCreatedThrows, InvHeld, Holding, Saga
    <2>4. compensated' \subseteq Vessels
      BY <1>8 DEF PublishCreatedThrows, ToRelease, InvHeld, TypeOK
    <2> QED
      BY <1>8, <2>2, <2>3, <2>4 DEF PublishCreatedThrows, TypeOK
  <1>9. ASSUME NEW c \in Consumers, ReleaseBerth(c) PROVE TypeOK' /\ InvHeld'
    <2>1. saga' \in [Consumers -> Saga]
      BY <1>a, <1>9 DEF ReleaseBerth, Saga, Steps
    <2>2. InvHeld'
      BY <1>a, <1>9 DEF ReleaseBerth, InvHeld, Holding, Saga
    <2>3. vessels' \in [Vessels -> VesselRow]
      BY <1>a, <1>b, <1>9 DEF ReleaseBerth, VesselRow, VesselStatus, Released, BerthValue
    <2> QED
      BY <1>9, <2>1, <2>2, <2>3 DEF ReleaseBerth, TypeOK
  <1>10. ASSUME NEW c \in Consumers, ReleaseBerthFails(c) PROVE TypeOK' /\ InvHeld'
    <2>1. saga' \in [Consumers -> Saga]
      BY <1>a, <1>10 DEF ReleaseBerthFails, Saga, Steps
    <2>2. InvHeld'
      BY <1>a, <1>10 DEF ReleaseBerthFails, InvHeld, Holding, Saga
    <2>3. InFlight(saga[c]) \subseteq Call
      BY <1>a DEF InFlight, InvHeld, Call, Saga, BerthValue
    <2> HIDE DEF InFlight
    <2> QED
      BY <1>10, <2>1, <2>2, <2>3, BoundAssumption DEF ReleaseBerthFails, TypeOK
  <1>11. ASSUME NEW c \in Consumers, PublishFailed(c) PROVE TypeOK' /\ InvHeld'
    <2>1. saga' \in [Consumers -> Saga]
      BY <1>a, <1>11 DEF PublishFailed, Saga, Steps
    <2>2. InvHeld'
      BY <1>a, <1>11 DEF PublishFailed, InvHeld, Holding, Saga
    <2> QED
      BY <1>11, <2>1, <2>2 DEF PublishFailed, TypeOK, InvHeld, Holding
  <1>12. ASSUME NEW c \in Consumers, Commit(c) PROVE TypeOK' /\ InvHeld'
    <2>1. saga' \in [Consumers -> Saga]
      BY <1>a, <1>12 DEF Commit, Saga, Steps
    <2>2. InvHeld'
      BY <1>a, <1>12 DEF Commit, InvHeld, Holding, Saga
    <2>3. saga[c] \in Saga /\ saga[c].alert \in Alerts /\ saga[c].task \in TaskIds
      BY <1>a, <1>12 DEF Commit, InvHeld, Holding
    <2>4. NewTask(saga[c]) \in TaskRow
      BY <2>3, NewTaskType
    <2>5. DOMAIN WithTask(saga[c]) = DOMAIN tasks \cup {saga[c].task}
      BY DEF WithTask
    <2>6. WithTask(saga[c]) \in [DOMAIN tasks \cup {saga[c].task} -> TaskRow]
      BY <2>4 DEF WithTask, TypeOK
    <2> HIDE DEF WithTask
    <2> QED
      BY <1>12, <2>1, <2>2, <2>3, <2>5, <2>6 DEF Commit, TypeOK
  <1>13. ASSUME NEW c \in Consumers, CommitFails(c) PROVE TypeOK' /\ InvHeld'
    <2>1. saga' \in [Consumers -> Saga]
      BY <1>a, <1>13, IdleType DEF CommitFails, Saga, Steps, Reject
    <2>2. InvHeld'
      BY <1>a, <1>13 DEF CommitFails, InvHeld, Holding, Saga, Reject, Idle
    <2>3. saga[c] \in Saga /\ saga[c].alert \in Alerts /\ saga[c].task \in TaskIds
      BY <1>a, <1>13 DEF CommitFails, InvHeld, Holding
    <2>4. NewTask(saga[c]) \in TaskRow
      BY <2>3, NewTaskType
    <2>5. DOMAIN WithTask(saga[c]) = DOMAIN tasks \cup {saga[c].task}
      BY DEF WithTask
    <2>6. WithTask(saga[c]) \in [DOMAIN tasks \cup {saga[c].task} -> TaskRow]
      BY <2>4 DEF WithTask, TypeOK
    <2> HIDE DEF WithTask
    <2> QED
      BY <1>13, <2>1, <2>2, <2>3, <2>5, <2>6, BoundAssumption DEF CommitFails, TypeOK, Reject
  <1>14. ASSUME NEW c \in Consumers, Ack(c) PROVE TypeOK' /\ InvHeld'
    <2>1. saga' \in [Consumers -> Saga]
      BY <1>a, <1>14, IdleType DEF Ack, Saga, Steps
    <2>2. InvHeld'
      BY <1>a, <1>14 DEF Ack, InvHeld, Holding, Saga, Idle
    <2> QED
      BY <1>14, <2>1, <2>2 DEF Ack, TypeOK
  <1>15. ASSUME NEW c \in Consumers, Crash(c) PROVE TypeOK' /\ InvHeld'
    <2>1. saga' \in [Consumers -> Saga]
      BY <1>a, <1>15, IdleType DEF Crash, Saga, Steps
    <2>2. InvHeld'
      BY <1>a, <1>15 DEF Crash, InvHeld, Holding, Saga, Idle
    <2>3. InFlight(saga[c]) \subseteq Call
      BY <1>a DEF InFlight, InvHeld, Call, Saga, BerthValue
    <2> HIDE DEF InFlight
    <2>4. ready' \subseteq Alerts
      BY <1>15 DEF Crash, InvHeld, TypeOK
    <2> QED
      BY <1>15, <2>1, <2>2, <2>3, <2>4, BoundAssumption DEF Crash, TypeOK
  <1>16. ASSUME BrokerDown PROVE TypeOK' /\ InvHeld'
    <2>1. saga' \in [Consumers -> Saga]
      BY <1>a, <1>16, ZenonT(60) DEF BrokerDown, Saga
    <2>2. InvHeld'
      <3>1. \A c \in Consumers :
              /\ saga'[c].step = saga[c].step /\ saga'[c].alert = saga[c].alert
              /\ saga'[c].vessel = saga[c].vessel /\ saga'[c].task = saga[c].task
              /\ saga'[c].reserved = saga[c].reserved /\ ~saga'[c].live
        BY <1>a, <1>16 DEF BrokerDown, Saga
      <3> QED
        BY <3>1 DEF InvHeld
    <2>3. \A c \in Consumers : saga[c].live => saga[c].alert \in Alerts
      BY <1>a, <1>16 DEF InvHeld
    <2>4. ready' \subseteq Alerts
      BY <1>16, <2>3 DEF BrokerDown, TypeOK
    <2>5. faults' \in 0..MaxFaults
      BY <1>16, BoundAssumption DEF BrokerDown, TypeOK
    <2> QED
      BY <1>16, <2>1, <2>2, <2>4, <2>5 DEF BrokerDown, TypeOK
  <1>17. ASSUME BrokerBack PROVE TypeOK' /\ InvHeld'
    BY <1>17 DEF BrokerBack, InvHeld, TypeOK
  <1>18. ASSUME NEW call \in late, LateCall(call) PROVE TypeOK' /\ InvHeld'
    <2>1. call \in Call
      BY DEF TypeOK
    <2>2. \A r \in VesselRow : Reserved(r, call.berth) \in VesselRow /\ Released(r) \in VesselRow
      BY <2>1 DEF Call, Reserved, Released, VesselRow, VesselStatus, BerthValue
    <2>3. vessels' \in [Vessels -> VesselRow]
      BY <1>b, <1>18, <2>1, <2>2 DEF LateCall, Call
    <2> QED
      BY <1>18, <2>3 DEF LateCall, InvHeld, TypeOK
  <1>19. ASSUME NEW v \in Vessels, OperatorWrite(v) PROVE TypeOK' /\ InvHeld'
    <2>1. vessels' \in [Vessels -> VesselRow]
      BY <1>b, <1>19, ZenonT(60) DEF OperatorWrite, Reserved, Released, Updated, VesselRow, VesselStatus, BerthValue
    <2> QED
      BY <1>19, <2>1, BoundAssumption DEF OperatorWrite, InvHeld, TypeOK
  <1>20. ASSUME NEW t \in TaskIds, completeTask(t) PROVE TypeOK' /\ InvHeld'
    BY <1>20 DEF completeTask, InvHeld, TypeOK, TaskRow, TaskStatus
  <1> QED
    BY <1>0, <1>1, <1>2, <1>3, <1>4, <1>5, <1>6, <1>7, <1>8, <1>9, <1>10, <1>11, <1>12,
       <1>13, <1>14, <1>15, <1>16, <1>17, <1>18, <1>19, <1>20
       DEF Next, HandlerStep

(* The state of the Task Assignment Service keeps its type. *)
THEOREM TypeCorrect == Spec => []TypeOK
  <1>1. TypeInv => TypeOK
    BY DEF TypeInv
  <1> QED
    BY <1>1, TypeInvInit, TypeNext, PTL DEF Spec

-----------------------------------------------------------------------------
(* Deliveries, task ids and rows.                                          *)

(* What a saga step that neither starts, saves, commits nor ends leaves    *)
(* as it is.                                                               *)
SameDelivery(c) ==
  /\ saga'[c].alert = saga[c].alert
  /\ saga'[c].delivery = saga[c].delivery
  /\ saga'[c].task = saga[c].task
  /\ saga'[c].step = "idle" <=> saga[c].step = "idle"
  /\ saga'[c].step = "ack" <=> saga[c].step = "ack"
  /\ saga'[c].step \in Holding <=> saga[c].step \in Holding

(* Steps that keep alerts, deliveries and tasks keep DeliveryInv. *)
LEMMA DeliveryKept ==
  ASSUME DeliveryInv, OneTaskPerDelivery, UNCHANGED <<attempts, tasks, used>>,
         \A c \in Consumers : SameDelivery(c)
  PROVE  DeliveryInv' /\ OneTaskPerDelivery'
  <1>1. InvDelivery' /\ InvApart'
    BY DEF DeliveryInv, InvDelivery, InvApart, SameDelivery
  <1>2. InvTask' /\ InvRows'
    BY DEF DeliveryInv, InvTask, InvRows, SameDelivery
  <1>3. InvUncommitted'
    BY DEF DeliveryInv, InvUncommitted, SameDelivery
  <1>4. InvCommitted'
    BY DEF DeliveryInv, InvCommitted, SameDelivery
  <1> QED
    BY <1>1, <1>2, <1>3, <1>4 DEF DeliveryInv, OneTaskPerDelivery

(* A thread that goes back to idle, however it ends, disturbs nothing. *)
LEMMA DeliveryEnds ==
  ASSUME TypeInv, DeliveryInv, OneTaskPerDelivery, UNCHANGED <<attempts, tasks, used>>,
         NEW c \in Consumers, saga' = [saga EXCEPT ![c] = Idle]
  PROVE  DeliveryInv' /\ OneTaskPerDelivery'
  <1>0. /\ saga'[c].step = "idle" /\ saga'[c].task = None
        /\ \A d \in Consumers \ {c} : saga'[d] = saga[d]
    BY DEF Idle, TypeInv, TypeOK
  <1>1. InvDelivery' /\ InvApart'
    BY <1>0 DEF DeliveryInv, InvDelivery, InvApart
  <1>2. InvTask' /\ InvRows'
    BY <1>0 DEF DeliveryInv, InvTask, InvRows, Holding
  <1>3. InvUncommitted'
    BY <1>0 DEF DeliveryInv, InvUncommitted
  <1>4. InvCommitted'
    BY <1>0 DEF DeliveryInv, InvCommitted
  <1> QED
    BY <1>1, <1>2, <1>3, <1>4 DEF DeliveryInv, OneTaskPerDelivery

(* The row of a committing thread is new, in its id and in its delivery. *)
LEMMA RowIsNew ==
  ASSUME TypeInv, DeliveryInv, OneTaskPerDelivery,
         NEW c \in Consumers, saga[c].step = "commit", tasks' = WithTask(saga[c])
  PROVE  /\ saga[c].task \in TaskIds /\ saga[c].task \notin DOMAIN tasks
         /\ DOMAIN tasks' = DOMAIN tasks \cup {saga[c].task}
         /\ tasks'[saga[c].task] = NewTask(saga[c])
         /\ \A t \in DOMAIN tasks : tasks'[t] = tasks[t]
         /\ \A t \in DOMAIN tasks : ~(/\ tasks[t].alert = saga[c].alert
                                      /\ tasks[t].delivery = saga[c].delivery)
         /\ OneTaskPerDelivery'
  <1>1. /\ saga[c].task \in TaskIds /\ saga[c].task \notin DOMAIN tasks
        /\ \A t \in DOMAIN tasks : ~(/\ tasks[t].alert = saga[c].alert
                                     /\ tasks[t].delivery = saga[c].delivery)
    BY DEF TypeInv, InvHeld, Holding, DeliveryInv, InvUncommitted
  <1>2. /\ DOMAIN tasks' = DOMAIN tasks \cup {saga[c].task}
        /\ tasks'[saga[c].task] = NewTask(saga[c])
        /\ \A t \in DOMAIN tasks : tasks'[t] = tasks[t]
    BY <1>1 DEF WithTask
  <1>3. NewTask(saga[c]).alert = saga[c].alert /\ NewTask(saga[c]).delivery = saga[c].delivery
    BY DEF NewTask
  <1>4. OneTaskPerDelivery'
    BY <1>1, <1>2, <1>3 DEF OneTaskPerDelivery
  <1> QED
    BY <1>1, <1>2, <1>4

(* Every step keeps rows and deliveries apart: at most one row each. *)
LEMMA DeliveryNext ==
  TypeInv /\ DeliveryInv /\ OneTaskPerDelivery /\ [Next]_vars
    => DeliveryInv' /\ OneTaskPerDelivery'
  <1> SUFFICES ASSUME TypeInv, DeliveryInv, OneTaskPerDelivery, [Next]_vars
               PROVE  DeliveryInv' /\ OneTaskPerDelivery'
    OBVIOUS
  <1> USE DEF queueVars, eventVars, portVars, histVars
  <1>a. saga \in [Consumers -> Saga] /\ attempts \in [Alerts -> Nat] /\ ready \subseteq Alerts
    BY DEF TypeInv, TypeOK
  <1>r. tasks \in [DOMAIN tasks -> TaskRow]
    BY DEF TypeInv, TypeOK
  <1>0. CASE UNCHANGED vars
    BY <1>0, DeliveryKept DEF vars, SameDelivery
  <1>1. ASSUME NEW c \in Consumers, Receive(c) PROVE DeliveryInv' /\ OneTaskPerDelivery'
    <2>1. PICK a \in Alerts :
            /\ attempts' = [attempts EXCEPT ![a] = @ + 1]
            /\ saga' = [saga EXCEPT ![c] = [Idle EXCEPT !.step = "start", !.alert = a,
                                         !.delivery = attempts[a] + 1, !.live = TRUE]]
      BY <1>a, <1>1 DEF Receive
    <2>2. UNCHANGED <<tasks, used>>
      BY <1>1 DEF Receive
    <2>3. /\ saga'[c].step = "start" /\ saga'[c].alert = a
          /\ saga'[c].delivery = attempts[a] + 1 /\ saga'[c].task = None
          /\ \A d \in Consumers \ {c} : saga'[d] = saga[d]
      BY <1>a, <2>1 DEF Idle
    <2>4. \A x \in Alerts : attempts[x] \in Nat /\ attempts'[x] \in Nat /\ attempts[x] <= attempts'[x]
      BY <1>a, <2>1
    <2>5. \A d \in Consumers : saga[d].step # "idle" =>
            /\ saga[d].alert \in Alerts /\ saga[d].delivery \in Nat
            /\ 1 <= saga[d].delivery /\ saga[d].delivery <= attempts[saga[d].alert]
      BY <1>a DEF TypeInv, InvHeld, DeliveryInv, InvDelivery, Saga
    <2>6. \A t \in DOMAIN tasks :
            /\ tasks[t].alert \in Alerts /\ tasks[t].delivery \in Nat
            /\ tasks[t].delivery <= attempts[tasks[t].alert]
      BY <1>r DEF DeliveryInv, InvRows, TaskRow
    <2>7. InvDelivery'
      BY <1>a, <2>1, <2>3, <2>4, <2>5 DEF InvDelivery
    <2>8. InvApart'
      BY <1>a, <2>1, <2>3, <2>4, <2>5 DEF DeliveryInv, InvApart
    <2>9. InvTask'
      BY <2>2, <2>3 DEF DeliveryInv, InvTask, Holding
    <2>10. InvRows'
      BY <2>2, <2>4, <2>6 DEF DeliveryInv, InvRows
    <2>11. InvUncommitted'
      <3>1. None \notin DOMAIN tasks
        BY NoneAssumption DEF TypeInv, TypeOK
      <3>2. \A t \in DOMAIN tasks : ~(tasks[t].alert = a /\ tasks[t].delivery = attempts[a] + 1)
        BY <2>4, <2>6
      <3> QED
        BY <2>2, <2>3, <3>1, <3>2 DEF DeliveryInv, InvUncommitted
    <2>12. InvCommitted'
      BY <2>2, <2>3 DEF DeliveryInv, InvCommitted
    <2> QED
      BY <2>2, <2>7, <2>8, <2>9, <2>10, <2>11, <2>12 DEF DeliveryInv, OneTaskPerDelivery
  <1>2. ASSUME NEW c \in Consumers,
               \/ ListVessels(c) \/ ReserveBerth(c) \/ ReserveBerthFails(c)
               \/ PublishCreated(c) \/ PublishCreatedThrows(c)
               \/ ReleaseBerth(c) \/ ReleaseBerthFails(c) \/ PublishFailed(c)
        PROVE  DeliveryInv' /\ OneTaskPerDelivery'
    <2>1. UNCHANGED <<attempts, tasks, used>>
      BY <1>2 DEF ListVessels, ReserveBerth, ReserveBerthFails, PublishCreated,
                  PublishCreatedThrows, ReleaseBerth, ReleaseBerthFails, PublishFailed
    <2>2. SameDelivery(c)
      <3>1. CASE ListVessels(c)
        <4>1. saga[c].step = "start"
          BY <3>1 DEF ListVessels
        <4>2. CASE saga' = [saga EXCEPT ![c].step = "save"]
          BY <1>a, <4>1, <4>2 DEF SameDelivery, Holding, Saga
        <4>3. ASSUME NEW v \in Candidates,
                     saga' = [saga EXCEPT ![c] = [@ EXCEPT !.step = "reserve", !.vessel = v,
                                                           !.berth = vessels[v].berth]]
              PROVE  SameDelivery(c)
          <5>1. saga'[c] = [saga[c] EXCEPT !.step = "reserve", !.vessel = v,
                                           !.berth = vessels[v].berth]
            BY <1>a, <4>3
          <5> QED
            BY <1>a, <4>1, <5>1 DEF SameDelivery, Holding, Saga
        <4> QED
          BY <3>1, <4>2, <4>3 DEF ListVessels
      <3>2. CASE ReserveBerth(c) \/ ReserveBerthFails(c)
        <4>1. saga[c].step = "reserve"
          BY <3>2 DEF ReserveBerth, ReserveBerthFails
        <4>2. \/ saga'[c] = [saga[c] EXCEPT !.step = "save", !.reserved = TRUE]
              \/ saga'[c] = [saga[c] EXCEPT !.step = "save"]
          BY <1>a, <3>2 DEF ReserveBerth, ReserveBerthFails
        <4> QED
          BY <1>a, <4>1, <4>2 DEF SameDelivery, Holding, Saga
      <3>3. CASE PublishCreated(c) \/ PublishCreatedThrows(c)
        <4>1. saga[c].step = "publish"
          BY <3>3 DEF PublishCreated, PublishCreatedThrows
        <4>2. PICK st \in {"commit", "release", "fail"} :
                \/ saga'[c] = [saga[c] EXCEPT !.step = st]
                \/ saga'[c] = [saga[c] EXCEPT !.status = "FAILED", !.step = st]
          BY <1>a, <3>3 DEF PublishCreated, PublishCreatedThrows
        <4> QED
          BY <1>a, <4>1, <4>2 DEF SameDelivery, Holding, Saga
      <3>4. CASE ReleaseBerth(c) \/ ReleaseBerthFails(c) \/ PublishFailed(c)
        BY <1>a, <3>4 DEF ReleaseBerth, ReleaseBerthFails, PublishFailed, SameDelivery, Holding, Saga
      <3> QED
        BY <1>2, <3>1, <3>2, <3>3, <3>4
    <2>3. \A d \in Consumers \ {c} : saga'[d] = saga[d]
      BY <1>a, <1>2 DEF ListVessels, ReserveBerth, ReserveBerthFails, PublishCreated,
                  PublishCreatedThrows, ReleaseBerth, ReleaseBerthFails, PublishFailed
    <2>4. \A d \in Consumers : SameDelivery(d)
      BY <2>2, <2>3 DEF SameDelivery
    <2> QED
      BY <2>1, <2>4, DeliveryKept
  <1>3. ASSUME NEW c \in Consumers, ThrowEarly(c) \/ Ack(c) \/ Crash(c)
        PROVE  DeliveryInv' /\ OneTaskPerDelivery'
    BY <1>3, DeliveryEnds DEF ThrowEarly, Reject, Ack, Crash
  <1>4. ASSUME NEW c \in Consumers, SaveTask(c) PROVE DeliveryInv' /\ OneTaskPerDelivery'
    <2>1. PICK t \in TaskIds \ used :
            /\ used' = used \cup {t}
            /\ saga' = [saga EXCEPT ![c] = [@ EXCEPT !.step = "publish", !.task = t]]
      BY <1>4 DEF SaveTask
    <2>2. UNCHANGED <<attempts, tasks>> /\ saga[c].step = "save"
      BY <1>4 DEF SaveTask
    <2>3. /\ saga'[c].step = "publish" /\ saga'[c].task = t
          /\ saga'[c].alert = saga[c].alert /\ saga'[c].delivery = saga[c].delivery
          /\ \A d \in Consumers \ {c} : saga'[d] = saga[d]
      BY <1>a, <2>1 DEF Saga
    <2>4. InvDelivery' /\ InvApart'
      BY <2>2, <2>3 DEF DeliveryInv, InvDelivery, InvApart
    <2>5. InvTask'
      <3>1. t # None
        BY <2>1, NoneAssumption
      <3>2. \A d \in Consumers : saga[d].task \in used \/ saga[d].task = None
        BY DEF DeliveryInv, InvTask
      <3> QED
        BY <2>1, <2>3, <3>1, <3>2 DEF DeliveryInv, InvTask, Holding
    <2>6. InvRows' /\ InvUncommitted' /\ InvCommitted'
      BY <2>1, <2>2, <2>3 DEF DeliveryInv, InvRows, InvUncommitted, InvCommitted
    <2> QED
      BY <2>2, <2>4, <2>5, <2>6 DEF DeliveryInv, OneTaskPerDelivery
  <1>5. ASSUME NEW c \in Consumers, saga[c].step = "commit", tasks' = WithTask(saga[c]),
               UNCHANGED <<attempts, used>>,
               saga' = [saga EXCEPT ![c].step = "ack"] \/ saga' = [saga EXCEPT ![c] = Idle]
        PROVE  DeliveryInv' /\ OneTaskPerDelivery'
    <2>1. /\ \A d \in Consumers \ {c} : saga'[d] = saga[d]
          /\ \/ /\ saga'[c].step = "ack" /\ saga'[c].task = saga[c].task
                /\ saga'[c].alert = saga[c].alert /\ saga'[c].delivery = saga[c].delivery
             \/ saga'[c].step = "idle" /\ saga'[c].task = None
      BY <1>a, <1>5 DEF Saga, Idle
    <2>2. /\ saga[c].task \in TaskIds /\ saga[c].task \notin DOMAIN tasks
          /\ DOMAIN tasks' = DOMAIN tasks \cup {saga[c].task}
          /\ tasks'[saga[c].task] = NewTask(saga[c])
          /\ \A t \in DOMAIN tasks : tasks'[t] = tasks[t]
          /\ OneTaskPerDelivery'
      BY <1>5, RowIsNew
    <2>3. NewTask(saga[c]).alert = saga[c].alert /\ NewTask(saga[c]).delivery = saga[c].delivery
      BY DEF NewTask
    <2>4. InvDelivery' /\ InvApart' /\ InvTask'
      BY <1>5, <2>1 DEF DeliveryInv, InvDelivery, InvApart, InvTask, Holding
    <2>5. InvRows'
      BY <1>5, <2>2, <2>3 DEF DeliveryInv, InvRows, InvDelivery, InvTask, Holding
    <2>6. InvUncommitted'
      <3> SUFFICES ASSUME NEW d \in Consumers, saga'[d].step \notin {"idle", "ack"}
                   PROVE  /\ saga'[d].task \notin DOMAIN tasks'
                          /\ \A t \in DOMAIN tasks' : ~(/\ tasks'[t].alert = saga'[d].alert
                                                        /\ tasks'[t].delivery = saga'[d].delivery)
        BY DEF InvUncommitted
      <3>1. d # c /\ saga'[d] = saga[d]
        BY <2>1
      <3>2. saga[c].task # None
        BY <2>2, NoneAssumption
      <3>3. saga[d].task # saga[c].task
        BY <3>1, <3>2 DEF DeliveryInv, InvTask
      <3>4. ~(saga[c].alert = saga[d].alert /\ saga[c].delivery = saga[d].delivery)
        BY <1>5, <3>1 DEF DeliveryInv, InvApart
      <3> QED
        BY <2>2, <2>3, <3>1, <3>3, <3>4 DEF DeliveryInv, InvUncommitted
    <2>7. InvCommitted'
      BY <2>1, <2>2, <2>3 DEF DeliveryInv, InvCommitted
    <2> QED
      BY <2>2, <2>4, <2>5, <2>6, <2>7 DEF DeliveryInv
  <1>6. ASSUME NEW c \in Consumers, Commit(c) PROVE DeliveryInv' /\ OneTaskPerDelivery'
    BY <1>5, <1>6 DEF Commit
  <1>7. ASSUME NEW c \in Consumers, CommitFails(c) PROVE DeliveryInv' /\ OneTaskPerDelivery'
    <2>1. /\ saga[c].step = "commit" /\ saga' = [saga EXCEPT ![c] = Idle]
          /\ UNCHANGED <<attempts, used>>
          /\ tasks' = tasks \/ tasks' = WithTask(saga[c])
      BY <1>7 DEF CommitFails, Reject
    <2> QED
      BY <1>5, <2>1, DeliveryEnds
  <1>8. CASE BrokerDown
    <2>1. \A c \in Consumers : SameDelivery(c)
      BY <1>a, <1>8 DEF BrokerDown, SameDelivery, Saga
    <2> QED
      BY <1>8, <2>1, DeliveryKept DEF BrokerDown
  <1>9. CASE \/ BrokerBack
             \/ \E call \in late : LateCall(call)
             \/ \E v \in Vessels : OperatorWrite(v)
    BY <1>9, DeliveryKept DEF BrokerBack, LateCall, OperatorWrite, SameDelivery
  <1>10. ASSUME NEW t \in TaskIds, completeTask(t) PROVE DeliveryInv' /\ OneTaskPerDelivery'
    <2>1. /\ UNCHANGED <<attempts, saga, used>>
          /\ DOMAIN tasks' = DOMAIN tasks
          /\ \A u \in DOMAIN tasks : /\ tasks'[u].alert = tasks[u].alert
                                      /\ tasks'[u].delivery = tasks[u].delivery
      BY <1>10, <1>r DEF completeTask, TaskRow
    <2> QED
      BY <2>1 DEF DeliveryInv, InvDelivery, InvApart, InvTask, InvRows, InvUncommitted,
                  InvCommitted, OneTaskPerDelivery
  <1> QED
    BY <1>0, <1>1, <1>2, <1>3, <1>4, <1>6, <1>7, <1>8, <1>9, <1>10 DEF Next, HandlerStep

-----------------------------------------------------------------------------
(* No alert is lost.                                                       *)

(* Only commits and completeTask write rows: none disappears, and none     *)
(* changes its alert.                                                      *)
LEMMA RowsStay ==
  ASSUME TypeInv, DeliveryInv, OneTaskPerDelivery, [Next]_vars
  PROVE  \A a : HasTask(a) => HasTask(a)'
  <1> SUFFICES /\ DOMAIN tasks \subseteq DOMAIN tasks'
               /\ \A t \in DOMAIN tasks : tasks'[t].alert = tasks[t].alert
    BY DEF HasTask
  <1> USE DEF queueVars, eventVars, portVars, histVars
  <1>1. ASSUME NEW c \in Consumers, Commit(c) \/ CommitFails(c)
        PROVE  /\ DOMAIN tasks \subseteq DOMAIN tasks'
               /\ \A t \in DOMAIN tasks : tasks'[t].alert = tasks[t].alert
    <2>1. saga[c].step = "commit" /\ (tasks' = tasks \/ tasks' = WithTask(saga[c]))
      BY <1>1 DEF Commit, CommitFails
    <2> QED
      BY <2>1, RowIsNew
  <1>2. ASSUME NEW t \in TaskIds, completeTask(t)
        PROVE  /\ DOMAIN tasks \subseteq DOMAIN tasks'
               /\ \A u \in DOMAIN tasks : tasks'[u].alert = tasks[u].alert
    BY <1>2 DEF completeTask, TypeInv, TypeOK, TaskRow
  <1>3. CASE \/ UNCHANGED vars \/ BrokerDown \/ BrokerBack
             \/ \E call \in late : LateCall(call)
             \/ \E v \in Vessels : OperatorWrite(v)
    BY <1>3 DEF vars, BrokerDown, BrokerBack, LateCall, OperatorWrite
  <1>4. ASSUME NEW c \in Consumers,
               \/ Receive(c) \/ ThrowEarly(c) \/ ListVessels(c)
               \/ ReserveBerth(c) \/ ReserveBerthFails(c) \/ SaveTask(c)
               \/ PublishCreated(c) \/ PublishCreatedThrows(c) \/ ReleaseBerth(c)
               \/ ReleaseBerthFails(c) \/ PublishFailed(c) \/ Ack(c) \/ Crash(c)
        PROVE  UNCHANGED tasks
    BY <1>4 DEF Receive, ThrowEarly, ListVessels, ReserveBerth, ReserveBerthFails, SaveTask,
                PublishCreated, PublishCreatedThrows, ReleaseBerth, ReleaseBerthFails,
                PublishFailed, Ack, Crash
  <1> QED
    BY <1>1, <1>2, <1>3, <1>4 DEF Next, HandlerStep

(* The alert waits, is being handled, dead-lettered, or has its task. *)
Safe(a) == a \in ready \/ a \in dlq \/ InHand(a) \/ HasTask(a)

(* No step loses an alert. *)
LEMMA SafeNext ==
  ASSUME TypeInv, DeliveryInv, OneTaskPerDelivery, [Next]_vars, NEW a \in Alerts, Safe(a)
  PROVE  Safe(a)'
  <1> USE DEF Safe, queueVars, eventVars, portVars, histVars
  <1>a. saga \in [Consumers -> Saga]
    BY DEF TypeInv, TypeOK
  <1>b. a \in ready \/ a \in dlq \/ InHand(a) \/ HasTask(a)
    BY DEF Safe
  <1>c. HasTask(a) => HasTask(a)'
    BY RowsStay
  (* The steps under which a delivery stays in hand. *)
  <1>1. ASSUME ready \subseteq ready', dlq \subseteq dlq',
               \A c \in Consumers : saga'[c].live = saga[c].live /\ saga'[c].alert = saga[c].alert
        PROVE  Safe(a)'
    BY <1>b, <1>c, <1>1 DEF InHand
  (* The steps that end a delivery and put its alert somewhere safe. *)
  <1>2. ASSUME NEW c \in Consumers, ready \subseteq ready', dlq \subseteq dlq',
               saga' = [saga EXCEPT ![c] = Idle],
               saga[c].live => \/ saga[c].alert \in ready' \/ saga[c].alert \in dlq'
                               \/ \E t \in DOMAIN tasks' : tasks'[t].alert = saga[c].alert
        PROVE  Safe(a)'
    <2>1. \A d \in Consumers \ {c} : saga'[d] = saga[d]
      BY <1>a, <1>2
    <2> QED
      BY <1>b, <1>c, <1>2, <2>1 DEF InHand, HasTask
  <1>3. CASE UNCHANGED vars
    BY <1>1, <1>3 DEF vars
  <1>4. ASSUME NEW c \in Consumers, Receive(c)
        PROVE  Safe(a)'
    <2>1. PICK x \in ready : ready' = ready \ {x} /\ saga'[c].live = TRUE /\ saga'[c].alert = x
      BY <1>a, <1>4 DEF Receive, Idle
    <2>2. /\ saga[c].live = FALSE /\ dlq' = dlq
          /\ \A d \in Consumers \ {c} : saga'[d] = saga[d]
      BY <1>a, <1>4 DEF Receive, TypeInv, InvHeld, Saga
    <2> QED
      BY <1>b, <1>c, <2>1, <2>2 DEF InHand
  <1>5. ASSUME NEW c \in Consumers, ThrowEarly(c) \/ CommitFails(c)
        PROVE  Safe(a)'
    <2>1. Reject(c) /\ ready' = ready
      BY <1>5 DEF ThrowEarly, CommitFails
    <2> QED
      BY <1>2, <2>1 DEF Reject
  <1>6. ASSUME NEW c \in Consumers, Ack(c)
        PROVE  Safe(a)'
    <2>1. \E t \in DOMAIN tasks' : tasks'[t].alert = saga[c].alert
      BY <1>6 DEF Ack, DeliveryInv, InvCommitted
    <2> QED
      BY <1>2, <1>6, <2>1 DEF Ack
  <1>7. ASSUME NEW c \in Consumers, Crash(c)
        PROVE  Safe(a)'
    <2>1. /\ ready \subseteq ready' /\ dlq' = dlq /\ saga' = [saga EXCEPT ![c] = Idle]
          /\ saga[c].live => saga[c].alert \in ready'
      BY <1>7 DEF Crash
    <2> QED
      BY <1>2, <2>1
  <1>8. ASSUME NEW c \in Consumers,
               \/ ListVessels(c) \/ ReserveBerth(c) \/ ReserveBerthFails(c) \/ SaveTask(c)
               \/ PublishCreated(c) \/ PublishCreatedThrows(c)
               \/ ReleaseBerth(c) \/ ReleaseBerthFails(c) \/ PublishFailed(c) \/ Commit(c)
        PROVE  Safe(a)'
    <2>1. UNCHANGED <<ready, dlq>>
      BY <1>8 DEF ListVessels, ReserveBerth, ReserveBerthFails, SaveTask, PublishCreated,
                  PublishCreatedThrows, ReleaseBerth, ReleaseBerthFails, PublishFailed, Commit
    <2>2. \A d \in Consumers \ {c} : saga'[d] = saga[d]
      BY <1>a, <1>8 DEF ListVessels, ReserveBerth, ReserveBerthFails, SaveTask, PublishCreated,
                  PublishCreatedThrows, ReleaseBerth, ReleaseBerthFails, PublishFailed, Commit
    <2>3. saga'[c].live = saga[c].live /\ saga'[c].alert = saga[c].alert
      <3>1. CASE ListVessels(c)
        BY <1>a, <3>1, ZenonT(60) DEF ListVessels, Saga
      <3>2. CASE SaveTask(c)
        <4> PICK t \in TaskIds : saga' = [saga EXCEPT ![c] = [@ EXCEPT !.step = "publish", !.task = t]]
          BY <3>2 DEF SaveTask
        <4> QED
          BY <1>a DEF Saga
      <3>3. CASE ReserveBerth(c)
        BY <1>a, <3>3 DEF ReserveBerth, Saga
      <3>4. CASE ReserveBerthFails(c)
        BY <1>a, <3>4 DEF ReserveBerthFails, Saga
      <3>5. CASE ReleaseBerth(c)
        BY <1>a, <3>5 DEF ReleaseBerth, Saga
      <3>6. CASE ReleaseBerthFails(c)
        BY <1>a, <3>6 DEF ReleaseBerthFails, Saga
      <3>7. CASE PublishCreatedThrows(c)
        BY <1>a, <3>7 DEF PublishCreatedThrows, Saga
      <3>8. CASE PublishCreated(c) \/ PublishFailed(c) \/ Commit(c)
        BY <1>a, <3>8 DEF PublishCreated, PublishFailed, Commit, Saga
      <3> QED
        BY <1>8, <3>1, <3>2, <3>3, <3>4, <3>5, <3>6, <3>7, <3>8
    <2> QED
      BY <1>1, <2>1, <2>2, <2>3
  <1>9. CASE BrokerDown
    <2>1. \A c \in Consumers : saga[c].live => saga[c].alert \in ready'
      BY <1>9 DEF BrokerDown
    <2>2. ready \subseteq ready' /\ dlq' = dlq
      BY <1>9 DEF BrokerDown
    <2> QED
      BY <1>b, <1>c, <2>1, <2>2 DEF InHand
  <1>10. CASE \/ BrokerBack
              \/ \E call \in late : LateCall(call)
              \/ \E v \in Vessels : OperatorWrite(v)
              \/ \E t \in TaskIds : completeTask(t)
    BY <1>1, <1>10 DEF BrokerBack, LateCall, OperatorWrite, completeTask
  <1> QED
    BY <1>3, <1>4, <1>5, <1>6, <1>7, <1>8, <1>9, <1>10 DEF Next, HandlerStep

(* In particular, when all alerts are safe they stay so. *)
LEMMA LostNext ==
  TypeInv /\ DeliveryInv /\ OneTaskPerDelivery /\ AlertNotLost /\ [Next]_vars => AlertNotLost'
  BY SafeNext DEF AlertNotLost, Safe

-----------------------------------------------------------------------------
(* Events.                                                                 *)

(* Steps that publish nothing and commit nothing. *)
LEMMA EventsKept ==
  ASSUME EventInv, UNCHANGED <<eventVars, tasks, used>>,
         \A c \in Consumers : ThreadEvents(c) => ThreadEvents(c)'
  PROVE  EventInv'
  BY DEF EventInv, InvEvents, EventsExclusive, PendingAnnounced, eventVars

(* Every step keeps the rows in agreement with the published events. *)
LEMMA EventsNext == TypeInv /\ DeliveryInv /\ OneTaskPerDelivery /\ EventInv /\ [Next]_vars => EventInv'
  <1> SUFFICES ASSUME TypeInv, DeliveryInv, OneTaskPerDelivery, EventInv, [Next]_vars
               PROVE  EventInv'
    OBVIOUS
  <1> USE DEF queueVars, portVars, histVars
  <1>a. saga \in [Consumers -> Saga]
    BY DEF TypeInv, TypeOK
  <1>b. tasks \in [DOMAIN tasks -> TaskRow]
    BY DEF TypeInv, TypeOK
  <1>c. \A c \in Consumers : ThreadEvents(c)
    BY DEF EventInv, InvEvents
  (* A thread that publishes nothing. *)
  <1>1. ASSUME NEW c \in Consumers, UNCHANGED <<eventVars, tasks, used>>,
               \A d \in Consumers \ {c} : saga'[d] = saga[d],
               ThreadEvents(c)'
        PROVE  EventInv'
    <2>1. \A d \in Consumers \ {c} : ThreadEvents(d) => ThreadEvents(d)'
      BY <1>1 DEF ThreadEvents, eventVars
    <2> QED
      BY <1>1, <2>1, EventsKept
  (* A thread that goes idle. *)
  <1>2. ASSUME NEW c \in Consumers, UNCHANGED <<eventVars, tasks, used>>,
               saga' = [saga EXCEPT ![c] = Idle]
        PROVE  EventInv'
    <2>1. /\ \A d \in Consumers \ {c} : saga'[d] = saga[d]
          /\ saga'[c].step = "idle"
      BY <1>a, <1>2 DEF Idle
    <2>2. ThreadEvents(c)'
      BY <2>1 DEF ThreadEvents
    <2> QED
      BY <1>1, <1>2, <2>1, <2>2
  <1>3. CASE UNCHANGED vars
    BY <1>3, EventsKept DEF vars, ThreadEvents, eventVars
  <1>4. ASSUME NEW c \in Consumers, Receive(c) PROVE EventInv'
    <2>1. /\ \A d \in Consumers \ {c} : saga'[d] = saga[d]
          /\ saga'[c].step = "start" /\ saga'[c].status = "PENDING"
      BY <1>a, <1>4 DEF Receive, Idle
    <2>2. ThreadEvents(c)'
      BY <2>1 DEF ThreadEvents
    <2> QED
      BY <1>1, <1>4, <2>1, <2>2 DEF Receive
  <1>5. ASSUME NEW c \in Consumers, ThrowEarly(c) \/ Ack(c) \/ Crash(c) PROVE EventInv'
    BY <1>2, <1>5 DEF ThrowEarly, Reject, Ack, Crash
  <1>6. ASSUME NEW c \in Consumers, ListVessels(c) \/ ReserveBerth(c) \/ ReserveBerthFails(c)
        PROVE  EventInv'
    <2>1. /\ UNCHANGED <<eventVars, tasks, used>>
          /\ \A d \in Consumers \ {c} : saga'[d] = saga[d]
      BY <1>a, <1>6 DEF ListVessels, ReserveBerth, ReserveBerthFails
    <2>2. saga[c].step \in {"start", "reserve"}
      BY <1>6 DEF ListVessels, ReserveBerth, ReserveBerthFails
    <2>3. saga'[c].step \in {"reserve", "save"} /\ saga'[c].status = saga[c].status
      <3>1. CASE ListVessels(c)
        BY <1>a, <3>1, ZenonT(60) DEF ListVessels, Saga
      <3>2. CASE ReserveBerth(c) \/ ReserveBerthFails(c)
        BY <1>a, <3>2, ZenonT(60) DEF ReserveBerth, ReserveBerthFails, Saga
      <3> QED
        BY <1>6, <3>1, <3>2
    <2>4. ThreadEvents(c)'
      BY <1>c, <2>2, <2>3 DEF ThreadEvents
    <2> QED
      BY <1>1, <2>1, <2>4
  <1>7. ASSUME NEW c \in Consumers, SaveTask(c) PROVE EventInv'
    <2>1. PICK t \in TaskIds \ used :
            /\ used' = used \cup {t}
            /\ saga' = [saga EXCEPT ![c] = [@ EXCEPT !.step = "publish", !.task = t]]
      BY <1>7 DEF SaveTask
    <2>2. /\ \A d \in Consumers \ {c} : saga'[d] = saga[d]
          /\ saga'[c].step = "publish" /\ saga'[c].task = t /\ saga'[c].status = "PENDING"
      BY <1>a, <1>c, <1>7, <2>1 DEF SaveTask, Saga, ThreadEvents
    <2>3. t \notin created /\ t \notin failed
      BY <2>1 DEF EventInv, InvEvents
    <2>4. UNCHANGED <<eventVars, tasks>>
      BY <1>7 DEF SaveTask
    <2>5. \A d \in Consumers : ThreadEvents(d)'
      BY <1>c, <2>2, <2>3, <2>4 DEF ThreadEvents, eventVars
    <2> QED
      BY <2>1, <2>4, <2>5 DEF EventInv, InvEvents, EventsExclusive, PendingAnnounced, eventVars
  <1>8. ASSUME NEW c \in Consumers, PublishCreated(c) PROVE EventInv'
    <2> DEFINE t == saga[c].task
    <2>1. /\ saga[c].step = "publish" /\ t \in used /\ t # None /\ t \notin DOMAIN tasks
          /\ t \notin failed
      BY <1>8, <1>c, NoneAssumption DEF PublishCreated, DeliveryInv, InvTask, InvUncommitted, Holding,
                          ThreadEvents, TypeInv, InvHeld
    <2>2. /\ created \subseteq created' /\ created' \subseteq created \cup {t}
          /\ unconfirmed \subseteq unconfirmed' /\ UNCHANGED <<failed, used, tasks>>
          /\ t \in created' \cup unconfirmed'
      BY <1>8 DEF PublishCreated
    <2>3. /\ \A d \in Consumers \ {c} : saga'[d] = saga[d]
          /\ saga'[c].step = "commit" /\ saga'[c].task = t /\ saga'[c].status = "PENDING"
      BY <1>a, <1>c, <1>8 DEF PublishCreated, Saga, ThreadEvents
    <2>4. \A d \in Consumers \ {c} : saga[d].task # t
      BY <2>1 DEF DeliveryInv, InvTask
    <2> HIDE DEF t
    <2>5. ThreadEvents(c)'
      BY <2>2, <2>3 DEF ThreadEvents
    <2>6. \A d \in Consumers \ {c} : ThreadEvents(d)'
      BY <1>c, <2>2, <2>3, <2>4 DEF ThreadEvents
    <2>7. InvEvents'
      BY <2>1, <2>2, <2>5, <2>6 DEF EventInv, InvEvents
    <2> QED
      BY <2>1, <2>2, <2>7 DEF EventInv, EventsExclusive, PendingAnnounced
  <1>9. ASSUME NEW c \in Consumers, PublishCreatedThrows(c) PROVE EventInv'
    <2>1. /\ saga[c].step = "publish" /\ UNCHANGED <<eventVars, tasks, used>>
      BY <1>9 DEF PublishCreatedThrows
    <2>2. PICK st \in {"release", "fail"} :
            saga' = [saga EXCEPT ![c] = [@ EXCEPT !.status = "FAILED", !.step = st]]
      BY <1>9 DEF PublishCreatedThrows
    <2>3. /\ \A d \in Consumers \ {c} : saga'[d] = saga[d]
          /\ saga'[c].step = st /\ saga'[c].status = "FAILED" /\ saga'[c].task = saga[c].task
      BY <1>a, <2>2 DEF Saga
    <2>4. ThreadEvents(c)'
      BY <1>c, <2>1, <2>3 DEF ThreadEvents, eventVars
    <2> QED
      BY <1>1, <2>1, <2>3, <2>4
  <1>10. ASSUME NEW c \in Consumers, ReleaseBerth(c) \/ ReleaseBerthFails(c) PROVE EventInv'
    <2>1. saga[c].step = "release" /\ UNCHANGED <<eventVars, tasks, used>>
      BY <1>10 DEF ReleaseBerth, ReleaseBerthFails
    <2>2. /\ \A d \in Consumers \ {c} : saga'[d] = saga[d]
          /\ saga'[c].step = "fail" /\ saga'[c].status = saga[c].status
          /\ saga'[c].task = saga[c].task
      BY <1>a, <1>10 DEF ReleaseBerth, ReleaseBerthFails, Saga
    <2>3. ThreadEvents(c)'
      BY <1>c, <2>1, <2>2 DEF ThreadEvents, eventVars
    <2> QED
      BY <1>1, <2>1, <2>2, <2>3
  <1>11. ASSUME NEW c \in Consumers, PublishFailed(c) PROVE EventInv'
    <2> DEFINE t == saga[c].task
    <2>1. saga[c].step = "fail" /\ t \in used /\ t # None /\ t \notin created
      BY <1>11, <1>c, NoneAssumption DEF PublishFailed, DeliveryInv, InvTask, Holding, ThreadEvents,
                           TypeInv, InvHeld
    <2>2. /\ failed' \subseteq failed \cup {t} /\ UNCHANGED <<created, unconfirmed, used, tasks>>
      BY <1>11 DEF PublishFailed
    <2>3. /\ \A d \in Consumers \ {c} : saga'[d] = saga[d]
          /\ saga'[c].step = "commit" /\ saga'[c].task = t /\ saga'[c].status = "FAILED"
      BY <1>a, <1>c, <1>11 DEF PublishFailed, Saga, ThreadEvents
    <2>4. \A d \in Consumers \ {c} : saga[d].task # t
      BY <2>1 DEF DeliveryInv, InvTask
    <2> HIDE DEF t
    <2>5. ThreadEvents(c)'
      BY <2>1, <2>2, <2>3 DEF ThreadEvents
    <2>6. \A d \in Consumers \ {c} : ThreadEvents(d)'
      BY <1>c, <2>2, <2>3, <2>4 DEF ThreadEvents
    <2>7. InvEvents'
      BY <2>1, <2>2, <2>5, <2>6 DEF EventInv, InvEvents
    <2> QED
      BY <2>1, <2>2, <2>7 DEF EventInv, EventsExclusive, PendingAnnounced
  <1>12. ASSUME NEW c \in Consumers, saga[c].step = "commit", tasks' = WithTask(saga[c]),
                UNCHANGED <<eventVars, used>>,
                saga' = [saga EXCEPT ![c].step = "ack"] \/ saga' = [saga EXCEPT ![c] = Idle]
         PROVE  EventInv'
    <2>1. /\ \A d \in Consumers \ {c} : saga'[d] = saga[d]
          /\ saga'[c].step \in {"ack", "idle"}
      BY <1>a, <1>12 DEF Saga, Idle
    <2>2. InvEvents'
      BY <1>c, <1>12, <2>1 DEF EventInv, InvEvents, ThreadEvents, eventVars
    <2>3. /\ DOMAIN tasks' = DOMAIN tasks \cup {saga[c].task}
          /\ tasks'[saga[c].task] = NewTask(saga[c])
          /\ \A t \in DOMAIN tasks : tasks'[t] = tasks[t]
      BY <1>12, RowIsNew
    <2>4. NewTask(saga[c]).status = saga[c].status
      BY DEF NewTask
    <2>5. \/ saga[c].status = "FAILED" /\ saga[c].task \notin created
          \/ saga[c].status = "PENDING" /\ saga[c].task \in created \cup unconfirmed
      BY <1>c, <1>12 DEF ThreadEvents
    <2> QED
      BY <1>12, <2>2, <2>3, <2>4, <2>5 DEF EventInv, EventsExclusive, PendingAnnounced, eventVars
  <1>13. ASSUME NEW c \in Consumers, Commit(c) PROVE EventInv'
    BY <1>12, <1>13 DEF Commit
  <1>14. ASSUME NEW c \in Consumers, CommitFails(c) PROVE EventInv'
    <2>1. /\ saga[c].step = "commit" /\ saga' = [saga EXCEPT ![c] = Idle]
          /\ UNCHANGED <<eventVars, used>>
          /\ tasks' = tasks \/ tasks' = WithTask(saga[c])
      BY <1>14 DEF CommitFails, Reject
    <2> QED
      BY <1>2, <1>12, <2>1
  <1>15. CASE BrokerDown
    <2>1. /\ UNCHANGED <<eventVars, tasks, used>>
          /\ \A c \in Consumers : /\ saga'[c].step = saga[c].step
                                   /\ saga'[c].status = saga[c].status
                                   /\ saga'[c].task = saga[c].task
      BY <1>a, <1>15 DEF BrokerDown, Saga
    <2> QED
      BY <2>1, EventsKept DEF ThreadEvents, eventVars
  <1>16. CASE \/ BrokerBack
              \/ \E call \in late : LateCall(call)
              \/ \E v \in Vessels : OperatorWrite(v)
    BY <1>16, EventsKept DEF BrokerBack, LateCall, OperatorWrite, ThreadEvents, eventVars
  <1>17. ASSUME NEW t \in TaskIds, completeTask(t) PROVE EventInv'
    <2>1. /\ UNCHANGED <<eventVars, saga, used>> /\ DOMAIN tasks' = DOMAIN tasks
          /\ \A u \in DOMAIN tasks : \/ tasks'[u].status = tasks[u].status
                                      \/ tasks'[u].status = "COMPLETED"
      BY <1>17, <1>b DEF completeTask, TaskRow
    <2> QED
      BY <2>1 DEF EventInv, InvEvents, ThreadEvents, EventsExclusive, PendingAnnounced, eventVars
  <1> QED
    BY <1>3, <1>4, <1>5, <1>6, <1>7, <1>8, <1>9, <1>10, <1>11, <1>13, <1>14, <1>15, <1>16, <1>17
       DEF Next, HandlerStep

-----------------------------------------------------------------------------
(* Before anything is received there are no rows. *)
LEMMA DeliveryFresh == Fresh => DeliveryInv /\ OneTaskPerDelivery
  <1> SUFFICES ASSUME Fresh PROVE DeliveryInv /\ OneTaskPerDelivery
    OBVIOUS
  <1>1. \A c \in Consumers : saga[c].step = "idle" /\ saga[c].task = None
    BY DEF Fresh, Idle
  <1>2. DOMAIN tasks = {}
    BY DEF Fresh
  <1> QED
    BY <1>1, <1>2 DEF Fresh, DeliveryInv, InvDelivery, InvApart, InvTask, InvRows,
                      InvUncommitted, InvCommitted, Holding, OneTaskPerDelivery

(* The invariant holds initially. *)
LEMMA IInvInit == Init => IInv
  <1> SUFFICES ASSUME Init PROVE IInv
    OBVIOUS
  <1>1. \A c \in Consumers : saga[c].step = "idle"
    BY DEF Init, Fresh, Idle
  <1>2. DOMAIN tasks = {}
    BY DEF Init, Fresh
  <1>3. EventInv
    BY <1>1, <1>2 DEF Init, Fresh, EventInv, InvEvents, ThreadEvents, EventsExclusive, PendingAnnounced
  <1>4. AlertNotLost
    BY DEF Init, AlertNotLost
  <1> QED
    BY <1>3, <1>4, TypeInvInit, DeliveryFresh DEF Init, IInv

(* Every step keeps the invariant. *)
LEMMA IInvNext == IInv /\ [Next]_vars => IInv'
  BY TypeNext, DeliveryNext, LostNext, EventsNext DEF IInv

(* No alert is ever lost between the queue, the saga, the tasks table and  *)
(* dlq.errors.                                                             *)
THEOREM NoAlertLost == Spec => []AlertNotLost
  <1>1. IInv => AlertNotLost
    BY DEF IInv
  <1> QED
    BY <1>1, IInvInit, IInvNext, PTL DEF Spec

(* handleAlert leaves at most one task per delivery. *)
THEOREM OneTaskEach == Spec => []OneTaskPerDelivery
  <1>1. IInv => OneTaskPerDelivery
    BY DEF IInv
  <1> QED
    BY <1>1, IInvInit, IInvNext, PTL DEF Spec

(* A task's task.created and task.failed exclude each other and agree with *)
(* the row's status.                                                       *)
THEOREM EventsAgree == Spec => []EventsExclusive
  <1>1. IInv => EventsExclusive
    BY DEF IInv, EventInv
  <1> QED
    BY <1>1, IInvInit, IInvNext, PTL DEF Spec

(* No row is PENDING without a task.created that left the service. *)
THEOREM PendingIsAnnounced == Spec => []PendingAnnounced
  <1>1. IInv => PendingAnnounced
    BY DEF IInv, EventInv
  <1> QED
    BY <1>1, IInvInit, IInvNext, PTL DEF Spec

-----------------------------------------------------------------------------
(* Reservations and what faults make of them.                              *)

(* A thread has a reservation only after reserveBerth, and its row keeps   *)
(* it.                                                                     *)
InvReserved ==
  /\ \A c \in Consumers : saga[c].step \in {"idle", "start", "reserve"} => ~saga[c].reserved
  /\ \A c \in Consumers : saga[c].step = "release" => saga[c].reserved
  /\ \A c \in Consumers : (saga[c].step = "ack" /\ saga[c].reserved)
                            => tasks[saga[c].task].vessel = saga[c].vessel

(* Thread c goes to st, and what it knows of vessel and task stays. *)
MovesTo(c, st) ==
  /\ \A d \in Consumers \ {c} : saga'[d] = saga[d]
  /\ saga'[c].step = st
  /\ saga'[c].vessel = saga[c].vessel /\ saga'[c].berth = saga[c].berth
  /\ saga'[c].reserved = saga[c].reserved /\ saga'[c].task = saga[c].task

(* What the steps of a thread do to its saga. *)
LEMMA ThreadMoves ==
  ASSUME TypeInv, NEW c \in Consumers
  PROVE  /\ Receive(c) => /\ \A d \in Consumers \ {c} : saga'[d] = saga[d]
                          /\ saga'[c].step = "start" /\ ~saga'[c].reserved
         /\ ThrowEarly(c) \/ CommitFails(c) \/ Ack(c) \/ Crash(c) =>
               /\ \A d \in Consumers \ {c} : saga'[d] = saga[d]
               /\ saga'[c].step = "idle" /\ ~saga'[c].reserved
         /\ ReserveBerthFails(c) => MovesTo(c, "save") /\ saga'[c].status = saga[c].status
         /\ SaveTask(c) => /\ \A d \in Consumers \ {c} : saga'[d] = saga[d]
                           /\ saga'[c].step = "publish"
                           /\ saga'[c].vessel = saga[c].vessel /\ saga'[c].berth = saga[c].berth
                           /\ saga'[c].reserved = saga[c].reserved
                           /\ saga'[c].status = saga[c].status
         /\ PublishCreated(c) \/ PublishFailed(c) =>
               MovesTo(c, "commit") /\ saga'[c].status = saga[c].status
         /\ PublishCreatedThrows(c) =>
               /\ MovesTo(c, IF saga[c].reserved THEN "release" ELSE "fail")
               /\ saga'[c].status = "FAILED"
         /\ ReleaseBerth(c) \/ ReleaseBerthFails(c) =>
               MovesTo(c, "fail") /\ saga'[c].status = saga[c].status
         /\ Commit(c) => MovesTo(c, "ack") /\ saga'[c].status = saga[c].status
  <1>1. saga \in [Consumers -> Saga]
    BY DEF TypeInv, TypeOK
  <1>2. Receive(c) => /\ \A d \in Consumers \ {c} : saga'[d] = saga[d]
                      /\ saga'[c].step = "start" /\ ~saga'[c].reserved
    BY <1>1 DEF Receive, Idle
  <1>3. ThrowEarly(c) \/ CommitFails(c) \/ Ack(c) \/ Crash(c) => saga' = [saga EXCEPT ![c] = Idle]
    BY DEF ThrowEarly, CommitFails, Ack, Crash, Reject
  <1>4. ThrowEarly(c) \/ CommitFails(c) \/ Ack(c) \/ Crash(c) =>
               /\ \A d \in Consumers \ {c} : saga'[d] = saga[d]
               /\ saga'[c].step = "idle" /\ ~saga'[c].reserved
    BY <1>1, <1>3 DEF Idle
  <1>5. ASSUME NEW st, saga' = [saga EXCEPT ![c].step = st]
        PROVE  MovesTo(c, st) /\ saga'[c].status = saga[c].status
    BY <1>1, <1>5 DEF MovesTo, Saga
  <1>6. /\ ReserveBerthFails(c) => saga' = [saga EXCEPT ![c].step = "save"]
        /\ PublishCreated(c) \/ PublishFailed(c) => saga' = [saga EXCEPT ![c].step = "commit"]
        /\ ReleaseBerth(c) \/ ReleaseBerthFails(c) => saga' = [saga EXCEPT ![c].step = "fail"]
        /\ Commit(c) => saga' = [saga EXCEPT ![c].step = "ack"]
    BY DEF ReserveBerthFails, PublishCreated, PublishFailed, ReleaseBerth, ReleaseBerthFails, Commit
  <1>7. SaveTask(c) => /\ \A d \in Consumers \ {c} : saga'[d] = saga[d]
                       /\ saga'[c].step = "publish"
                       /\ saga'[c].vessel = saga[c].vessel /\ saga'[c].berth = saga[c].berth
                       /\ saga'[c].reserved = saga[c].reserved
                       /\ saga'[c].status = saga[c].status
    BY <1>1 DEF SaveTask, Saga
  <1>8. ASSUME NEW st, saga' = [saga EXCEPT ![c] = [@ EXCEPT !.status = "FAILED", !.step = st]]
        PROVE  MovesTo(c, st) /\ saga'[c].status = "FAILED"
    BY <1>1, <1>8 DEF MovesTo, Saga
  <1>9. PublishCreatedThrows(c) =>
          saga' = [saga EXCEPT ![c] = [@ EXCEPT !.status = "FAILED",
                                                !.step = IF saga[c].reserved THEN "release" ELSE "fail"]]
    BY DEF PublishCreatedThrows
  <1> QED
    BY <1>2, <1>4, <1>5, <1>6, <1>7, <1>8, <1>9

(* What the reservation does to its thread. *)
LEMMA ReserveMoves ==
  ASSUME TypeInv, NEW c \in Consumers, ReserveBerth(c)
  PROVE  /\ \A d \in Consumers \ {c} : saga'[d] = saga[d]
         /\ saga[c].step = "reserve" /\ saga'[c].step = "save" /\ saga'[c].reserved
         /\ saga'[c].vessel = saga[c].vessel /\ saga'[c].berth = saga[c].berth
         /\ saga'[c].status = saga[c].status /\ saga[c].vessel \in Vessels
  BY DEF TypeInv, TypeOK, InvHeld, ReserveBerth, Saga

(* What the choice of a vessel does to its thread. *)
LEMMA ListMoves ==
  ASSUME TypeInv, NEW c \in Consumers, ListVessels(c)
  PROVE  /\ saga[c].step = "start"
         /\ \A d \in Consumers \ {c} : saga'[d] = saga[d]
         /\ saga'[c].reserved = saga[c].reserved
         /\ saga'[c].status = saga[c].status
         /\ \/ saga'[c].step = "save" /\ saga'[c].vessel = saga[c].vessel
            \/ /\ saga'[c].step = "reserve" /\ saga'[c].vessel \in Candidates
               /\ saga'[c].berth = vessels[saga'[c].vessel].berth
               /\ BeingReserved(saga'[c].vessel) => saga'[c].vessel \in contended'
  <1>1. saga \in [Consumers -> Saga]
    BY DEF TypeInv, TypeOK
  <1>2. CASE saga' = [saga EXCEPT ![c].step = "save"]
    BY <1>1, <1>2 DEF Saga, ListVessels
  <1>3. ASSUME NEW v \in Candidates,
               saga' = [saga EXCEPT ![c] = [@ EXCEPT !.step = "reserve", !.vessel = v,
                                                     !.berth = vessels[v].berth]],
               BeingReserved(v) => v \in contended'
        PROVE  /\ saga[c].step = "start"
               /\ \A d \in Consumers \ {c} : saga'[d] = saga[d]
               /\ saga'[c].reserved = saga[c].reserved
               /\ saga'[c].status = saga[c].status
               /\ saga'[c].step = "reserve" /\ saga'[c].vessel \in Candidates
               /\ saga'[c].berth = vessels[saga'[c].vessel].berth
               /\ BeingReserved(saga'[c].vessel) => saga'[c].vessel \in contended'
    <2>1. PICK b : b = vessels[v].berth
      OBVIOUS
    <2>2. saga' = [saga EXCEPT ![c] = [@ EXCEPT !.step = "reserve", !.vessel = v, !.berth = b]]
      BY <1>3, <2>1
    <2>3. /\ \A d \in Consumers \ {c} : saga'[d] = saga[d]
          /\ saga'[c].reserved = saga[c].reserved /\ saga'[c].status = saga[c].status
          /\ saga'[c].step = "reserve" /\ saga'[c].vessel = v /\ saga'[c].berth = b
      BY <1>1, <2>2 DEF Saga
    <2>4. saga[c].step = "start"
      BY DEF ListVessels
    <2> QED
      BY <1>3, <2>1, <2>3, <2>4
  <1> QED
    BY <1>2, <1>3 DEF ListVessels

(* An outage only takes the deliveries from the threads. *)
LEMMA DownMoves ==
  ASSUME TypeInv, BrokerDown, NEW c \in Consumers
  PROVE  /\ saga'[c].step = saga[c].step /\ saga'[c].vessel = saga[c].vessel
         /\ saga'[c].berth = saga[c].berth /\ saga'[c].reserved = saga[c].reserved
         /\ saga'[c].status = saga[c].status /\ saga'[c].task = saga[c].task
  BY DEF TypeInv, TypeOK, BrokerDown, Saga

(* A row, once committed, keeps everything but its status, and that only   *)
(* completeTask changes.                                                   *)
LEMMA RowsKept ==
  ASSUME TypeInv, DeliveryInv, OneTaskPerDelivery, [Next]_vars
  PROVE  /\ DOMAIN tasks \subseteq DOMAIN tasks'
         /\ \A t \in DOMAIN tasks :
              /\ tasks'[t].vessel = tasks[t].vessel /\ tasks'[t].unit = tasks[t].unit
              /\ tasks'[t].status = tasks[t].status \/ tasks'[t].status = "COMPLETED"
  <1> USE DEF queueVars, eventVars, portVars, histVars
  <1> DEFINE Kept == /\ DOMAIN tasks \subseteq DOMAIN tasks'
                     /\ \A t \in DOMAIN tasks :
                          /\ tasks'[t].vessel = tasks[t].vessel /\ tasks'[t].unit = tasks[t].unit
                          /\ tasks'[t].status = tasks[t].status \/ tasks'[t].status = "COMPLETED"
  <1>1. ASSUME NEW c \in Consumers, Commit(c) \/ CommitFails(c) PROVE Kept
    <2>1. saga[c].step = "commit" /\ (tasks' = tasks \/ tasks' = WithTask(saga[c]))
      BY <1>1 DEF Commit, CommitFails
    <2>2. CASE tasks' = tasks
      BY <2>2
    <2>3. CASE tasks' = WithTask(saga[c])
      BY <2>1, <2>3, RowIsNew
    <2> QED
      BY <2>1, <2>2, <2>3
  <1>2. ASSUME NEW t \in TaskIds, completeTask(t) PROVE Kept
    <2>1. tasks \in [DOMAIN tasks -> TaskRow]
      BY DEF TypeInv, TypeOK
    <2> QED
      BY <1>2, <2>1 DEF completeTask, TaskRow
  <1>3. UNCHANGED tasks => Kept
    OBVIOUS
  <1> HIDE DEF Kept
  <1>4. ASSUME \/ UNCHANGED vars \/ BrokerDown \/ BrokerBack
               \/ \E call \in late : LateCall(call)
               \/ \E v \in Vessels : OperatorWrite(v)
        PROVE  Kept
    BY <1>4, <1>3 DEF vars, BrokerDown, BrokerBack, LateCall, OperatorWrite
  <1>5. ASSUME NEW c \in Consumers,
               \/ Receive(c) \/ ThrowEarly(c) \/ ListVessels(c)
               \/ ReserveBerth(c) \/ ReserveBerthFails(c) \/ SaveTask(c)
               \/ PublishCreated(c) \/ PublishCreatedThrows(c) \/ ReleaseBerth(c)
               \/ ReleaseBerthFails(c) \/ PublishFailed(c) \/ Ack(c) \/ Crash(c)
        PROVE  UNCHANGED tasks
    BY <1>5 DEF Receive, ThrowEarly, ListVessels, ReserveBerth, ReserveBerthFails, SaveTask,
                PublishCreated, PublishCreatedThrows, ReleaseBerth, ReleaseBerthFails,
                PublishFailed, Ack, Crash
  <1>6. Kept
    BY <1>1, <1>2, <1>3, <1>4, <1>5 DEF Next, HandlerStep
  <1> QED
    BY <1>6 DEF Kept

(* InvReserved is inductive. *)
LEMMA ReservedNext == IInv /\ InvReserved /\ [Next]_vars => InvReserved'
  <1> SUFFICES ASSUME IInv, InvReserved, [Next]_vars PROVE InvReserved'
    OBVIOUS
  <1> USE DEF queueVars, eventVars, portVars, histVars
  <1>a. TypeInv /\ DeliveryInv /\ OneTaskPerDelivery
    BY DEF IInv
  <1>b. /\ \A c \in Consumers : saga[c].step = "ack" => saga[c].task \in DOMAIN tasks
        /\ \A t \in DOMAIN tasks : tasks'[t].vessel = tasks[t].vessel
    BY <1>a, RowsKept DEF DeliveryInv, InvCommitted
  (* One thread moves, and where it went it has no new duty. *)
  <1>1. ASSUME NEW c \in Consumers, \A d \in Consumers \ {c} : saga'[d] = saga[d],
               saga'[c].step \in {"idle", "start", "reserve"} => ~saga'[c].reserved,
               saga'[c].step = "release" => saga'[c].reserved,
               saga'[c].step # "ack"
        PROVE  InvReserved'
    BY <1>1, <1>b DEF InvReserved
  <1>2. CASE UNCHANGED vars
    BY <1>2 DEF InvReserved, vars
  <1>3. ASSUME NEW c \in Consumers, Receive(c) PROVE InvReserved'
    BY <1>a, <1>1, <1>3, ThreadMoves
  <1>4. ASSUME NEW c \in Consumers, ThrowEarly(c) \/ CommitFails(c) \/ Ack(c) \/ Crash(c)
        PROVE  InvReserved'
    BY <1>a, <1>1, <1>4, ThreadMoves
  <1>5. ASSUME NEW c \in Consumers, ListVessels(c) PROVE InvReserved'
    <2>1. ~saga'[c].reserved
      BY <1>a, <1>5, ListMoves DEF InvReserved
    <2> QED
      BY <1>a, <1>1, <1>5, <2>1, ListMoves
  <1>6. ASSUME NEW c \in Consumers, ReserveBerth(c) PROVE InvReserved'
    BY <1>a, <1>1, <1>6, ReserveMoves
  <1>7. ASSUME NEW c \in Consumers,
               \/ ReserveBerthFails(c) \/ SaveTask(c) \/ PublishCreated(c) \/ PublishCreatedThrows(c)
               \/ ReleaseBerth(c) \/ ReleaseBerthFails(c) \/ PublishFailed(c)
        PROVE  InvReserved'
    <2>1. /\ \A d \in Consumers \ {c} : saga'[d] = saga[d]
          /\ saga'[c].step \in {"save", "publish", "release", "fail", "commit"}
          /\ saga'[c].step = "release" => saga'[c].reserved
      BY <1>a, <1>7, ThreadMoves DEF MovesTo
    <2> QED
      BY <1>1, <2>1
  <1>8. ASSUME NEW c \in Consumers, Commit(c) PROVE InvReserved'
    <2>1. saga[c].step = "commit" /\ tasks' = WithTask(saga[c])
      BY <1>8 DEF Commit
    <2>2. /\ \A d \in Consumers \ {c} : saga'[d] = saga[d]
          /\ saga'[c].step = "ack" /\ saga'[c].vessel = saga[c].vessel
          /\ saga'[c].reserved = saga[c].reserved /\ saga'[c].task = saga[c].task
      BY <1>a, <1>8, ThreadMoves DEF MovesTo
    <2>3. tasks'[saga[c].task] = NewTask(saga[c])
      BY <1>a, <2>1, RowIsNew
    <2>4. saga[c].reserved => tasks'[saga[c].task].vessel = saga[c].vessel
      BY <2>3 DEF NewTask
    <2> QED
      BY <1>b, <2>1, <2>2, <2>4 DEF InvReserved
  <1>9. CASE BrokerDown
    BY <1>a, <1>b, <1>9, DownMoves DEF InvReserved
  <1>10. CASE \/ BrokerBack
              \/ \E v \in Vessels : OperatorWrite(v)
              \/ \E t \in TaskIds : completeTask(t)
    <2>1. UNCHANGED saga
      BY <1>10 DEF BrokerBack, OperatorWrite, completeTask
    <2> QED
      BY <1>b, <2>1 DEF InvReserved
  <1>11. ASSUME NEW call \in late, LateCall(call) PROVE InvReserved'
    BY <1>b, <1>11 DEF InvReserved, LateCall
  <1> QED
    BY <1>2, <1>3, <1>4, <1>5, <1>6, <1>7, <1>8, <1>9, <1>10, <1>11 DEF Next, HandlerStep

(* A task or a saga knows of the reservation of v. *)
Owned(v) ==
  \/ \E t \in DOMAIN tasks : tasks[t].vessel = v
  \/ \E c \in Consumers : saga[c].vessel = v /\ saga[c].reserved

(* A reservation of v that nobody waits for may still be executed. *)
OverdueReserve(v) == \E call \in late : call.op = "reserve" /\ call.vessel = v

(* v is left BERTHED without an owner, or may be by a call still under way. *)
Adrift(v) ==
  /\ v \notin touched
  /\ (vessels[v].status = "BERTHED" /\ ~Owned(v)) \/ OverdueReserve(v)

(* Thread c is the one that moves. *)
Moves(c) ==
  /\ saga'[c].step # saga[c].step
  /\ \A d \in Consumers \ {c} : saga'[d] = saga[d]

(* The bound on faults is used up one at a time. *)
LEMMA FaultsGrow ==
  ASSUME TypeInv, [Next]_vars
  PROVE  faults \in Nat /\ (faults' = faults \/ faults' = faults + 1)
  <1>1. faults \in Nat
    BY BoundAssumption DEF TypeInv, TypeOK
  <1>2. ASSUME NEW c \in Consumers, Receive(c) \/ HandlerStep(c) \/ Crash(c)
        PROVE  faults' = faults \/ faults' = faults + 1
    BY <1>2 DEF Receive, HandlerStep, ThrowEarly, ListVessels, ReserveBerth, ReserveBerthFails,
                SaveTask, PublishCreated, PublishCreatedThrows, ReleaseBerth, ReleaseBerthFails,
                PublishFailed, Commit, CommitFails, Ack, Crash
  <1> QED
    BY <1>1, <1>2 DEF Next, BrokerDown, BrokerBack, LateCall, OperatorWrite, completeTask, vars

(* A vessel goes adrift only by a fault, and then it is the vessel of the  *)
(* thread that the fault hits.                                             *)
LEMMA AdriftNext ==
  ASSUME IInv, InvReserved, SectorsFit, [Next]_vars,
         NEW v \in Vessels, ~Adrift(v), Adrift(v)'
  PROVE  \E c \in Consumers : v = saga[c].vessel /\ Moves(c) /\ faults' = faults + 1
  <1> USE DEF queueVars, eventVars, portVars, histVars
  <1> DEFINE Costs == \E c \in Consumers : v = saga[c].vessel /\ Moves(c) /\ faults' = faults + 1
  <1>a. TypeInv /\ DeliveryInv /\ OneTaskPerDelivery
    BY DEF IInv
  <1>b. (\E t \in DOMAIN tasks : tasks[t].vessel = v) => Owned(v)'
    BY <1>a, RowsKept DEF Owned
  <1>c. vessels \in [Vessels -> VesselRow] /\ late \subseteq Call
    BY DEF IInv, TypeInv, TypeOK
  <1>d. v \notin touched
    <2>1. touched \subseteq touched'
      BY DEF Next, HandlerStep, Receive, ThrowEarly, ListVessels, ReserveBerth,
             ReserveBerthFails, SaveTask, PublishCreated, PublishCreatedThrows, ReleaseBerth,
             ReleaseBerthFails, PublishFailed, Commit, CommitFails, Ack, Crash, BrokerDown,
             BrokerBack, LateCall, OperatorWrite, completeTask, vars
    <2> QED
      BY <2>1 DEF Adrift
  <1>e. ~OverdueReserve(v) /\ (vessels[v].status = "BERTHED" => Owned(v))
    BY <1>d DEF Adrift
  <1>f. (vessels'[v].status = "BERTHED" /\ ~Owned(v)') \/ OverdueReserve(v)'
    BY DEF Adrift
  <1> HIDE DEF Costs
  (* A thread moves without giving up a reservation of v. *)
  <1>1. ASSUME NEW c \in Consumers, \A d \in Consumers \ {c} : saga'[d] = saga[d],
               saga[c].reserved /\ saga[c].vessel = v =>
                 (saga'[c].reserved /\ saga'[c].vessel = v) \/ Owned(v)',
               vessels'[v].status = "BERTHED" => vessels[v].status = "BERTHED",
               OverdueReserve(v)' => OverdueReserve(v)
        PROVE  FALSE
    BY <1>1, <1>b, <1>e, <1>f DEF Owned
  <1>2. ASSUME UNCHANGED vars PROVE FALSE
    BY <1>2, <1>e, <1>f DEF vars, Owned, OverdueReserve
  <1>3. ASSUME NEW c \in Consumers, Receive(c) \/ ThrowEarly(c) \/ ListVessels(c) PROVE FALSE
    <2>1. UNCHANGED <<vessels, late>> /\ ~saga[c].reserved
      BY <1>3 DEF Receive, ThrowEarly, ListVessels, InvReserved
    <2>2. \A d \in Consumers \ {c} : saga'[d] = saga[d]
      BY <1>3, <1>a, ThreadMoves, ListMoves
    <2> QED
      BY <1>1, <2>1, <2>2 DEF OverdueReserve
  <1>4. ASSUME NEW c \in Consumers, ReserveBerthFails(c) PROVE Costs
    <2>1. /\ UNCHANGED vessels /\ ~saga[c].reserved /\ saga[c].step = "reserve"
          /\ \/ UNCHANGED late
             \/ faults' = faults + 1 /\ late' = late \cup InFlight(saga[c])
      BY <1>4 DEF ReserveBerthFails, InvReserved
    <2>2. (\A d \in Consumers \ {c} : saga'[d] = saga[d]) /\ saga'[c].step = "save"
      BY <1>4, <1>a, ThreadMoves DEF MovesTo
    <2>3. OverdueReserve(v)'
      BY <1>1, <2>1, <2>2
    <2>4. faults' = faults + 1 /\ v = saga[c].vessel
      BY <1>e, <2>1, <2>3 DEF OverdueReserve, InFlight
    <2> QED
      BY <2>1, <2>2, <2>4 DEF Costs, Moves
  <1>5. ASSUME NEW c \in Consumers, ReserveBerth(c) PROVE FALSE
    <2>1. UNCHANGED late /\ (v # saga[c].vessel => vessels'[v] = vessels[v])
      BY <1>5, <1>c DEF ReserveBerth
    <2>2. ~saga[c].reserved
      BY <1>5 DEF ReserveBerth, InvReserved
    <2>3. CASE saga[c].vessel = v
      <3>1. Owned(v)'
        BY <1>5, <1>a, <2>3, ReserveMoves DEF Owned
      <3> QED
        BY <1>e, <1>f, <2>1, <3>1 DEF OverdueReserve
    <2>4. CASE saga[c].vessel # v
      BY <1>5, <1>a, <1>1, <2>1, <2>2, <2>4, ReserveMoves DEF OverdueReserve
    <2> QED
      BY <2>3, <2>4
  <1>6. ASSUME NEW c \in Consumers,
               \/ SaveTask(c) \/ PublishCreated(c) \/ PublishCreatedThrows(c)
               \/ PublishFailed(c) \/ Commit(c) \/ ReleaseBerthFails(c)
        PROVE  FALSE
    <2>1. UNCHANGED vessels
      BY <1>6 DEF SaveTask, PublishCreated, PublishCreatedThrows, PublishFailed, Commit,
                  ReleaseBerthFails
    <2>2. /\ \A d \in Consumers \ {c} : saga'[d] = saga[d]
          /\ saga'[c].reserved = saga[c].reserved /\ saga'[c].vessel = saga[c].vessel
      BY <1>6, <1>a, ThreadMoves DEF MovesTo
    <2>3. OverdueReserve(v)' => OverdueReserve(v)
      <3>1. CASE UNCHANGED late
        BY <3>1 DEF OverdueReserve
      <3>2. CASE saga[c].step = "release" /\ late' = late \cup InFlight(saga[c])
        BY <3>2 DEF OverdueReserve, InFlight
      <3> QED
        BY <1>6, <3>1, <3>2 DEF SaveTask, PublishCreated, PublishCreatedThrows, PublishFailed,
                                Commit, ReleaseBerthFails
    <2> QED
      BY <1>1, <2>1, <2>2, <2>3
  <1>7. ASSUME NEW c \in Consumers, ReleaseBerth(c) PROVE FALSE
    <2>1. /\ UNCHANGED late
          /\ vessels' = [vessels EXCEPT ![saga[c].vessel] = Released(@)]
      BY <1>7 DEF ReleaseBerth
    <2>2. vessels'[v].status = "BERTHED" => vessels[v].status = "BERTHED"
      BY <1>c, <2>1 DEF Released, VesselRow
    <2>3. /\ \A d \in Consumers \ {c} : saga'[d] = saga[d]
          /\ saga'[c].reserved = saga[c].reserved /\ saga'[c].vessel = saga[c].vessel
      BY <1>7, <1>a, ThreadMoves DEF MovesTo
    <2> QED
      BY <1>1, <2>1, <2>2, <2>3 DEF OverdueReserve
  <1>8. ASSUME NEW c \in Consumers, CommitFails(c) \/ Crash(c) PROVE Costs
    <2>1. /\ UNCHANGED vessels /\ late' \subseteq late \cup InFlight(saga[c])
          /\ saga[c].step # "idle"
      BY <1>8 DEF CommitFails, Crash
    <2>2. faults' = faults + 1
      <3>1. saga[c].step = "commit" => saga[c].alert \in Alerts
        BY <1>a DEF TypeInv, InvHeld
      <3> QED
        BY <1>8, <3>1 DEF CommitFails, Crash, SectorsFit
    <2>3. (\A d \in Consumers \ {c} : saga'[d] = saga[d]) /\ saga'[c].step = "idle"
      BY <1>8, <1>a, ThreadMoves
    <2>4. v = saga[c].vessel
      <3>1. CASE OverdueReserve(v)'
        BY <1>e, <2>1, <3>1 DEF OverdueReserve, InFlight
      <3>2. CASE ~OverdueReserve(v)'
        BY <1>1, <2>1, <2>3, <3>2
      <3> QED
        BY <3>1, <3>2
    <2> QED
      BY <2>1, <2>2, <2>3, <2>4 DEF Costs, Moves
  <1>9. ASSUME NEW c \in Consumers, Ack(c) PROVE FALSE
    <2>1. UNCHANGED <<vessels, late>> /\ saga[c].step = "ack"
      BY <1>9 DEF Ack
    <2>2. saga[c].reserved /\ saga[c].vessel = v => Owned(v)'
      <3>1. saga[c].task \in DOMAIN tasks
        BY <1>a, <2>1 DEF DeliveryInv, InvCommitted
      <3> QED
        BY <1>b, <2>1, <3>1 DEF InvReserved
    <2>3. \A d \in Consumers \ {c} : saga'[d] = saga[d]
      BY <1>9, <1>a, ThreadMoves
    <2> QED
      BY <1>1, <2>1, <2>2, <2>3 DEF OverdueReserve
  <1>10. ASSUME BrokerDown PROVE FALSE
    <2>1. UNCHANGED <<vessels, late>>
      BY <1>10 DEF BrokerDown
    <2>2. Owned(v) => Owned(v)'
      BY <1>10, <1>a, <1>b, DownMoves DEF Owned
    <2> QED
      BY <1>e, <1>f, <2>1, <2>2 DEF OverdueReserve
  <1>11. ASSUME \/ BrokerBack \/ \E t \in TaskIds : completeTask(t) PROVE FALSE
    <2>1. UNCHANGED <<saga, vessels, late>>
      BY <1>11 DEF BrokerBack, completeTask
    <2> QED
      BY <1>b, <1>e, <1>f, <2>1 DEF Owned, OverdueReserve
  <1>12. ASSUME NEW call \in late, LateCall(call) PROVE FALSE
    <2>1. /\ UNCHANGED saga /\ late' \subseteq late
          /\ vessels' \in {vessels, [vessels EXCEPT ![call.vessel] =
                             IF call.op = "reserve" THEN Reserved(@, call.berth) ELSE Released(@)]}
      BY <1>12 DEF LateCall
    <2>2. call.vessel = v => call.op # "reserve"
      BY <1>e DEF OverdueReserve
    <2>3. vessels'[v].status = "BERTHED" => vessels[v].status = "BERTHED"
      BY <1>c, <2>1, <2>2 DEF Released, VesselRow
    <2> QED
      BY <1>b, <1>e, <1>f, <2>1, <2>3 DEF Owned, OverdueReserve
  <1>13. ASSUME NEW w \in Vessels, OperatorWrite(w) PROVE FALSE
    <2>1. UNCHANGED <<saga, late>> /\ w # v
      BY <1>13 DEF OperatorWrite, Adrift
    <2>2. vessels'[v] = vessels[v]
      BY <1>c, <1>13, <2>1 DEF OperatorWrite
    <2> QED
      BY <1>b, <1>e, <1>f, <2>1, <2>2 DEF Owned, OverdueReserve
  <1>14. Costs
    BY <1>2, <1>3, <1>4, <1>5, <1>6, <1>7, <1>8, <1>9, <1>10, <1>11, <1>12, <1>13
       DEF Next, HandlerStep
  <1> QED
    BY <1>14 DEF Costs

Lost == {v \in Vessels : Adrift(v)}

(* The strengthening of OneBerthPerFault that is inductive: the fault is   *)
(* paid for when the call is given up, not when it is executed.            *)
LostBounded == SectorsFit => IsFiniteSet(Lost) /\ Cardinality(Lost) <= faults

(* A set that only a fault adds to, and then only what the thread it hits  *)
(* was busy with, grows no faster than the faults.                         *)
LEMMA GrowsByFaults ==
  ASSUME TypeInv, [Next]_vars, NEW S, NEW T, NEW f, IsFiniteSet(S), Cardinality(S) <= faults,
         \A w \in T : w \notin S =>
           \E c \in Consumers : w = f[c] /\ Moves(c) /\ faults' = faults + 1
  PROVE  IsFiniteSet(T) /\ Cardinality(T) <= faults'
  <1>1. faults \in Nat /\ (faults' = faults \/ faults' = faults + 1)
    BY FaultsGrow
  <1>2. Cardinality(S) \in Nat
    BY FS_CardinalityType
  <1>3. CASE T \subseteq S
    <2>1. IsFiniteSet(T) /\ Cardinality(T) <= Cardinality(S) /\ Cardinality(T) \in Nat
      BY <1>3, FS_Subset, FS_CardinalityType
    <2> QED
      BY <1>1, <1>2, <2>1
  <1>4. CASE ~(T \subseteq S)
    <2>1. PICK w \in T : w \notin S
      BY <1>4
    <2>2. PICK c \in Consumers : w = f[c] /\ Moves(c) /\ faults' = faults + 1
      BY <2>1
    <2>3. \A d \in Consumers : Moves(d) => d = c
      BY <2>2 DEF Moves
    <2>4. T \subseteq S \cup {w}
      BY <2>2, <2>3
    <2>5. IsFiniteSet(S \cup {w}) /\ Cardinality(S \cup {w}) = Cardinality(S) + 1
      BY <2>1, FS_AddElement
    <2>6. /\ IsFiniteSet(T) /\ Cardinality(T) <= Cardinality(S \cup {w})
          /\ Cardinality(T) \in Nat
      BY <2>4, <2>5, FS_Subset, FS_CardinalityType
    <2> QED
      BY <1>1, <1>2, <2>2, <2>5, <2>6
  <1> QED
    BY <1>3, <1>4

(* Each step loses at most one vessel more, and then it is a fault. *)
LEMMA LostBoundedNext == IInv /\ InvReserved /\ LostBounded /\ [Next]_vars => LostBounded'
  <1> SUFFICES ASSUME IInv, InvReserved, LostBounded, [Next]_vars, SectorsFit
               PROVE  IsFiniteSet(Lost') /\ Cardinality(Lost') <= faults'
    BY DEF LostBounded, SectorsFit
  <1> DEFINE f == [c \in Consumers |-> saga[c].vessel]
  <1>1. IsFiniteSet(Lost) /\ Cardinality(Lost) <= faults /\ TypeInv
    BY DEF LostBounded, IInv
  <1>2. \A w \in Lost' : w \notin Lost =>
          \E c \in Consumers : w = f[c] /\ Moves(c) /\ faults' = faults + 1
    BY AdriftNext DEF Lost
  <1> HIDE DEF f
  <1> QED
    BY <1>1, <1>2, GrowsByFaults

(* However many listener threads, vessels, operators and redeliveries      *)
(* there are, the crashes, late calls and failed commits leave no more     *)
(* vessels BERTHED without an owner than there were of them.               *)
THEOREM BerthsLostByFaults == Spec => []OneBerthPerFault
  <1>1. Init => InvReserved /\ LostBounded
    <2> SUFFICES ASSUME Init PROVE InvReserved /\ LostBounded
      OBVIOUS
    <2>1. InvReserved
      BY DEF Init, Fresh, Idle, InvReserved
    <2>2. late = {} /\ faults = 0 /\ \A v \in Vessels : vessels[v].status # "BERTHED"
      BY DEF Init, Fresh
    <2>3. Lost = {}
      BY <2>2 DEF Lost, Adrift, OverdueReserve
    <2> QED
      BY <2>1, <2>2, <2>3, FS_EmptySet DEF LostBounded
  <1>2. IInv /\ LostBounded => OneBerthPerFault
    <2> SUFFICES ASSUME IInv, LostBounded, SectorsFit PROVE Cardinality(Orphans) <= faults
      BY DEF OneBerthPerFault, SectorsFit
    <2>1. IsFiniteSet(Lost) /\ Cardinality(Lost) <= faults /\ faults \in Nat
      BY BoundAssumption DEF LostBounded, IInv, TypeInv, TypeOK
    <2>2. Orphans \subseteq Lost
      BY DEF Orphans, Lost, Adrift, Owned
    <2>3. /\ IsFiniteSet(Orphans) /\ Cardinality(Orphans) <= Cardinality(Lost)
          /\ Cardinality(Orphans) \in Nat /\ Cardinality(Lost) \in Nat
      BY <2>1, <2>2, FS_Subset, FS_CardinalityType
    <2> QED
      BY <2>1, <2>3
  <1> QED
    BY <1>1, <1>2, IInvInit, IInvNext, ReservedNext, LostBoundedNext, PTL DEF Spec

(* A task becomes a phantom only by a fault of the thread that announced it. *)
LEMMA PhantomsNext ==
  ASSUME IInv, SectorsFit, [Next]_vars, NEW t \in Phantoms', t \notin Phantoms
  PROVE  \E c \in Consumers : t = saga[c].task /\ Moves(c) /\ faults' = faults + 1
  <1> USE DEF queueVars, eventVars, portVars, histVars
  <1> DEFINE Costs == \E c \in Consumers : t = saga[c].task /\ Moves(c) /\ faults' = faults + 1
  <1>a. TypeInv /\ DeliveryInv /\ OneTaskPerDelivery /\ TypeInv'
    BY TypeNext DEF IInv
  <1>b. /\ t \in created' /\ t \notin DOMAIN tasks /\ t # None
        /\ \A c \in Consumers : saga'[c].task # t
    <2>1. t \notin DOMAIN tasks
      BY <1>a, RowsKept DEF Phantoms
    <2>2. t \in TaskIds
      BY <1>a DEF Phantoms, TypeInv, TypeOK
    <2> QED
      BY <2>1, <2>2, NoneAssumption DEF Phantoms
  <1>c. t \in created => \E c \in Consumers : saga[c].task = t
    BY <1>b DEF Phantoms
  <1> HIDE DEF Costs
  <1>1. ASSUME NEW c \in Consumers,
               \/ Receive(c) \/ ThrowEarly(c) \/ ListVessels(c) \/ ReserveBerth(c) \/ SaveTask(c)
        PROVE  FALSE
    <2>1. saga[c].step \notin Holding /\ UNCHANGED created
      BY <1>1 DEF Receive, ThrowEarly, ListVessels, ReserveBerth, SaveTask, Holding
    <2>2. saga[c].task = None
      BY <1>a, <2>1 DEF DeliveryInv, InvTask
    <2>3. \A d \in Consumers \ {c} : saga'[d] = saga[d]
      BY <1>a, <1>1, ThreadMoves, ListMoves, ReserveMoves
    <2> QED
      BY <1>b, <1>c, <2>1, <2>2, <2>3
  <1>2. ASSUME NEW c \in Consumers,
               \/ ReserveBerthFails(c) \/ PublishCreated(c) \/ PublishCreatedThrows(c)
               \/ ReleaseBerth(c) \/ ReleaseBerthFails(c) \/ PublishFailed(c) \/ Commit(c)
        PROVE  FALSE
    <2>1. created' \subseteq created \cup {saga[c].task}
      BY <1>2 DEF ReserveBerthFails, PublishCreated, PublishCreatedThrows, ReleaseBerth,
                  ReleaseBerthFails, PublishFailed, Commit
    <2>2. saga'[c].task = saga[c].task /\ \A d \in Consumers \ {c} : saga'[d] = saga[d]
      BY <1>a, <1>2, ThreadMoves DEF MovesTo
    <2> QED
      BY <1>b, <1>c, <2>1, <2>2
  <1>3. ASSUME NEW c \in Consumers, Ack(c) PROVE FALSE
    <2>1. saga[c].step = "ack" /\ UNCHANGED created
      BY <1>3 DEF Ack
    <2>2. saga[c].task \in DOMAIN tasks
      BY <1>a, <2>1 DEF DeliveryInv, InvCommitted
    <2>3. \A d \in Consumers \ {c} : saga'[d] = saga[d]
      BY <1>a, <1>3, ThreadMoves
    <2> QED
      BY <1>b, <1>c, <2>1, <2>2, <2>3
  <1>4. ASSUME NEW c \in Consumers, CommitFails(c) \/ Crash(c) PROVE Costs
    <2>1. UNCHANGED created /\ saga[c].step # "idle" /\ faults' = faults + 1
      <3>1. saga[c].step = "commit" => saga[c].alert \in Alerts
        BY <1>a DEF TypeInv, InvHeld
      <3> QED
        BY <1>4, <3>1 DEF CommitFails, Crash, SectorsFit
    <2>2. saga'[c].step = "idle" /\ \A d \in Consumers \ {c} : saga'[d] = saga[d]
      BY <1>a, <1>4, ThreadMoves
    <2>3. t = saga[c].task
      BY <1>b, <1>c, <2>1, <2>2
    <2> QED
      BY <2>1, <2>2, <2>3 DEF Costs, Moves
  <1>5. ASSUME BrokerDown PROVE FALSE
    <2>1. UNCHANGED created
      BY <1>5 DEF BrokerDown
    <2> QED
      BY <1>a, <1>b, <1>c, <1>5, <2>1, DownMoves
  <1>6. ASSUME UNCHANGED <<saga, created>> PROVE FALSE
    BY <1>6, <1>b, <1>c
  <1>7. ASSUME \/ UNCHANGED vars \/ BrokerBack \/ \E u \in TaskIds : completeTask(u)
               \/ \E call \in late : LateCall(call)
               \/ \E v \in Vessels : OperatorWrite(v)
        PROVE  FALSE
    BY <1>6, <1>7 DEF vars, BrokerBack, completeTask, LateCall, OperatorWrite
  <1>8. Costs
    BY <1>1, <1>2, <1>3, <1>4, <1>5, <1>7 DEF Next, HandlerStep
  <1> QED
    BY <1>8 DEF Costs

(* The rows missing for announced tasks are no more than the faults. *)
PhantomsBounded == SectorsFit => IsFiniteSet(Phantoms) /\ Cardinality(Phantoms) <= faults

(* Each crash or failing commit leaves at most one announced task without  *)
(* a row, with any number of listener threads and redeliveries.            *)
THEOREM PhantomsByFaults == Spec => []OnePhantomPerFault
  <1>1. Init => PhantomsBounded
    BY FS_EmptySet DEF Init, Fresh, PhantomsBounded, Phantoms
  <1>2. IInv /\ PhantomsBounded /\ [Next]_vars => PhantomsBounded'
    <2> SUFFICES ASSUME IInv, PhantomsBounded, [Next]_vars, SectorsFit
                 PROVE  IsFiniteSet(Phantoms') /\ Cardinality(Phantoms') <= faults'
      BY DEF PhantomsBounded, SectorsFit
    <2> DEFINE f == [c \in Consumers |-> saga[c].task]
    <2>1. IsFiniteSet(Phantoms) /\ Cardinality(Phantoms) <= faults /\ TypeInv
      BY DEF PhantomsBounded, IInv
    <2>2. \A t \in Phantoms' : t \notin Phantoms =>
            \E c \in Consumers : t = f[c] /\ Moves(c) /\ faults' = faults + 1
      BY PhantomsNext
    <2> HIDE DEF f
    <2> QED
      BY <2>1, <2>2, GrowsByFaults
  <1>3. PhantomsBounded => OnePhantomPerFault
    BY DEF PhantomsBounded, OnePhantomPerFault
  <1> QED
    BY <1>1, <1>2, <1>3, IInvInit, IInvNext, PTL DEF Spec

GivenUp == {a \in dlq : validateAlert(AlertOf[a])}

(* An alert that can be processed is rejected only for a fault. *)
LEMMA GivenUpNext ==
  ASSUME IInv, SectorsFit, [Next]_vars, NEW a \in GivenUp', a \notin GivenUp
  PROVE  \E c \in Consumers : a = saga[c].alert /\ Moves(c) /\ faults' = faults + 1
  <1> USE DEF queueVars, eventVars, portVars, histVars
  <1>a. TypeInv
    BY DEF IInv
  <1>b. a \in dlq' /\ a \notin dlq /\ validateAlert(AlertOf[a])
    BY DEF GivenUp, validateAlert
  <1>1. PICK c \in Consumers : ThrowEarly(c) \/ CommitFails(c)
    BY <1>b DEF Next, HandlerStep, vars, Receive, ListVessels, ReserveBerth, ReserveBerthFails,
                SaveTask, PublishCreated, PublishCreatedThrows, ReleaseBerth, ReleaseBerthFails,
                PublishFailed, Commit, Ack, Crash, BrokerDown, BrokerBack, LateCall,
                OperatorWrite, completeTask
  <1>2. a = saga[c].alert /\ saga[c].step # "idle"
    BY <1>b, <1>1 DEF ThrowEarly, CommitFails, Reject
  <1>3. saga'[c].step = "idle" /\ \A d \in Consumers \ {c} : saga'[d] = saga[d]
    BY <1>a, <1>1, ThreadMoves
  <1>4. faults' = faults + 1
    <2>1. saga[c].alert \in Alerts
      BY <1>a, <1>2 DEF TypeInv, InvHeld
    <2> QED
      BY <1>b, <1>1, <1>2, <2>1 DEF ThrowEarly, CommitFails, SectorsFit
  <1> QED
    BY <1>2, <1>3, <1>4 DEF Moves

(* The dead letters among processable alerts are no more than the faults. *)
GivenUpBounded == SectorsFit => IsFiniteSet(GivenUp) /\ Cardinality(GivenUp) <= faults

(* However many alerts and listener threads there are, an alert that can   *)
(* be processed is dead-lettered only for a fault, one alert for each.     *)
THEOREM DeadLettersByFaults == Spec => []OneDeadLetterPerFault
  <1>1. Init => GivenUpBounded
    BY FS_EmptySet DEF Init, Fresh, GivenUpBounded, GivenUp
  <1>2. IInv /\ GivenUpBounded /\ [Next]_vars => GivenUpBounded'
    <2> SUFFICES ASSUME IInv, GivenUpBounded, [Next]_vars, SectorsFit
                 PROVE  IsFiniteSet(GivenUp') /\ Cardinality(GivenUp') <= faults'
      BY DEF GivenUpBounded, SectorsFit
    <2> DEFINE f == [c \in Consumers |-> saga[c].alert]
    <2>1. IsFiniteSet(GivenUp) /\ Cardinality(GivenUp) <= faults /\ TypeInv
      BY DEF GivenUpBounded, IInv
    <2>2. \A a \in GivenUp' : a \notin GivenUp =>
            \E c \in Consumers : a = f[c] /\ Moves(c) /\ faults' = faults + 1
      BY GivenUpNext
    <2> HIDE DEF f
    <2> QED
      BY <2>1, <2>2, GrowsByFaults
  <1>3. GivenUpBounded => OneDeadLetterPerFault
    BY DEF GivenUpBounded, OneDeadLetterPerFault, GivenUp
  <1> QED
    BY <1>1, <1>2, <1>3, IInvInit, IInvNext, PTL DEF Spec

-----------------------------------------------------------------------------
(* Reservations under contention.                                          *)

Berthed(b) == [status |-> "BERTHED", berth |-> b]

(* No operator has written to v and no compensation has tried to free it. *)
Undisturbed(v) == v \notin touched /\ v \notin compensated

(* Whoever has to do with v agrees on its berth: the sagas that chose it,  *)
(* the reservations given up, and the tasks.                               *)
Agreed(v) ==
  /\ \A c \in Consumers : saga[c].vessel = v =>
       /\ saga[c].berth = vessels[v].berth /\ saga[c].step # "release"
       /\ saga[c].reserved => vessels[v].status = "BERTHED"
  /\ \A call \in late : call.vessel = v => call.op = "reserve" /\ call.berth = vessels[v].berth
  /\ \A t \in DOMAIN tasks : tasks[t].vessel = v => vessels[v] = Berthed(tasks[t].unit.berth)

InvAgreed == \A v \in Vessels : Undisturbed(v) => Agreed(v)

(* Once touched or compensated, a vessel stays so. *)
LEMMA DisturbedStays == [Next]_vars => touched \subseteq touched' /\ compensated \subseteq compensated'
  BY DEF Next, HandlerStep, Receive, ThrowEarly, ListVessels, ReserveBerth,
         ReserveBerthFails, SaveTask, PublishCreated, PublishCreatedThrows, ReleaseBerth,
         ReleaseBerthFails, PublishFailed, Commit, CommitFails, Ack, Crash, BrokerDown,
         BrokerBack, LateCall, OperatorWrite, completeTask, vars, queueVars, eventVars,
         portVars, histVars

(* InvAgreed is inductive, given InvReserved. *)
LEMMA AgreedNext == IInv /\ InvReserved /\ InvAgreed /\ [Next]_vars => InvAgreed'
  <1> SUFFICES ASSUME IInv, InvReserved, InvAgreed, [Next]_vars, NEW v \in Vessels, Undisturbed(v)'
               PROVE  Agreed(v)'
    BY DEF InvAgreed
  <1> USE DEF queueVars, eventVars, portVars, histVars
  <1>a. TypeInv /\ DeliveryInv /\ OneTaskPerDelivery
    BY DEF IInv
  <1>b. /\ vessels \in [Vessels -> VesselRow] /\ saga \in [Consumers -> Saga]
        /\ v # None
    BY NoneAssumption DEF IInv, TypeInv, TypeOK
  <1>c. Agreed(v)
    BY DisturbedStays DEF InvAgreed, Undisturbed
  <1>d. \A t \in DOMAIN tasks : tasks'[t].vessel = tasks[t].vessel /\ tasks'[t].unit = tasks[t].unit
    BY <1>a, RowsKept
  (* What thread c must leave behind. *)
  <1> DEFINE Fits(c) == saga'[c].vessel = v =>
                          /\ saga'[c].berth = vessels[v].berth /\ saga'[c].step # "release"
                          /\ saga'[c].reserved => vessels[v].status = "BERTHED"
             NoNewCall == \A call \in late' : call.vessel = v =>
                            call.op = "reserve" /\ call.berth = vessels[v].berth
  <1>1. ASSUME NEW c \in Consumers, \A d \in Consumers \ {c} : saga'[d] = saga[d], Fits(c),
               NoNewCall, DOMAIN tasks' = DOMAIN tasks, vessels'[v] = vessels[v]
        PROVE  Agreed(v)'
    BY <1>1, <1>c, <1>d DEF Agreed
  <1>2. UNCHANGED late => NoNewCall
    BY <1>c DEF Agreed
  <1>3. ASSUME NEW c \in Consumers, late' \subseteq late \cup InFlight(saga[c]) PROVE NoNewCall
    BY <1>3, <1>c DEF Agreed, InFlight
  <1> HIDE DEF NoNewCall
  <1>4. ASSUME NEW c \in Consumers, Receive(c) \/ ThrowEarly(c) \/ Ack(c) \/ Crash(c)
        PROVE  Agreed(v)'
    <2>1. UNCHANGED <<vessels, tasks>> /\ late' \subseteq late \cup InFlight(saga[c])
      BY <1>4 DEF Receive, ThrowEarly, Ack, Crash
    <2>2. (\A d \in Consumers \ {c} : saga'[d] = saga[d]) /\ saga'[c].vessel = None
      <3>1. CASE Receive(c)
        BY <3>1, <1>b DEF Receive, Idle
      <3>2. CASE ThrowEarly(c) \/ Ack(c) \/ Crash(c)
        <4>1. saga' = [saga EXCEPT ![c] = Idle]
          BY <3>2 DEF ThrowEarly, Ack, Crash, Reject
        <4> QED
          BY <4>1, <1>b DEF Idle
      <3> QED
        BY <1>4, <3>1, <3>2
    <2> QED
      BY <1>1, <1>3, <1>b, <2>1, <2>2
  <1>5. ASSUME NEW c \in Consumers, ListVessels(c) PROVE Agreed(v)'
    <2>1. UNCHANGED <<vessels, tasks, late>> /\ saga[c].step = "start"
      BY <1>5 DEF ListVessels
    <2>2. CASE saga' = [saga EXCEPT ![c].step = "save"]
      <3>1. Fits(c) /\ \A d \in Consumers \ {c} : saga'[d] = saga[d]
        BY <1>b, <1>c, <2>2 DEF Agreed, Saga
      <3> QED
        BY <1>1, <1>2, <2>1, <3>1
    <2>3. ASSUME NEW w \in Candidates,
                 saga' = [saga EXCEPT ![c] = [@ EXCEPT !.step = "reserve", !.vessel = w,
                                                       !.berth = vessels[w].berth]]
          PROVE  Agreed(v)'
      <3>1. PICK b : b = vessels[w].berth
        OBVIOUS
      <3>2. saga' = [saga EXCEPT ![c] = [@ EXCEPT !.step = "reserve", !.vessel = w, !.berth = b]]
        BY <2>3, <3>1
      <3>3. /\ \A d \in Consumers \ {c} : saga'[d] = saga[d]
            /\ saga'[c].step = "reserve" /\ saga'[c].vessel = w /\ saga'[c].berth = b
            /\ saga'[c].reserved = saga[c].reserved
        BY <1>b, <3>2 DEF Saga
      <3>4. Fits(c)
        BY <2>1, <3>1, <3>3 DEF InvReserved
      <3> QED
        BY <1>1, <1>2, <2>1, <3>3, <3>4
    <2> QED
      BY <1>5, <2>2, <2>3 DEF ListVessels
  <1>6. ASSUME NEW c \in Consumers, ReserveBerth(c) PROVE Agreed(v)'
    <2>1. /\ UNCHANGED <<tasks, late>>
          /\ vessels' = [vessels EXCEPT ![saga[c].vessel] = Reserved(@, saga[c].berth)]
      BY <1>6 DEF ReserveBerth
    <2>2. CASE saga[c].vessel = v
      <3>1. saga[c].berth = vessels[v].berth
        BY <1>c, <2>2 DEF Agreed
      <3>2. vessels'[v].berth = vessels[v].berth /\ vessels'[v].status = "BERTHED"
        BY <1>b, <2>1, <2>2, <3>1 DEF Reserved, VesselRow
      <3>3. vessels[v].status = "BERTHED" => vessels'[v] = vessels[v]
        BY <1>b, <2>1, <2>2, <3>1 DEF Reserved, VesselRow
      <3>4. \A t \in DOMAIN tasks : tasks[t].vessel = v => vessels'[v] = Berthed(tasks[t].unit.berth)
        BY <1>c, <3>3 DEF Agreed, Berthed
      <3> QED
        BY <1>6, <1>a, <1>c, <2>1, <2>2, <3>2, <3>4, ReserveMoves DEF Agreed
    <2>3. CASE saga[c].vessel # v
      <3>1. vessels'[v] = vessels[v]
        BY <1>b, <2>1, <2>3
      <3> QED
        BY <1>6, <1>a, <1>1, <1>2, <2>1, <2>3, <3>1, ReserveMoves
    <2> QED
      BY <2>2, <2>3
  <1>7. ASSUME NEW c \in Consumers,
               \/ ReserveBerthFails(c) \/ SaveTask(c) \/ PublishCreated(c)
               \/ ReleaseBerthFails(c) \/ PublishFailed(c)
        PROVE  Agreed(v)'
    <2>1. UNCHANGED <<vessels, tasks>> /\ late' \subseteq late \cup InFlight(saga[c])
      BY <1>7 DEF ReserveBerthFails, SaveTask, PublishCreated, ReleaseBerthFails, PublishFailed
    <2>2. /\ \A d \in Consumers \ {c} : saga'[d] = saga[d]
          /\ saga'[c].step # "release"
          /\ saga'[c].vessel = saga[c].vessel /\ saga'[c].berth = saga[c].berth
          /\ saga'[c].reserved = saga[c].reserved
      BY <1>7, <1>a, ThreadMoves DEF MovesTo
    <2>3. Fits(c)
      BY <1>c, <2>2 DEF Agreed
    <2> QED
      BY <1>1, <1>3, <2>1, <2>2, <2>3
  <1>8. ASSUME NEW c \in Consumers, PublishCreatedThrows(c) PROVE Agreed(v)'
    <2>1. /\ UNCHANGED <<vessels, tasks, late>>
          /\ compensated' = compensated \cup ToRelease(saga[c])
      BY <1>8 DEF PublishCreatedThrows
    <2>2. saga[c].vessel = v => ~saga[c].reserved
      BY <2>1 DEF ToRelease, Undisturbed
    <2>3. /\ \A d \in Consumers \ {c} : saga'[d] = saga[d]
          /\ saga'[c].step = IF saga[c].reserved THEN "release" ELSE "fail"
          /\ saga'[c].vessel = saga[c].vessel /\ saga'[c].berth = saga[c].berth
          /\ saga'[c].reserved = saga[c].reserved
      BY <1>8, <1>a, ThreadMoves DEF MovesTo
    <2>4. Fits(c)
      BY <1>c, <2>2, <2>3 DEF Agreed
    <2> QED
      BY <1>1, <1>2, <2>1, <2>3, <2>4
  <1>9. ASSUME NEW c \in Consumers, ReleaseBerth(c) PROVE Agreed(v)'
    <2>1. /\ UNCHANGED <<tasks, late>> /\ saga[c].step = "release"
          /\ vessels' = [vessels EXCEPT ![saga[c].vessel] = Released(@)]
      BY <1>9 DEF ReleaseBerth
    <2>2. saga[c].vessel # v
      BY <1>c, <2>1 DEF Agreed
    <2>3. vessels'[v] = vessels[v]
      BY <1>b, <2>1, <2>2
    <2>4. (\A d \in Consumers \ {c} : saga'[d] = saga[d]) /\ saga'[c].vessel = saga[c].vessel
      BY <1>9, <1>a, ThreadMoves DEF MovesTo
    <2> QED
      BY <1>1, <1>2, <2>1, <2>2, <2>3, <2>4
  <1>10. ASSUME NEW c \in Consumers, Commit(c) \/ CommitFails(c) PROVE Agreed(v)'
    <2>1. /\ UNCHANGED <<vessels, late>> /\ saga[c].step = "commit"
          /\ tasks' = tasks \/ tasks' = WithTask(saga[c])
      BY <1>10 DEF Commit, CommitFails
    <2>2. (\A d \in Consumers \ {c} : saga'[d] = saga[d]) /\ Fits(c)
      <3>1. CASE Commit(c)
        BY <3>1, <1>a, <1>c, ThreadMoves DEF MovesTo, Agreed
      <3>2. CASE CommitFails(c)
        BY <3>2, <1>b DEF CommitFails, Reject, Idle
      <3> QED
        BY <1>10, <3>1, <3>2
    <2>3. CASE tasks' = tasks
      BY <1>1, <1>2, <2>1, <2>2, <2>3
    <2>4. CASE tasks' = WithTask(saga[c])
      <3>1. /\ DOMAIN tasks' = DOMAIN tasks \cup {saga[c].task}
            /\ tasks'[saga[c].task] = NewTask(saga[c])
            /\ \A t \in DOMAIN tasks : tasks'[t] = tasks[t]
        BY <1>a, <2>1, <2>4, RowIsNew
      <3>2. NewTask(saga[c]).vessel = v =>
              saga[c].vessel = v /\ saga[c].reserved /\ NewTask(saga[c]).unit.berth = saga[c].berth
        BY <1>b DEF NewTask, determineAssignedUnit
      <3>3. NewTask(saga[c]).vessel = v => vessels[v] = Berthed(NewTask(saga[c]).unit.berth)
        BY <1>b, <1>c, <3>2 DEF Agreed, Berthed, VesselRow
      <3> QED
        BY <1>c, <2>1, <2>2, <3>1, <3>3 DEF Agreed
    <2> QED
      BY <2>1, <2>3, <2>4
  <1>11. ASSUME BrokerDown PROVE Agreed(v)'
    <2>1. UNCHANGED <<vessels, late, tasks>>
      BY <1>11 DEF BrokerDown
    <2> QED
      BY <1>11, <1>a, <1>c, <2>1, DownMoves DEF Agreed
  <1>12. ASSUME UNCHANGED vars \/ BrokerBack \/ \E t \in TaskIds : completeTask(t) PROVE Agreed(v)'
    <2>1. UNCHANGED <<saga, vessels, late>> /\ DOMAIN tasks' = DOMAIN tasks
      BY <1>12 DEF vars, BrokerBack, completeTask
    <2> QED
      BY <1>c, <1>d, <2>1 DEF Agreed
  <1>13. ASSUME NEW call \in late, LateCall(call) PROVE Agreed(v)'
    <2>1. /\ UNCHANGED <<saga, tasks>> /\ late' \subseteq late
          /\ vessels' \in {vessels, [vessels EXCEPT ![call.vessel] =
                             IF call.op = "reserve" THEN Reserved(@, call.berth) ELSE Released(@)]}
      BY <1>13 DEF LateCall
    <2>2. call.vessel = v => call.op = "reserve" /\ call.berth = vessels[v].berth
      BY <1>c DEF Agreed
    <2>3. /\ vessels'[v].berth = vessels[v].berth
          /\ vessels[v].status = "BERTHED" => vessels'[v] = vessels[v]
      <3>1. CASE vessels'[v] = vessels[v]
        BY <3>1
      <3>2. CASE vessels'[v] # vessels[v]
        <4>1. call.vessel = v /\ vessels'[v] = Reserved(vessels[v], vessels[v].berth)
          BY <1>b, <2>1, <2>2, <3>2
        <4>2. PICK r \in VesselRow : r = vessels[v]
          BY <1>b
        <4>3. /\ Reserved(r, r.berth).berth = r.berth
              /\ r.status = "BERTHED" => Reserved(r, r.berth) = r
          BY DEF Reserved, VesselRow
        <4> QED
          BY <4>1, <4>2, <4>3
      <3> QED
        BY <3>1, <3>2
    <2>4. \A t \in DOMAIN tasks : tasks[t].vessel = v => vessels'[v] = Berthed(tasks[t].unit.berth)
      BY <1>c, <2>3 DEF Agreed, Berthed
    <2> QED
      BY <1>c, <2>1, <2>3, <2>4 DEF Agreed
  <1>14. ASSUME NEW w \in Vessels, OperatorWrite(w) PROVE Agreed(v)'
    <2>1. UNCHANGED <<saga, late, tasks>> /\ w # v
      BY <1>14 DEF OperatorWrite, Undisturbed
    <2>2. vessels'[v] = vessels[v]
      BY <1>b, <1>14, <2>1 DEF OperatorWrite
    <2> QED
      BY <1>c, <2>1, <2>2 DEF Agreed
  <1> QED
    BY <1>4, <1>5, <1>6, <1>7, <1>8, <1>9, <1>10, <1>11, <1>12, <1>13, <1>14 DEF Next, HandlerStep

-----------------------------------------------------------------------------
(* Reservations of vessels that no two sagas chose at the same time.       *)

PendingRows(v) == {t \in DOMAIN tasks : tasks[t].status = "PENDING" /\ tasks[t].vessel = v}

(* A vessel no saga can choose. *)
Unavailable(v) == vessels[v].status # "ARRIVING" \/ vessels[v].berth = None

(* No call that would release v is still to be executed. *)
NoLateRelease(v) == \A call \in late : call.vessel = v => call.op # "release"

(* The thread is about to reserve v, or has and is not through yet. *)
Owns(c, v) ==
  /\ saga[c].vessel = v
  /\ \/ saga[c].step = "reserve"
     \/ saga[c].reserved /\ saga[c].step \in {"save", "publish", "release", "fail", "commit"}

OwnerKnows(c, v) ==
  /\ PendingRows(v) = {}
  /\ saga[c].berth # None
  /\ vessels[v].berth \in {saga[c].berth, None}
  /\ saga[c].step = "reserve" => NoLateRelease(v)
  /\ (saga[c].step \in {"save", "publish", "commit"} /\ saga[c].status = "PENDING")
       => vessels[v] = Berthed(saga[c].berth) /\ NoLateRelease(v)
  /\ saga[c].status = "FAILED" => Unavailable(v)

(* What calls executed late can still do to v: a reservation repeats the   *)
(* one berth v was registered with, a release comes to a vessel that no    *)
(* pending task holds and no saga can choose.                              *)
LateCallsHarmless(v) ==
  \A call \in late : call.vessel = v =>
    /\ call.op = "release" => Unavailable(v) /\ PendingRows(v) = {}
    /\ call.op = "reserve" =>
         /\ call.berth # None
         /\ vessels[v].berth \in {call.berth, None}
         /\ \A c \in Consumers : Owns(c, v) => saga[c].berth = call.berth
         /\ \A t \in PendingRows(v) : tasks[t].unit.berth = call.berth
         /\ \A other \in late : (other.op = "reserve" /\ other.vessel = v)
                                  => other.berth = call.berth

VesselHeld(v) ==
  /\ vessels[v].status \in {"ARRIVING", "BERTHED"}
  /\ \A t \in PendingRows(v) : vessels[v] = Berthed(tasks[t].unit.berth)
  /\ \A c \in Consumers : Owns(c, v) => OwnerKnows(c, v)
  /\ \A c, d \in Consumers : Owns(c, v) /\ Owns(d, v) => c = d
  /\ LateCallsHarmless(v)

InvVesselHeld == \A v \in Vessels \ (touched \cup contended) : VesselHeld(v)

(* Every step keeps what is known of a vessel that no operator has written *)
(* to and that no two sagas chose at the same time.                        *)
LEMMA HeldNext == IInv /\ InvReserved /\ InvVesselHeld /\ [Next]_vars => InvVesselHeld'
  <1> SUFFICES ASSUME IInv, InvReserved, InvVesselHeld, [Next]_vars,
                      NEW v \in Vessels, v \notin touched', v \notin contended'
               PROVE  VesselHeld(v)'
    BY DEF InvVesselHeld
  <1> USE DEF queueVars, eventVars, portVars, histVars
  <1>a. TypeInv /\ DeliveryInv /\ OneTaskPerDelivery /\ EventInv
    BY DEF IInv
  <1>b. /\ vessels \in [Vessels -> VesselRow] /\ late \subseteq Call
        /\ saga \in [Consumers -> Saga]
    BY DEF IInv, TypeInv, TypeOK
  <1>c. v \notin touched /\ v \notin contended
    BY DEF Next, HandlerStep, vars, Receive, ThrowEarly, ListVessels, ReserveBerth, ReserveBerthFails,
           SaveTask, PublishCreated, PublishCreatedThrows, ReleaseBerth, ReleaseBerthFails,
           PublishFailed, Commit, CommitFails, Ack, Crash, BrokerDown, BrokerBack, LateCall,
           OperatorWrite, completeTask
  <1>d. VesselHeld(v)
    BY <1>c DEF InvVesselHeld
  <1>e. \A c \in Consumers : ThreadEvents(c)
    BY <1>a DEF EventInv, InvEvents
  (* Rows may be completed and calls may end. *)
  <1>0. ASSUME vessels'[v] = vessels[v], late' \subseteq late,
               \A t \in PendingRows(v)' : t \in PendingRows(v) /\ tasks'[t].unit = tasks[t].unit,
               \A d \in Consumers : Owns(d, v)' =>
                 /\ OwnerKnows(d, v)'
                 /\ \A call \in late : (call.op = "reserve" /\ call.vessel = v)
                                         => saga'[d].berth = call.berth,
               \A d, e \in Consumers : Owns(d, v)' /\ Owns(e, v)' => d = e
        PROVE  VesselHeld(v)'
    <2>1. PendingRows(v) = {} => PendingRows(v)' = {}
      BY <1>0
    <2>2. Unavailable(v) => Unavailable(v)'
      BY <1>0 DEF Unavailable
    <2>3. /\ vessels'[v].status \in {"ARRIVING", "BERTHED"}
          /\ \A t \in PendingRows(v)' : vessels'[v] = Berthed(tasks'[t].unit.berth)
      BY <1>0, <1>d DEF VesselHeld
    <2>4. LateCallsHarmless(v)'
      BY <1>0, <1>d, <2>1, <2>2 DEF VesselHeld, LateCallsHarmless
    <2> QED
      BY <1>0, <2>3, <2>4 DEF VesselHeld
  (* What a thread that stands still knows of v. *)
  <1>f. ASSUME NEW d \in Consumers, saga'[d] = saga[d], Owns(d, v)', vessels'[v] = vessels[v],
               \A call \in late' : call.vessel = v => call \in late,
               \A t \in PendingRows(v)' : t \in PendingRows(v)
        PROVE  Owns(d, v) /\ OwnerKnows(d, v)'
    <2>1. Owns(d, v)
      BY <1>f DEF Owns
    <2>2. OwnerKnows(d, v)
      BY <1>d, <2>1 DEF VesselHeld
    <2>3. /\ NoLateRelease(v) => NoLateRelease(v)'
          /\ PendingRows(v) = {} => PendingRows(v)' = {}
          /\ Unavailable(v) => Unavailable(v)'
      BY <1>f DEF NoLateRelease, Unavailable
    <2> QED
      BY <1>f, <2>1, <2>2, <2>3 DEF OwnerKnows
  (* Only thread c moves. *)
  <1>1. ASSUME vessels'[v] = vessels[v], late' \subseteq late,
               \A t \in PendingRows(v)' : t \in PendingRows(v) /\ tasks'[t].unit = tasks[t].unit,
               NEW c \in Consumers, \A d \in Consumers \ {c} : saga'[d] = saga[d],
               Owns(c, v)' =>
                 /\ OwnerKnows(c, v)'
                 /\ \A call \in late : (call.op = "reserve" /\ call.vessel = v)
                                         => saga'[c].berth = call.berth
                 /\ \A d \in Consumers \ {c} : ~Owns(d, v)
        PROVE  VesselHeld(v)'
    <2>1. \A d \in Consumers \ {c} : Owns(d, v)' => Owns(d, v) /\ OwnerKnows(d, v)'
      BY <1>1, <1>f
    <2>2. ASSUME NEW d \in Consumers, Owns(d, v)'
          PROVE  /\ OwnerKnows(d, v)'
                 /\ \A call \in late : (call.op = "reserve" /\ call.vessel = v)
                                         => saga'[d].berth = call.berth
      <3>1. CASE d = c
        BY <1>1, <2>2, <3>1
      <3>2. CASE d # c
        BY <1>1, <1>d, <2>1, <2>2, <3>2 DEF VesselHeld, LateCallsHarmless
      <3> QED
        BY <3>1, <3>2
    <2>3. ASSUME NEW d \in Consumers, NEW e \in Consumers, Owns(d, v)', Owns(e, v)' PROVE d = e
      <3>1. d # c /\ e # c => d = e
        BY <1>d, <2>1, <2>3 DEF VesselHeld
      <3> QED
        BY <1>1, <2>1, <2>3, <3>1
    <2> QED
      BY <1>0, <1>1, <2>2, <2>3
  (* The owner of v is the only one. *)
  <1>g. \A c, d \in Consumers : Owns(c, v) /\ Owns(d, v) => c = d
    BY <1>d DEF VesselHeld
  (* No row is added. *)
  <1>2. UNCHANGED tasks => \A t \in PendingRows(v)' : t \in PendingRows(v) /\ tasks'[t].unit = tasks[t].unit
    BY DEF PendingRows
  (* What the owner knows survives when it only changes its step. *)
  <1>3. CASE UNCHANGED vars
    BY <1>3, <1>d DEF vars, VesselHeld, LateCallsHarmless, Unavailable, PendingRows, Owns, OwnerKnows, NoLateRelease
  <1>4. ASSUME NEW c \in Consumers,
               \/ Receive(c) \/ ThrowEarly(c) \/ Ack(c)
               \/ CommitFails(c) /\ UNCHANGED tasks
        PROVE  VesselHeld(v)'
    <2>1. UNCHANGED <<vessels, late, tasks>>
      BY <1>4 DEF Receive, ThrowEarly, Ack, CommitFails
    <2>2. saga'[c].step \in {"start", "idle"} /\ \A d \in Consumers \ {c} : saga'[d] = saga[d]
      BY <1>a, <1>4, ThreadMoves
    <2>3. ~Owns(c, v)'
      BY <2>2 DEF Owns
    <2> QED
      BY <1>1, <1>2, <2>1, <2>2, <2>3
  <1>5. ASSUME NEW c \in Consumers, ListVessels(c) PROVE VesselHeld(v)'
    <2>1. UNCHANGED <<vessels, late, tasks>>
      BY <1>5 DEF ListVessels
    <2>2. ~saga'[c].reserved /\ \A d \in Consumers \ {c} : saga'[d] = saga[d]
      BY <1>a, <1>5, ListMoves DEF InvReserved
    <2>3. CASE saga'[c].step = "save" \/ saga'[c].vessel # v
      <3>1. ~Owns(c, v)'
        BY <1>a, <1>5, <2>2, <2>3, ListMoves DEF Owns
      <3> QED
        BY <1>1, <1>2, <2>1, <2>2, <3>1
    <2>4. CASE saga'[c].step = "reserve" /\ saga'[c].vessel = v
      <3>1. /\ saga'[c].berth = vessels[v].berth /\ vessels[v].status = "ARRIVING"
            /\ vessels[v].berth # None
        BY <1>a, <1>5, <2>4, ListMoves DEF Candidates
      <3>2. PendingRows(v) = {}
        <4>1. \A b : Berthed(b).status # "ARRIVING"
          BY DEF Berthed
        <4>2. \A t \in PendingRows(v) : vessels[v] = Berthed(tasks[t].unit.berth)
          BY <1>d DEF VesselHeld
        <4>3. \A t \in PendingRows(v) : FALSE
          BY <3>1, <4>1, <4>2
        <4> QED
          BY <4>3
      <3>3. NoLateRelease(v)
        BY <1>d, <3>1 DEF VesselHeld, LateCallsHarmless, NoLateRelease, Unavailable
      <3>4. \A call \in late : (call.op = "reserve" /\ call.vessel = v) => saga'[c].berth = call.berth
        BY <1>d, <3>1 DEF VesselHeld, LateCallsHarmless
      <3>5. PendingRows(v)' = {} /\ NoLateRelease(v)'
        BY <2>1, <3>2, <3>3 DEF PendingRows, NoLateRelease
      <3>6. OwnerKnows(c, v)'
        <4>1. saga'[c].status = "PENDING"
          BY <1>a, <1>5, <1>e, ListMoves DEF ThreadEvents
        <4> QED
          BY <2>1, <2>4, <3>1, <3>5, <4>1 DEF OwnerKnows
      <3>7. ASSUME NEW d \in Consumers PROVE ~Owns(d, v)
        <4>1. ~BeingReserved(v)
          BY <1>a, <1>5, <2>4, ListMoves
        <4>2. saga[d].status \in {"PENDING", "FAILED"}
          BY <1>b DEF Saga
        <4>3. ASSUME Owns(d, v) PROVE FALSE
          <5>1. OwnerKnows(d, v)
            BY <1>d, <4>3 DEF VesselHeld
          <5>2. saga[d].step # "reserve"
            BY <4>1, <4>3 DEF Owns, BeingReserved
          <5>3. saga[d].status = "PENDING" => saga[d].step \in {"save", "publish", "commit"}
            BY <1>e, <4>3, <5>2 DEF Owns, ThreadEvents
          <5> QED
            BY <3>1, <4>2, <5>1, <5>3 DEF OwnerKnows, Unavailable, Berthed
        <4> QED
          BY <4>3
      <3> QED
        BY <1>1, <1>2, <2>1, <2>2, <3>4, <3>6, <3>7
    <2> QED
      BY <1>a, <1>5, <2>3, <2>4, ListMoves
  <1>6. ASSUME NEW c \in Consumers, SaveTask(c) \/ PublishCreated(c) \/ PublishCreatedThrows(c) \/ PublishFailed(c)
        PROVE  VesselHeld(v)'
    <2>1. UNCHANGED <<vessels, late, tasks>>
      BY <1>6 DEF SaveTask, PublishCreated, PublishCreatedThrows, PublishFailed
    <2>2. /\ saga'[c].vessel = saga[c].vessel /\ saga'[c].berth = saga[c].berth
          /\ saga'[c].reserved = saga[c].reserved
          /\ \A d \in Consumers \ {c} : saga'[d] = saga[d]
      BY <1>a, <1>6, ThreadMoves DEF MovesTo
    <2>3. /\ saga[c].step \in {"save", "publish", "fail"}
          /\ \/ /\ saga[c].step \in {"save", "publish"} /\ saga[c].status = "PENDING"
                /\ saga'[c].step \in {"publish", "commit"}
             \/ saga'[c].step \in {"release", "fail", "commit"} /\ saga'[c].status = "FAILED"
          /\ saga'[c].status = "FAILED" =>
               \/ saga[c].step = "publish" /\ saga[c].status = "PENDING"
               \/ saga[c].status = "FAILED"
      <3>1. CASE SaveTask(c)
        BY <1>a, <1>e, <3>1, ThreadMoves DEF SaveTask, ThreadEvents
      <3>2. CASE PublishCreated(c)
        BY <1>a, <1>e, <3>2, ThreadMoves DEF PublishCreated, ThreadEvents, MovesTo
      <3>3. CASE PublishCreatedThrows(c)
        BY <1>a, <1>e, <3>3, ThreadMoves, ZenonT(60) DEF PublishCreatedThrows, ThreadEvents, MovesTo
      <3>4. CASE PublishFailed(c)
        BY <1>a, <1>e, <3>4, ThreadMoves DEF PublishFailed, ThreadEvents, MovesTo
      <3> QED
        BY <1>6, <3>1, <3>2, <3>3, <3>4
    <2>4. ASSUME Owns(c, v)' PROVE OwnerKnows(c, v)' /\ Owns(c, v)
      <3>1. Owns(c, v)
        BY <2>2, <2>3, <2>4 DEF Owns
      <3>2. OwnerKnows(c, v)
        BY <1>d, <3>1 DEF VesselHeld
      <3>3. /\ PendingRows(v)' = {}
            /\ NoLateRelease(v) => NoLateRelease(v)'
        BY <2>1, <3>2 DEF PendingRows, NoLateRelease, OwnerKnows
      <3>4. saga'[c].status = "FAILED" => Unavailable(v)'
        BY <2>1, <2>3, <3>2 DEF OwnerKnows, Unavailable, Berthed
      <3>5. (saga'[c].step \in {"save", "publish", "commit"} /\ saga'[c].status = "PENDING")
              => vessels'[v] = Berthed(saga'[c].berth) /\ NoLateRelease(v)'
        BY <2>1, <2>2, <2>3, <3>2, <3>3 DEF OwnerKnows
      <3>6. saga'[c].berth # None /\ vessels'[v].berth \in {saga'[c].berth, None} /\ saga'[c].step # "reserve"
        BY <2>1, <2>2, <2>3, <3>2 DEF OwnerKnows
      <3> QED
        BY <3>1, <3>3, <3>4, <3>5, <3>6 DEF OwnerKnows
    <2>5. ASSUME Owns(c, v)' PROVE
            \A call \in late : (call.op = "reserve" /\ call.vessel = v) => saga'[c].berth = call.berth
      BY <1>d, <2>2, <2>4, <2>5 DEF VesselHeld, LateCallsHarmless
    <2> QED
      BY <1>1, <1>2, <1>g, <2>1, <2>2, <2>4, <2>5
  <1>7. ASSUME NEW c \in Consumers, saga[c].step = "commit", tasks' = WithTask(saga[c]),
               UNCHANGED <<vessels, late>>, saga'[c].step \in {"ack", "idle"},
               \A d \in Consumers \ {c} : saga'[d] = saga[d]
        PROVE  VesselHeld(v)'
    <2> DEFINE s == saga[c]
               new == NewTask(saga[c])
    <2>1. \A t \in PendingRows(v)' :
            \/ t \in PendingRows(v) /\ tasks'[t].unit = tasks[t].unit
            \/ tasks'[t] = new
      <3>1. /\ DOMAIN tasks' = DOMAIN tasks \cup {s.task} /\ tasks'[s.task] = new
            /\ \A t \in DOMAIN tasks : tasks'[t] = tasks[t]
        BY <1>a, <1>7, RowIsNew
      <3> HIDE DEF s, new
      <3> QED
        BY <3>1 DEF PendingRows
    <2>2. ~Owns(c, v)' /\ \A d \in Consumers \ {c} : Owns(d, v)' => Owns(d, v)
      BY <1>7 DEF Owns
    <2>3. CASE new.status = "PENDING" /\ new.vessel = v
      <3>1. s.status = "PENDING" /\ s.reserved /\ s.vessel = v
        BY <2>3, NoneAssumption DEF NewTask
      <3>2. Owns(c, v)
        BY <1>7, <3>1 DEF Owns
      <3>3. OwnerKnows(c, v) /\ \A d \in Consumers : ~Owns(d, v)'
        BY <1>d, <1>g, <2>2, <3>2 DEF VesselHeld
      <3>4. /\ PendingRows(v) = {} /\ vessels[v] = Berthed(s.berth) /\ NoLateRelease(v)
        BY <1>7, <3>1, <3>3 DEF OwnerKnows
      <3>5. new.unit.berth = s.berth
        BY DEF NewTask, determineAssignedUnit
      <3>6. \A t \in PendingRows(v)' : tasks'[t].unit.berth = s.berth
        BY <2>1, <3>4, <3>5
      <3>7. \A call \in late : (call.op = "reserve" /\ call.vessel = v) => s.berth = call.berth
        BY <1>d, <3>2 DEF VesselHeld, LateCallsHarmless
      <3> HIDE DEF s, new
      <3>8. LateCallsHarmless(v)'
        BY <1>7, <1>d, <3>3, <3>4, <3>6, <3>7 DEF VesselHeld, LateCallsHarmless, NoLateRelease
      <3> QED
        BY <1>7, <1>d, <3>3, <3>4, <3>6, <3>8 DEF VesselHeld
    <2>4. CASE ~(new.status = "PENDING" /\ new.vessel = v)
      <3>1. \A t \in PendingRows(v)' : tasks'[t].status = "PENDING" /\ tasks'[t].vessel = v
        BY DEF PendingRows
      <3> HIDE DEF s, new
      <3>2. \A t \in PendingRows(v)' : t \in PendingRows(v) /\ tasks'[t].unit = tasks[t].unit
        BY <2>1, <2>4, <3>1
      <3> QED
        BY <1>1, <1>7, <2>2, <3>2
    <2> QED
      BY <2>3, <2>4
  <1>8. ASSUME NEW c \in Consumers, Commit(c) \/ CommitFails(c) PROVE VesselHeld(v)'
    <2>1. UNCHANGED <<vessels, late>> /\ saga[c].step = "commit"
      BY <1>8 DEF Commit, CommitFails
    <2>2. saga'[c].step \in {"ack", "idle"} /\ \A d \in Consumers \ {c} : saga'[d] = saga[d]
      BY <1>a, <1>8, ThreadMoves DEF MovesTo
    <2>3. Commit(c) => tasks' = WithTask(saga[c])
      BY DEF Commit
    <2>4. CommitFails(c) => tasks' = tasks \/ tasks' = WithTask(saga[c])
      BY DEF CommitFails
    <2> QED
      BY <1>4, <1>7, <1>8, <2>1, <2>2, <2>3, <2>4
  <1>9. ASSUME NEW c \in Consumers, ReserveBerth(c) PROVE VesselHeld(v)'
    <2>1. UNCHANGED <<tasks, late>> /\ vessels' = [vessels EXCEPT ![saga[c].vessel] = Reserved(@, saga[c].berth)]
      BY <1>9 DEF ReserveBerth
    <2>2. /\ saga[c].step = "reserve" /\ saga'[c].step = "save" /\ saga'[c].reserved
          /\ saga'[c].vessel = saga[c].vessel /\ saga'[c].berth = saga[c].berth
          /\ saga'[c].status = saga[c].status /\ \A d \in Consumers \ {c} : saga'[d] = saga[d]
      BY <1>a, <1>9, ReserveMoves
    <2>3. CASE saga[c].vessel # v
      <3>1. vessels'[v] = vessels[v]
        BY <1>b, <2>1, <2>3
      <3>2. ~Owns(c, v)'
        BY <2>2, <2>3 DEF Owns
      <3> QED
        BY <1>1, <1>2, <2>1, <2>2, <3>1, <3>2
    <2>4. CASE saga[c].vessel = v
      <3>1. Owns(c, v)
        BY <2>2, <2>4 DEF Owns
      <3>2. OwnerKnows(c, v)
        BY <1>d, <3>1 DEF VesselHeld
      <3>3. PendingRows(v)' = {} /\ NoLateRelease(v)'
        BY <2>1, <2>2, <3>2 DEF OwnerKnows, PendingRows, NoLateRelease
      <3>4. vessels'[v] = Berthed(saga[c].berth)
        BY <1>b, <2>1, <2>4 DEF Reserved, Berthed, VesselRow
      <3>5. vessels'[v].status = "BERTHED" /\ vessels'[v].berth = saga[c].berth
        BY <3>4 DEF Berthed
      <3>6. OwnerKnows(c, v)'
        BY <2>2, <3>2, <3>3, <3>4, <3>5 DEF OwnerKnows, Unavailable
      <3>7. \A call \in late : (call.op = "reserve" /\ call.vessel = v) => saga[c].berth = call.berth
        BY <1>d, <3>1 DEF VesselHeld, LateCallsHarmless
      <3>9. \A d \in Consumers : Owns(d, v)' => d = c
        BY <1>g, <2>2, <3>1 DEF Owns
      <3>8. LateCallsHarmless(v)'
        BY <1>d, <2>1, <2>2, <3>3, <3>5, <3>7, <3>9 DEF VesselHeld, LateCallsHarmless, NoLateRelease
      <3> QED
        BY <3>3, <3>5, <3>6, <3>8, <3>9 DEF VesselHeld
    <2> QED
      BY <2>3, <2>4
  <1>10. ASSUME NEW c \in Consumers, ReleaseBerth(c) PROVE VesselHeld(v)'
    <2>1. /\ UNCHANGED <<tasks, late>> /\ vessels' = [vessels EXCEPT ![saga[c].vessel] = Released(@)]
          /\ saga[c].step = "release" /\ saga[c].reserved
      BY <1>10 DEF ReleaseBerth, InvReserved
    <2>2. /\ saga'[c].step = "fail" /\ saga'[c].reserved
          /\ saga'[c].vessel = saga[c].vessel /\ saga'[c].berth = saga[c].berth
          /\ \A d \in Consumers \ {c} : saga'[d] = saga[d]
      BY <1>a, <1>10, <2>1, ThreadMoves DEF MovesTo
    <2>3. CASE saga[c].vessel # v
      <3>1. vessels'[v] = vessels[v]
        BY <1>b, <2>1, <2>3
      <3>2. ~Owns(c, v)'
        BY <2>2, <2>3 DEF Owns
      <3> QED
        BY <1>1, <1>2, <2>1, <2>2, <3>1, <3>2
    <2>4. CASE saga[c].vessel = v
      <3>1. Owns(c, v)
        BY <2>1, <2>4 DEF Owns
      <3>2. OwnerKnows(c, v)
        BY <1>d, <3>1 DEF VesselHeld
      <3>3. PendingRows(v)' = {}
        BY <2>1, <3>2 DEF OwnerKnows, PendingRows
      <3>4. vessels'[v].status = "ARRIVING" /\ vessels'[v].berth = None
        BY <1>b, <2>1, <2>4 DEF Released, VesselRow
      <3>5. OwnerKnows(c, v)'
        <4>1. saga'[c].status = "FAILED"
          BY <1>a, <1>10, <1>e, <2>1, ThreadMoves DEF ThreadEvents
        <4> QED
          BY <2>2, <3>2, <3>3, <3>4, <4>1 DEF OwnerKnows, Unavailable
      <3>7. \A d \in Consumers : Owns(d, v)' => d = c
        BY <1>g, <2>2, <3>1 DEF Owns
      <3>6. LateCallsHarmless(v)'
        BY <1>d, <2>1, <2>2, <3>1, <3>3, <3>4, <3>7 DEF VesselHeld, LateCallsHarmless, Unavailable
      <3> QED
        BY <3>3, <3>4, <3>5, <3>6, <3>7 DEF VesselHeld
    <2> QED
      BY <2>3, <2>4
  (* A call is given up while it may still be executed. *)
  <1>11. ASSUME NEW c \in Consumers, UNCHANGED <<vessels, tasks>>,
                late' = late \cup InFlight(saga[c]),
                saga[c].step = "release" => saga[c].reserved,
                \A d \in Consumers \ {c} : saga'[d] = saga[d],
                Owns(c, v)' => /\ Owns(c, v) /\ OwnerKnows(c, v)'
                               /\ saga'[c].berth = saga[c].berth /\ saga[c].step # "reserve"
         PROVE  VesselHeld(v)'
    <2>0. /\ PendingRows(v)' = PendingRows(v)
          /\ \A d \in Consumers : Owns(d, v)' => Owns(d, v) /\ saga'[d].berth = saga[d].berth
          /\ \A d, e \in Consumers : Owns(d, v)' /\ Owns(e, v)' => d = e
      BY <1>11, <1>g DEF PendingRows, Owns
    <2>1. CASE late' = late \/ saga[c].vessel # v
      <3>1. \A call \in late' : call.vessel = v => call \in late
        BY <1>11, <2>1 DEF InFlight
      <3>2. \A d \in Consumers : Owns(d, v)' => OwnerKnows(d, v)'
        BY <1>11, <1>f, <2>0, <3>1
      <3>3. LateCallsHarmless(v)'
        BY <1>11, <1>d, <2>0, <3>1 DEF VesselHeld, LateCallsHarmless, Unavailable
      <3> QED
        BY <1>11, <1>d, <2>0, <3>2, <3>3 DEF VesselHeld
    <2>2. CASE late' # late /\ saga[c].vessel = v
      <3>1. PICK call : late' = late \cup {call}
                        /\ call.vessel = v /\ call.op = saga[c].step
                        /\ (call.op = "reserve" => call.berth = saga[c].berth)
                        /\ saga[c].step \in {"reserve", "release"}
        BY <1>11, <2>2 DEF InFlight
      <3>2. Owns(c, v)
        BY <1>11, <2>2, <3>1 DEF Owns
      <3>3. OwnerKnows(c, v) /\ \A d \in Consumers : Owns(d, v)' => d = c
        BY <1>d, <1>g, <2>0, <3>2 DEF VesselHeld
      <3>4. PendingRows(v)' = {} /\ PendingRows(v) = {}
        BY <2>0, <3>3 DEF OwnerKnows
      <3>5. Unavailable(v) => Unavailable(v)'
        BY <1>11 DEF Unavailable
      <3>6. CASE saga[c].step = "release"
        <4>1. Unavailable(v)
          BY <1>e, <3>3, <3>6 DEF ThreadEvents, OwnerKnows
        <4>2. LateCallsHarmless(v)'
          BY <1>11, <1>d, <3>1, <3>3, <3>4, <3>5, <3>6, <4>1 DEF VesselHeld, LateCallsHarmless
        <4> QED
          BY <1>11, <1>d, <2>0, <3>3, <3>4, <4>2 DEF VesselHeld
      <3>7. CASE saga[c].step = "reserve"
        <4>1. \A d \in Consumers : ~Owns(d, v)'
          BY <1>11, <3>3, <3>7
        <4>2. \A other \in late' : (other.op = "reserve" /\ other.vessel = v)
                                     => other.berth = saga[c].berth
          BY <1>d, <3>1, <3>2, <3>7 DEF VesselHeld, LateCallsHarmless
        <4>3. saga[c].berth # None /\ vessels'[v].berth \in {saga[c].berth, None}
          BY <1>11, <3>3 DEF OwnerKnows
        <4>4. \A other \in late' : (other.op = "release" /\ other.vessel = v) => Unavailable(v)'
          BY <1>d, <3>1, <3>5, <3>7 DEF VesselHeld, LateCallsHarmless
        <4>5. LateCallsHarmless(v)'
          BY <3>4, <4>1, <4>2, <4>3, <4>4 DEF LateCallsHarmless
        <4> QED
          BY <1>11, <1>d, <3>4, <4>1, <4>5 DEF VesselHeld
      <3> QED
        BY <3>1, <3>6, <3>7
    <2> QED
      BY <2>1, <2>2
  <1>12. ASSUME NEW c \in Consumers, ReserveBerthFails(c) PROVE VesselHeld(v)'
    <2>1. /\ saga[c].step = "reserve" /\ UNCHANGED <<vessels, tasks>>
          /\ late' = late \/ late' = late \cup InFlight(saga[c])
      BY <1>12 DEF ReserveBerthFails
    <2>2. /\ saga'[c].step = "save" /\ ~saga'[c].reserved
          /\ \A d \in Consumers \ {c} : saga'[d] = saga[d]
      BY <1>a, <1>12, <2>1, ThreadMoves DEF MovesTo, InvReserved
    <2>3. ~Owns(c, v)'
      BY <2>2 DEF Owns
    <2>4. CASE late' = late
      BY <1>1, <1>2, <2>1, <2>2, <2>3, <2>4
    <2>5. CASE late' = late \cup InFlight(saga[c])
      BY <1>11, <2>1, <2>2, <2>3, <2>5
    <2> QED
      BY <2>1, <2>4, <2>5
  <1>13. ASSUME NEW c \in Consumers, ReleaseBerthFails(c) PROVE VesselHeld(v)'
    <2>1. /\ saga[c].step = "release" /\ UNCHANGED <<vessels, tasks>> /\ saga[c].reserved
          /\ late' = late \/ late' = late \cup InFlight(saga[c])
      BY <1>13 DEF ReleaseBerthFails, InvReserved
    <2>2. /\ saga'[c].step = "fail" /\ saga'[c].vessel = saga[c].vessel
          /\ saga'[c].berth = saga[c].berth /\ saga'[c].status = saga[c].status
          /\ \A d \in Consumers \ {c} : saga'[d] = saga[d]
      BY <1>a, <1>13, <2>1, ThreadMoves DEF MovesTo
    <2>3. ASSUME Owns(c, v)' PROVE Owns(c, v) /\ OwnerKnows(c, v)'
      <3>1. Owns(c, v)
        BY <2>1, <2>2, <2>3 DEF Owns
      <3>2. OwnerKnows(c, v)
        BY <1>d, <3>1 DEF VesselHeld
      <3> QED
        BY <2>1, <2>2, <3>1, <3>2 DEF OwnerKnows, PendingRows, Unavailable
    <2>4. Owns(c, v)' => \A call \in late : (call.op = "reserve" /\ call.vessel = v)
                                             => saga'[c].berth = call.berth
      BY <1>d, <2>2, <2>3 DEF VesselHeld, LateCallsHarmless
    <2>5. CASE late' = late
      BY <1>1, <1>2, <1>g, <2>1, <2>2, <2>3, <2>4, <2>5
    <2>6. CASE late' = late \cup InFlight(saga[c])
      BY <1>11, <2>1, <2>2, <2>3, <2>6
    <2> QED
      BY <2>1, <2>5, <2>6
  <1>14. ASSUME NEW c \in Consumers, Crash(c) PROVE VesselHeld(v)'
    <2>1. UNCHANGED <<vessels, tasks>> /\ late' = late \cup InFlight(saga[c])
      BY <1>14 DEF Crash
    <2>2. ~Owns(c, v)' /\ \A d \in Consumers \ {c} : saga'[d] = saga[d]
      BY <1>a, <1>14, ThreadMoves DEF Owns
    <2>3. saga[c].step = "release" => saga[c].reserved
      BY DEF InvReserved
    <2> QED
      BY <1>11, <2>1, <2>2, <2>3
  <1>15. ASSUME BrokerDown PROVE VesselHeld(v)'
    <2>1. UNCHANGED <<vessels, late, tasks>>
      BY <1>15 DEF BrokerDown
    <2>2. \A d \in Consumers :
            /\ saga'[d].step = saga[d].step /\ saga'[d].vessel = saga[d].vessel
            /\ saga'[d].berth = saga[d].berth /\ saga'[d].reserved = saga[d].reserved
            /\ saga'[d].status = saga[d].status
      BY <1>a, <1>15, DownMoves
    <2>3. \A d \in Consumers : Owns(d, v)' => Owns(d, v)
      BY <2>2 DEF Owns
    <2>4. \A d \in Consumers : OwnerKnows(d, v) => OwnerKnows(d, v)'
      BY <2>1, <2>2 DEF OwnerKnows, PendingRows, NoLateRelease, Unavailable
    <2> QED
      BY <1>0, <1>2, <1>d, <1>g, <2>1, <2>2, <2>3, <2>4 DEF VesselHeld, LateCallsHarmless
  (* The threads stand still. *)
  <1>16. ASSUME UNCHANGED saga, vessels'[v] = vessels[v], late' \subseteq late,
                \A t \in PendingRows(v)' : t \in PendingRows(v) /\ tasks'[t].unit = tasks[t].unit
         PROVE  VesselHeld(v)'
    <2>1. \A d \in Consumers : Owns(d, v)' => Owns(d, v) /\ OwnerKnows(d, v)'
      BY <1>16, <1>f
    <2> QED
      BY <1>0, <1>16, <1>d, <1>g, <2>1 DEF VesselHeld, LateCallsHarmless
  <1>17. ASSUME BrokerBack \/ \E w \in Vessels : OperatorWrite(w) PROVE VesselHeld(v)'
    <2>1. UNCHANGED <<saga, tasks, late>>
      BY <1>17 DEF BrokerBack, OperatorWrite
    <2>2. ASSUME NEW w \in Vessels, OperatorWrite(w) PROVE vessels'[v] = vessels[v]
      <3>1. w # v
        BY <2>2 DEF OperatorWrite
      <3> QED
        BY <1>b, <2>2, <3>1 DEF OperatorWrite
    <2>3. vessels'[v] = vessels[v]
      BY <1>17, <2>2 DEF BrokerBack
    <2> QED
      BY <1>2, <1>16, <2>1, <2>3
  <1>18. ASSUME NEW t \in TaskIds, completeTask(t) PROVE VesselHeld(v)'
    <2>1. UNCHANGED <<saga, vessels, late>> /\ DOMAIN tasks' = DOMAIN tasks
      BY <1>18 DEF completeTask
    <2>2. \A u \in PendingRows(v)' : u \in PendingRows(v) /\ tasks'[u].unit = tasks[u].unit
      BY <1>a, <2>1, RowsKept DEF PendingRows
    <2> QED
      BY <1>16, <2>1, <2>2
  <1>19. ASSUME NEW call \in late, LateCall(call) PROVE VesselHeld(v)'
    <2>1. UNCHANGED <<saga, tasks>> /\ late' = late \ {call} /\ call \in Call
      BY <1>b, <1>19 DEF LateCall
    <2>2. CASE vessels'[v] = vessels[v]
      BY <1>2, <1>16, <2>1, <2>2
    <2>3. CASE vessels'[v] # vessels[v]
      <3>1. /\ call.vessel = v
            /\ vessels'[v] = IF call.op = "reserve" THEN Reserved(vessels[v], call.berth)
                                                    ELSE Released(vessels[v])
        BY <1>b, <1>19, <2>3 DEF LateCall
      <3>2. PendingRows(v)' = PendingRows(v) /\ vessels[v] \in VesselRow
        BY <1>b, <2>1 DEF PendingRows
      <3>3. \A d \in Consumers : Owns(d, v)' => Owns(d, v) /\ OwnerKnows(d, v)
        BY <2>1, <1>d DEF Owns, VesselHeld
      <3>4. NoLateRelease(v) => NoLateRelease(v)'
        BY <2>1 DEF NoLateRelease
      <3>5. CASE call.op = "reserve"
        <4>1. /\ vessels'[v] = Berthed(call.berth)
              /\ vessels'[v].status = "BERTHED" /\ vessels'[v].berth = call.berth
          BY <3>1, <3>2, <3>5 DEF Reserved, Berthed, VesselRow
        <4>2. /\ \A d \in Consumers : Owns(d, v) => saga[d].berth = call.berth
              /\ \A t \in PendingRows(v) : tasks[t].unit.berth = call.berth
              /\ \A other \in late : (other.op = "reserve" /\ other.vessel = v)
                                       => other.berth = call.berth
              /\ call.berth # None
          BY <1>d, <3>1, <3>5 DEF VesselHeld, LateCallsHarmless
        <4>3. Unavailable(v)'
          BY <4>1 DEF Unavailable
        <4>4. \A d \in Consumers : Owns(d, v)' => OwnerKnows(d, v)'
          BY <2>1, <3>2, <3>3, <3>4, <4>1, <4>2, <4>3 DEF OwnerKnows
        <4>5. LateCallsHarmless(v)'
          BY <1>d, <2>1, <3>2, <3>3, <4>1, <4>2, <4>3 DEF VesselHeld, LateCallsHarmless
        <4> QED
          BY <1>g, <2>1, <3>2, <3>3, <4>1, <4>2, <4>4, <4>5 DEF VesselHeld
      <3>6. CASE call.op # "reserve"
        <4>1. call.op = "release" /\ ~NoLateRelease(v)
          BY <2>1, <3>1, <3>6 DEF Call, NoLateRelease
        <4>2. vessels'[v].status = "ARRIVING" /\ vessels'[v].berth = None
          BY <3>1, <3>2, <3>6 DEF Released, VesselRow
        <4>3. PendingRows(v) = {}
          BY <1>d, <3>1, <4>1 DEF VesselHeld, LateCallsHarmless
        <4>4. Unavailable(v)'
          BY <4>2 DEF Unavailable
        <4>5. \A d \in Consumers : Owns(d, v)' => OwnerKnows(d, v)'
          BY <2>1, <3>2, <3>3, <4>1, <4>2, <4>3, <4>4 DEF OwnerKnows
        <4>6. LateCallsHarmless(v)'
          BY <1>d, <2>1, <3>2, <3>3, <4>2, <4>3, <4>4 DEF VesselHeld, LateCallsHarmless
        <4> QED
          BY <1>g, <3>2, <3>3, <4>2, <4>3, <4>5, <4>6 DEF VesselHeld
      <3> QED
        BY <3>5, <3>6
    <2> QED
      BY <2>2, <2>3
  <1> QED
    BY <1>3, <1>4, <1>5, <1>6, <1>8, <1>9, <1>10, <1>12, <1>13, <1>14, <1>15, <1>17, <1>18, <1>19
       DEF Next, HandlerStep

(* A pending task keeps the berth it reserved, through outages, crashes,   *)
(* failed calls and calls executed late, until an operator writes to the   *)
(* vessel or a compensation frees a vessel two sagas had chosen at once.   *)
(* InvVesselHeld covers the vessels chosen by one saga at a time,          *)
(* InvAgreed those no compensation has touched.                            *)
THEOREM ReservationIsHeld == Spec => []ReservationHeld
  <1>1. Init => InvReserved /\ InvVesselHeld /\ InvAgreed
    <2>1. Init => InvReserved /\ InvAgreed
      BY NoneAssumption DEF Init, Fresh, Idle, InvReserved, InvAgreed, Agreed
    <2>2. ASSUME Init, NEW v \in Vessels PROVE VesselHeld(v)
      <3>1. /\ vessels[v].status = "ARRIVING" /\ late = {} /\ DOMAIN tasks = {}
            /\ \A c \in Consumers : saga[c].step = "idle"
        BY <2>2 DEF Init, Fresh, Idle
      <3> QED
        BY <3>1 DEF VesselHeld, PendingRows, Owns, LateCallsHarmless
    <2> QED
      BY <2>1, <2>2 DEF InvVesselHeld
  <1>2. IInv /\ InvVesselHeld /\ InvAgreed => ReservationHeld
    <2> SUFFICES ASSUME IInv, InvVesselHeld, InvAgreed, NEW t \in DOMAIN tasks,
                        tasks[t].status = "PENDING", tasks[t].vessel # None,
                        tasks[t].vessel \notin touched,
                        tasks[t].vessel \notin contended \cap compensated
                 PROVE  vessels[tasks[t].vessel] = Berthed(tasks[t].unit.berth)
      BY DEF ReservationHeld, Berthed
    <2>1. tasks[t].vessel \in Vessels
      BY DEF IInv, TypeInv, TypeOK, TaskRow
    <2>2. t \in PendingRows(tasks[t].vessel)
      BY DEF PendingRows
    <2>3. CASE tasks[t].vessel \notin contended
      BY <2>1, <2>2, <2>3 DEF InvVesselHeld, VesselHeld
    <2>4. CASE tasks[t].vessel \notin compensated
      BY <2>1, <2>4 DEF InvAgreed, Undisturbed, Agreed
    <2> QED
      BY <2>3, <2>4
  <1> QED
    BY <1>1, <1>2, IInvInit, IInvNext, ReservedNext, HeldNext, AgreedNext, PTL DEF Spec
=============================================================================

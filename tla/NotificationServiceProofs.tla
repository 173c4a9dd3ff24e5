----------------------- MODULE NotificationServiceProofs -----------------------
(***************************************************************************)
(* Safety of the Notification Service for any messages, queues, prefetch   *)
(* count, queue type and number of faults.                                 *)
(***************************************************************************)
EXTENDS NotificationService, TLAPS

(* A line is written before the acknowledgement is attempted. *)
LoggedFirst ==
  \A m \in Messages : (held[m] = "logged" \/ at[m] = "done") => logs[m] > 0

(* Without a fault a line is final. *)
OnceWithoutFault ==
  faults = 0 => \A m \in Messages :
       logs[m] > 0 => logs[m] = 1 /\ (held[m] = "logged" \/ at[m] = "done")

(* A task gone stale is charged to a fault. *)
StaleBounded == \A m \in Messages : stale[m] <= faults /\ staleDlq[m] <= faults

(* A delivery is open only on a live connection, for a message in a queue. *)
OpenDeliveries == \A m \in Messages : held[m] # "no" => conn /\ at[m] \in Queues

IInv == TypeOK /\ StaleBounded /\ LoggedFirst /\ OnceWithoutFault

-----------------------------------------------------------------------------
(* The saturating counters stay in their range and never return to zero. *)
LEMMA CapFacts == Cap \in Nat /\ 1 \in 0..Cap /\ \A n \in 0..Cap : Inc(n) \in 1..Cap /\ Inc(n) > 0 /\ Inc(0) = 1
  BY DEF Cap, Inc, MAX_DELIVERY_ATTEMPTS

(* What the broker's deliveries can change. *)
LEMMA DrainedFacts ==
  ASSUME NEW where, NEW out \in [Messages -> {"no", "delivered", "logged", "failed"}],
         NEW consuming
  PROVE  /\ Drained(where, out, consuming) \in [Messages -> {"no", "delivered", "logged", "failed"}]
         /\ \A m \in Messages :
              \/ Drained(where, out, consuming)[m] = out[m]
              \/ /\ out[m] = "no" /\ Drained(where, out, consuming)[m] = "delivered"
                 /\ where[m] \in consuming
  BY DEF Drained

(* start_consumers consumes only from queues of the service. *)
LEMMA ConsumedAreQueues ==
  /\ \A n : ConsumedAfter(n) \subseteq Queues
  /\ Consuming \subseteq Queues /\ (~conn => Consuming = {})
  BY DEF ConsumedAfter, Consuming, Queues

(* Counting deliveries keeps the counters in their range. *)
LEMMA CountedType == TypeOK => \A S : Counted(S) \in [Messages -> 0..Cap]
  BY CapFacts DEF TypeOK, Counted

(* The invariant holds before the service starts. *)
LEMMA IInvInit == Init => IInv
  <1> SUFFICES ASSUME Init PROVE IInv
    OBVIOUS
  <1>1. Len(QueueSeq) \in Nat
    BY QueueAssumption
  <1>2. TypeOK
    <2>1. 0 \in 0..(2 * Len(QueueSeq)) /\ 0 \in 0..Cap /\ 0 \in 0..MaxFaults
      BY <1>1, CapFacts, BoundAssumption
    <2>2. Declared \subseteq Queues
      BY QueueAssumption
    <2> QED
      BY <2>1, <2>2 DEF Init, TypeOK
  <1>3. StaleBounded /\ LoggedFirst /\ OnceWithoutFault
    BY QueueAssumption DEF Init, StaleBounded, LoggedFirst, OnceWithoutFault
  <1> QED
    BY <1>2, <1>3 DEF IInv

(* Every step of the service, the broker and the faults keeps the invariant. *)
LEMMA IInvNext == IInv /\ [Next]_vars => IInv'
  <1> SUFFICES ASSUME TypeOK, StaleBounded, LoggedFirst, OnceWithoutFault, [Next]_vars
               PROVE  IInv'
    BY DEF IInv
  <1>a. Len(QueueSeq) \in Nat /\ \A i \in 1..Len(QueueSeq) : QueueSeq[i] \in Queues
    BY QueueAssumption DEF Queues
  <1>b. /\ held \in [Messages -> {"no", "delivered", "logged", "failed"}]
        /\ at \in [Messages -> Queues \cup {"unpublished", "lost", "done"}]
        /\ logs \in [Messages -> 0..Cap] /\ stale \in [Messages -> 0..MaxFaults]
        /\ staleDlq \in [Messages -> 0..MaxFaults]
        /\ tries \in [Messages -> 0..Cap] /\ faults \in 0..MaxFaults /\ MaxFaults \in Nat
    BY BoundAssumption DEF TypeOK
  <1>c. OpenDeliveries /\ conn \in BOOLEAN
    BY DEF TypeOK, OpenDeliveries
  <1>0. CASE UNCHANGED vars
    BY <1>0 DEF vars, IInv, TypeOK, StaleBounded, LoggedFirst, OnceWithoutFault
  (* Deliveries alone disturb nothing. *)
  <1>1. ASSUME NEW where, NEW consuming, consuming \subseteq Queues,
               conn' \in BOOLEAN, ~conn' => consuming = {}, conn => conn',
               held' = Drained(where, held, consuming), at' = where,
               UNCHANGED <<logs, stale, staleDlq, faults>>,
               \A m \in Messages : at[m] # "unpublished" => where[m] = at[m],
               \A m \in Messages : where[m] = "done" => at[m] = "done"
        PROVE  StaleBounded' /\ LoggedFirst' /\ OnceWithoutFault' /\ OpenDeliveries'
    <2>1. \A m \in Messages :
            \/ held'[m] = held[m]
            \/ held[m] = "no" /\ held'[m] = "delivered" /\ where[m] \in Queues /\ conn'
      BY <1>b, <1>1, DrainedFacts
    <2>2. \A m \in Messages : held[m] # "no" => conn /\ at[m] \in Queues /\ at[m] # "unpublished"
      BY <1>c, QueueAssumption DEF OpenDeliveries
    <2>3. StaleBounded' /\ LoggedFirst'
      BY <1>1, <2>1, <2>2 DEF StaleBounded, LoggedFirst
    <2>4. OnceWithoutFault'
      BY <1>1, <2>1, <2>2 DEF OnceWithoutFault
    <2>5. OpenDeliveries'
      BY <1>1, <2>1, <2>2 DEF OpenDeliveries
    <2> QED
      BY <2>3, <2>4, <2>5
  <1>2. CASE Connect
    <2>1. StaleBounded' /\ LoggedFirst' /\ OnceWithoutFault' /\ OpenDeliveries'
      BY <1>1, <1>c, <1>2, ConsumedAreQueues DEF Connect
    <2>2. held' \in [Messages -> {"no", "delivered", "logged", "failed"}]
      BY <1>b, <1>2, DrainedFacts DEF Connect
    <2> QED
      BY <1>2, <2>1, <2>2 DEF Connect, IInv, TypeOK, OpenDeliveries
  <1>3. CASE SetUp
    <2>1. StaleBounded' /\ LoggedFirst' /\ OnceWithoutFault' /\ OpenDeliveries'
      BY <1>1, <1>c, <1>3, ConsumedAreQueues DEF SetUp
    <2>2. held' \in [Messages -> {"no", "delivered", "logged", "failed"}]
      BY <1>b, <1>3, DrainedFacts DEF SetUp
    <2>3. setup' \in 0..(2 * Len(QueueSeq)) /\ bound' \subseteq Queues
      BY <1>a, <1>3 DEF SetUp, Running, TypeOK
    <2> QED
      BY <1>3, <2>1, <2>2, <2>3 DEF SetUp, IInv, TypeOK, OpenDeliveries
  <1>4. ASSUME NEW m \in Messages, Publish(m) PROVE IInv'
    <2>1. at' \in [Messages -> Queues \cup {"unpublished", "lost", "done"}]
      BY <1>b, <1>4, QueueAssumption DEF Publish
    <2>2. /\ \A k \in Messages : at[k] # "unpublished" => at'[k] = at[k]
          /\ \A k \in Messages : at'[k] = "done" => at[k] = "done"
      BY <1>b, <1>4, QueueAssumption DEF Publish
    <2>3. StaleBounded' /\ LoggedFirst' /\ OnceWithoutFault' /\ OpenDeliveries'
      BY <1>1, <1>c, <1>4, <2>2, ConsumedAreQueues DEF Publish
    <2>4. held' \in [Messages -> {"no", "delivered", "logged", "failed"}]
      BY <1>b, <1>4, DrainedFacts DEF Publish
    <2> QED
      BY <1>4, <2>1, <2>3, <2>4 DEF Publish, IInv, TypeOK, OpenDeliveries
  (* A message that is settled, requeued or rejected, and what is delivered *)
  (* in its place.                                                          *)
  <1>5. ASSUME NEW m \in Messages, RejectExhausted(m) \/ Ack(m) \/ Requeue(m) PROVE IInv'
    <2> DEFINE out == [held EXCEPT ![m] = "no"]
    <2>1. held' = Drained(at', out, Consuming)
      BY <1>5 DEF RejectExhausted, Ack, Requeue
    <2>2. out \in [Messages -> {"no", "delivered", "logged", "failed"}]
      BY <1>b
    <2>3. /\ \A k \in Messages \ {m} : out[k] = held[k] /\ at'[k] = at[k]
          /\ out[m] = "no"
      BY <1>b, <1>5 DEF RejectExhausted, Ack, Requeue
    <2> HIDE DEF out
    <2>4. /\ held' \in [Messages -> {"no", "delivered", "logged", "failed"}]
          /\ \A k \in Messages : \/ held'[k] = out[k]
                                 \/ out[k] = "no" /\ held'[k] = "delivered" /\ at'[k] \in Queues /\ conn
      <3> DEFINE where == at'
                 consuming == Consuming
      <3>1. held' = Drained(where, out, consuming) /\ consuming \subseteq Queues
             /\ (~conn => consuming = {})
        BY <2>1, ConsumedAreQueues
      <3> HIDE DEF where, consuming
      <3>2. /\ held' \in [Messages -> {"no", "delivered", "logged", "failed"}]
            /\ \A k \in Messages : \/ held'[k] = out[k]
                                   \/ out[k] = "no" /\ held'[k] = "delivered" /\ where[k] \in consuming
        BY <2>2, <3>1, DrainedFacts
      <3>3. \A q \in consuming : q \in Queues /\ conn
        BY <3>1
      <3> QED
        BY <3>2, <3>3 DEF where
    <2>5. /\ at' \in [Messages -> Queues \cup {"unpublished", "lost", "done"}]
          /\ count' \in [Messages -> 0..Cap]
      <3>1. count \in [Messages -> 0..Cap] /\ 0 \in 0..Cap /\ Dlq \in Queues
        BY CapFacts, QueueAssumption DEF TypeOK
      <3>2. CASE RejectExhausted(m)
        BY <1>b, <3>1, <3>2 DEF RejectExhausted
      <3>3. CASE Ack(m)
        BY <1>b, <3>1, <3>3 DEF Ack
      <3>4. CASE Requeue(m)
        BY <1>b, <3>4, CountedType DEF Requeue
      <3> QED
        BY <1>5, <3>2, <3>3, <3>4
    <2>6. \/ held[m] = "delivered" /\ at'[m] = Dlq
          \/ held[m] = "logged" /\ at'[m] = "done"
          \/ held[m] = "failed" /\ at'[m] = at[m]
      BY <1>b, <1>5 DEF RejectExhausted, Ack, Requeue
    <2>7. UNCHANGED <<setup, conn, bound, tries, logs, stale, staleDlq, faults>>
      BY <1>5 DEF RejectExhausted, Ack, Requeue
    <2>8. at[m] \in Queues
      BY <1>c, <2>6 DEF OpenDeliveries
    <2>9. StaleBounded' /\ LoggedFirst'
      BY <2>3, <2>4, <2>6, <2>7, <2>8, QueueAssumption DEF StaleBounded, LoggedFirst
    <2>10. OnceWithoutFault'
      BY <2>3, <2>4, <2>6, <2>7, <2>8, QueueAssumption DEF OnceWithoutFault
    <2>11. OpenDeliveries'
      BY <1>c, <2>3, <2>4, <2>7 DEF OpenDeliveries
    <2> QED
      BY <2>4, <2>5, <2>7, <2>9, <2>10, <2>11 DEF IInv, TypeOK, OpenDeliveries
  <1>6. ASSUME NEW m \in Messages, Process(m) PROVE IInv'
    <2>1. /\ held[m] = "delivered" /\ UNCHANGED <<setup, conn, bound, at, count, stale, staleDlq, faults>>
          /\ \/ held' = [held EXCEPT ![m] = "failed"] /\ logs' = logs
             \/ held' = [held EXCEPT ![m] = "logged"] /\ logs' = [logs EXCEPT ![m] = Inc(@)]
      BY <1>6 DEF Process
    <2>2. tries' \in [Messages -> 0..Cap] /\ logs' \in [Messages -> 0..Cap]
      BY <1>b, <1>6, <2>1, CapFacts DEF Process
    <2>3. held' \in [Messages -> {"no", "delivered", "logged", "failed"}]
      BY <1>b, <2>1
    <2>4. /\ \A k \in Messages \ {m} : held'[k] = held[k] /\ logs'[k] = logs[k]
          /\ \/ held'[m] = "failed" /\ logs'[m] = logs[m]
             \/ held'[m] = "logged" /\ logs'[m] = Inc(logs[m]) /\ logs'[m] > 0
      BY <1>b, <2>1, CapFacts
    <2>5. at[m] \in Queues /\ at[m] # "done"
      BY <1>c, <2>1, QueueAssumption DEF OpenDeliveries
    <2>6. faults = 0 => logs[m] = 0
      BY <1>b, <2>1, <2>5, CapFacts DEF OnceWithoutFault
    <2>7. StaleBounded' /\ LoggedFirst'
      BY <2>1, <2>4, <2>5 DEF StaleBounded, LoggedFirst
    <2>8. OnceWithoutFault'
      BY <2>1, <2>4, <2>5, <2>6, CapFacts DEF OnceWithoutFault
    <2>9. OpenDeliveries'
      BY <1>c, <2>1, <2>4 DEF OpenDeliveries
    <2> QED
      BY <2>1, <2>2, <2>3, <2>7, <2>8, <2>9 DEF IInv, TypeOK, OpenDeliveries
  <1>7. ASSUME NEW m \in Messages, ProcessStale(m) \/ ProcessStaleDlq(m) PROVE IInv'
    <2>1. /\ stale[m] > 0 \/ staleDlq[m] > 0
          /\ UNCHANGED <<setup, conn, bound, at, held, count, faults>>
          /\ logs' = logs \/ logs' = [logs EXCEPT ![m] = Inc(@)]
          /\ tries' = tries \/ tries' = [tries EXCEPT ![m] = Inc(@)]
      BY <1>7 DEF ProcessStale, ProcessStaleDlq
    <2>2. faults # 0
      BY <1>b, <2>1 DEF StaleBounded
    <2>3. /\ logs' \in [Messages -> 0..Cap] /\ tries' \in [Messages -> 0..Cap]
          /\ \A k \in Messages : logs[k] > 0 => logs'[k] > 0
      BY <1>b, <2>1, CapFacts
    <2>4. /\ stale' \in [Messages -> 0..MaxFaults] /\ staleDlq' \in [Messages -> 0..MaxFaults]
          /\ \A k \in Messages : stale'[k] <= stale[k] /\ staleDlq'[k] <= staleDlq[k]
      <3>1. CASE ProcessStale(m)
        BY <1>b, <3>1 DEF ProcessStale
      <3>2. CASE ProcessStaleDlq(m)
        BY <1>b, <3>2 DEF ProcessStaleDlq
      <3> QED
        BY <1>7, <3>1, <3>2
    <2>5. StaleBounded' /\ LoggedFirst' /\ OnceWithoutFault'
      BY <1>b, <2>1, <2>2, <2>3, <2>4 DEF StaleBounded, LoggedFirst, OnceWithoutFault
    <2> QED
      BY <2>1, <2>3, <2>4, <2>5 DEF IInv, TypeOK
  <1>8. CASE Disconnect \/ Restart
    <2>1. /\ faults' = faults + 1 /\ faults' \in 0..MaxFaults /\ faults' # 0
          /\ held' = [m \in Messages |-> "no"] /\ conn' = FALSE
          /\ UNCHANGED <<bound, at, tries, logs>>
      BY <1>b, <1>8 DEF Disconnect, Restart
    <2>2. setup' \in 0..(2 * Len(QueueSeq)) /\ count' \in [Messages -> 0..Cap]
      BY <1>a, <1>8, CountedType DEF Disconnect, Restart, TypeOK
    <2>3. \A m \in Messages : /\ stale[m] \in Nat /\ stale[m] <= faults
                              /\ staleDlq[m] \in Nat /\ staleDlq[m] <= faults
      BY <1>b DEF StaleBounded
    <2>4. /\ stale' \in [Messages -> 0..MaxFaults] /\ staleDlq' \in [Messages -> 0..MaxFaults]
          /\ StaleBounded'
      <3>1. CASE Disconnect
        <4>1. \A m \in Messages : /\ stale'[m] \in {stale[m], stale[m] + 1}
                                  /\ staleDlq'[m] \in {staleDlq[m], staleDlq[m] + 1}
          BY <3>1 DEF Disconnect
        <4>2. \A m \in Messages : /\ stale'[m] \in 0..MaxFaults /\ stale'[m] <= faults'
                                  /\ staleDlq'[m] \in 0..MaxFaults /\ staleDlq'[m] <= faults'
          BY <1>b, <2>1, <2>3, <4>1
        <4>3. \E f, g : stale' = [m \in Messages |-> f[m]] /\ staleDlq' = [m \in Messages |-> g[m]]
          <5> WITNESS stale', staleDlq'
          <5> QED
            BY <3>1 DEF Disconnect
        <4> QED
          BY <4>2, <4>3 DEF StaleBounded
      <3>2. CASE Restart
        BY <1>b, <2>1, <3>2 DEF Restart, StaleBounded
      <3> QED
        BY <1>8, <3>1, <3>2
    <2>5. LoggedFirst' /\ OnceWithoutFault'
      BY <2>1 DEF LoggedFirst, OnceWithoutFault
    <2> QED
      BY <2>1, <2>2, <2>4, <2>5 DEF IInv, TypeOK
  <1> QED
    BY <1>0, <1>2, <1>3, <1>4, <1>5, <1>6, <1>7, <1>8 DEF Next, Handle

(* The state of the Notification Service keeps its type. *)
THEOREM TypeCorrect == Spec => []TypeOK
  <1>1. IInv => TypeOK
    BY DEF IInv
  <1> QED
    BY <1>1, IInvInit, IInvNext, PTL DEF Spec

(* No message leaves the queues without its content in the log. *)
THEOREM NothingSilentlySettled == Spec => []SettledWasLogged
  <1>1. IInv => SettledWasLogged
    BY DEF IInv, LoggedFirst, SettledWasLogged
  <1> QED
    BY <1>1, IInvInit, IInvNext, PTL DEF Spec

(* Without connection losses and restarts every line is written once. *)
THEOREM DuplicatesNeedFaults == Spec => []DuplicateNeedsFault
  <1>1. IInv => DuplicateNeedsFault
    <2> SUFFICES ASSUME IInv, NEW m \in Messages, logs[m] > 1
                 PROVE  faults > 0
      BY DEF DuplicateNeedsFault
    <2>1. logs[m] \in Nat /\ faults \in Nat
      BY CapFacts, BoundAssumption DEF IInv, TypeOK
    <2> QED
      BY <2>1 DEF IInv, OnceWithoutFault
  <1> QED
    BY <1>1, IInvInit, IInvNext, PTL DEF Spec

-----------------------------------------------------------------------------
(* What was bound before. *)

(* A message was routed only to a bound queue, and the messages were       *)
(* published in their order.                                               *)
InvBound ==
  /\ \A m \in Messages : at[m] \notin {"unpublished", "lost"} => QueueOf[m] \in bound
  /\ \A k, m \in Messages : k < m /\ at[k] = "unpublished" => at[m] = "unpublished"

(* The attempts at a message of a quorum queue, with those that a task on  *)
(* a dead connection will still make, and the deliveries the broker has    *)
(* counted for it.  An attempt under way is counted later, a counted       *)
(* delivery without an attempt was taken by a fault.                       *)
Retried(m) ==
  /\ tries[m] + stale[m] <= MAX_DELIVERY_ATTEMPTS - 1
  /\ at[m] = "unpublished" => count[m] = 0 /\ tries[m] = 0 /\ stale[m] = 0
  /\ at[m] \in Queues => at[m] \in {QueueOf[m], Dlq}
  /\ at[m] = QueueOf[m] /\ held[m] \in {"no", "delivered"} =>
       tries[m] + stale[m] <= count[m] /\ count[m] <= tries[m] + faults
  /\ at[m] = QueueOf[m] /\ held[m] \in {"logged", "failed"} =>
       /\ count[m] + 1 <= MAX_DELIVERY_ATTEMPTS - 1
       /\ tries[m] + stale[m] <= count[m] + 1 /\ count[m] + 1 <= tries[m] + faults
  /\ at[m] = Dlq => tries[m] + faults >= MAX_DELIVERY_ATTEMPTS - 1

InvRetried ==
  \A m \in Messages : QueueType[QueueOf[m]] = "quorum" /\ QueueOf[m] # Dlq => Retried(m)

(* What a step can do to a message. *)
LEMMA AtMoves ==
  ASSUME IInv, Next, NEW k \in Messages
  PROVE  /\ bound \subseteq bound'
         /\ \/ at'[k] = at[k]
            \/ at[k] \in Queues /\ at'[k] \in {Dlq, "done"}
            \/ at[k] = "unpublished" /\ Publish(k)
  <1>1. at \in [Messages -> Queues \cup {"unpublished", "lost", "done"}]
    BY DEF IInv, TypeOK
  <1>2. \A m \in Messages : held[m] # "no" => at[m] \in Queues
    BY DEF IInv, TypeOK
  <1>3. CASE Connect \/ SetUp \/ Disconnect \/ Restart
    BY <1>3 DEF Connect, SetUp, Disconnect, Restart
  <1>4. ASSUME NEW m \in Messages, Publish(m) \/ Handle(m) \/ ProcessStale(m) \/ ProcessStaleDlq(m)
        PROVE  /\ bound \subseteq bound'
               /\ \/ at'[k] = at[k]
                  \/ at[k] \in Queues /\ at'[k] \in {Dlq, "done"}
                  \/ at[k] = "unpublished" /\ Publish(k)
    <2>1. CASE Publish(m)
      BY <1>1, <2>1 DEF Publish
    <2>2. CASE RejectExhausted(m) \/ Ack(m)
      BY <1>1, <1>2, <2>2 DEF RejectExhausted, Ack
    <2>3. CASE Process(m) \/ Requeue(m) \/ ProcessStale(m) \/ ProcessStaleDlq(m)
      BY <2>3 DEF Process, Requeue, ProcessStale, ProcessStaleDlq
    <2> QED
      BY <1>4, <2>1, <2>2, <2>3 DEF Handle
  <1> QED
    BY <1>3, <1>4 DEF Next

(* Once the exchange has routed a message of a queue it drops none of the  *)
(* later ones: a binding, once declared, outlives every disconnect,        *)
(* restart and repeated start_consumers.                                   *)
THEOREM NothingLostAfterBinding == Spec => []NoLossAfterBinding
  <1> DEFINE Inv == InvBound /\ NoLossAfterBinding
  <1>1. Init => Inv
    BY DEF Init, InvBound, NoLossAfterBinding
  <1>2. ASSUME IInv, Inv, [Next]_vars PROVE Inv'
    <2>1. CASE UNCHANGED vars
      BY <1>2, <2>1 DEF vars, InvBound, NoLossAfterBinding
    <2>2. CASE Next
      <3>1. \A m \in Messages :
              \/ at'[m] = at[m]
              \/ at[m] \in Queues /\ at'[m] \notin {"unpublished", "lost"}
              \/ Publish(m)
        BY <1>2, <2>2, AtMoves, QueueAssumption
      <3>2. bound \subseteq bound'
        <4>1. CASE Connect \/ SetUp \/ Disconnect \/ Restart
          BY <4>1 DEF Connect, SetUp, Disconnect, Restart
        <4>2. ASSUME NEW m \in Messages, Publish(m) \/ Handle(m) \/ ProcessStale(m) \/ ProcessStaleDlq(m)
              PROVE  bound \subseteq bound'
          BY <1>2, <2>2, <4>2, AtMoves
        <4> QED
          BY <2>2, <4>1, <4>2 DEF Next
      <3>3. ASSUME NEW m \in Messages, Publish(m) PROVE Inv'
        <4>1. /\ at[m] = "unpublished" /\ bound' = bound
              /\ \A k \in Messages : k < m => at[k] # "unpublished"
              /\ at'[m] = IF QueueOf[m] \in bound THEN QueueOf[m] ELSE "lost"
              /\ \A k \in Messages \ {m} : at'[k] = at[k]
          BY <1>2, <3>3 DEF Publish, IInv, TypeOK
        <4>2. at'[m] # "unpublished" /\ (at'[m] # "lost" => QueueOf[m] \in bound)
          BY <4>1, QueueAssumption
        <4>3. \A k, l \in Messages : k < l \/ l < k \/ k = l
          BY MessageAssumption
        <4>4. \A k, l \in Messages : k < l => ~(l < k) /\ k # l
          BY MessageAssumption
        <4>5. InvBound'
          BY <1>2, <4>1, <4>2, <4>3, <4>4 DEF InvBound
        <4>6. NoLossAfterBinding'
          <5> SUFFICES ASSUME NEW k \in Messages, NEW l \in Messages, k < l, QueueOf[k] = QueueOf[l],
                              at'[k] \notin {"unpublished", "lost"}, at'[l] = "lost"
                       PROVE  FALSE
            BY DEF NoLossAfterBinding
          <5>1. CASE l = m
            <6>1. at'[k] = at[k] /\ QueueOf[k] \in bound
              BY <1>2, <4>1, <4>4, <5>1 DEF InvBound
            <6> QED
              BY <4>1, <5>1, <6>1, QueueAssumption
          <5>2. CASE l # m /\ k = m
            BY <1>2, <4>1, <5>2 DEF InvBound
          <5>3. CASE l # m /\ k # m
            BY <1>2, <4>1, <5>3 DEF NoLossAfterBinding
          <5> QED
            BY <5>1, <5>2, <5>3
        <4> QED
          BY <4>5, <4>6
      <3>4. CASE ~\E m \in Messages : Publish(m)
        <4>1. \A m \in Messages : \/ at'[m] = at[m]
                                  \/ at[m] \in Queues /\ at'[m] \notin {"unpublished", "lost"}
          BY <3>1, <3>4
        <4>2. \A m \in Messages : at[m] \in Queues => at[m] \notin {"unpublished", "lost"}
          BY QueueAssumption
        <4> QED
          BY <1>2, <3>2, <4>1, <4>2 DEF InvBound, NoLossAfterBinding
      <3> QED
        BY <3>3, <3>4
    <2> QED
      BY <1>2, <2>1, <2>2
  <1>3. Inv => NoLossAfterBinding
    OBVIOUS
  <1> HIDE DEF Inv
  <1> QED
    BY <1>1, <1>2, <1>3, IInvInit, IInvNext, PTL DEF Spec

-----------------------------------------------------------------------------
(* The retry limit. *)

(* Below the cap the counters count, and they never move by more than one. *)
LEMMA IncFacts == \A n \in 0..Cap : /\ Inc(n) >= n /\ Inc(n) <= n + 1
                                    /\ n + 1 <= MAX_DELIVERY_ATTEMPTS => Inc(n) = n + 1
  BY DEF Cap, Inc, MAX_DELIVERY_ATTEMPTS

(* Attempts and counted deliveries of a message of a quorum queue stay     *)
(* together at every step of any actor.                                    *)
LEMMA RetriedNext ==
  ASSUME IInv, Next, NEW k \in Messages, QueueType[QueueOf[k]] = "quorum", QueueOf[k] # Dlq,
         Retried(k)
  PROVE  Retried(k)'
  <1>1. /\ at \in [Messages -> Queues \cup {"unpublished", "lost", "done"}]
        /\ held \in [Messages -> {"no", "delivered", "logged", "failed"}]
        /\ count \in [Messages -> 0..Cap] /\ tries \in [Messages -> 0..Cap]
    BY DEF IInv, TypeOK
  <1>2. /\ faults \in Nat /\ count[k] \in Nat /\ tries[k] \in Nat
        /\ count[k] \in 0..Cap /\ tries[k] \in 0..Cap /\ stale[k] \in Nat
    BY <1>1, CapFacts, BoundAssumption DEF IInv, TypeOK
  <1>3. /\ QueueOf[k] \in Queues /\ Dlq \in Queues
        /\ {"unpublished", "lost", "done"} \cap Queues = {}
    BY QueueAssumption
  <1>4. \A m \in Messages : held[m] # "no" => at[m] \in Queues
    BY DEF IInv, TypeOK
  (* Steps that at most deliver the message. *)
  <1>5. ASSUME /\ at'[k] = at[k] /\ count'[k] = count[k] /\ tries'[k] = tries[k] /\ stale'[k] = stale[k] /\ faults' = faults
               /\ held'[k] = held[k] \/ (held[k] = "no" /\ held'[k] = "delivered")
        PROVE  Retried(k)'
    BY <1>5 DEF Retried
  <1>6. CASE Connect \/ SetUp
    <2>1. held'[k] = held[k] \/ (held[k] = "no" /\ held'[k] = "delivered")
      BY <1>1, <1>6, DrainedFacts DEF Connect, SetUp
    <2> QED
      BY <1>5, <1>6, <2>1 DEF Connect, SetUp
  <1>7. CASE Disconnect \/ Restart
    <2>1. /\ at' = at /\ tries' = tries /\ faults' = faults + 1 /\ held'[k] = "no"
          /\ count' = Counted(HeldNow)
      BY <1>7 DEF Disconnect, Restart
    (* A task outlives its connection only before its attempt. *)
    <2>a. /\ stale'[k] \in Nat
          /\ \/ stale'[k] <= stale[k]
             \/ /\ stale'[k] = stale[k] + 1 /\ held[k] = "delivered" /\ at[k] # Dlq
                /\ count[k] + 1 <= MAX_DELIVERY_ATTEMPTS - 1
      <3>1. CASE Restart
        BY <1>2, <3>1 DEF Restart
      <3>2. CASE Disconnect
        BY <1>2, <3>2 DEF Disconnect, Outlives, Exhausted, _delivery_count, MAX_DELIVERY_ATTEMPTS
      <3> QED
        BY <1>7, <3>1, <3>2
    <2>2. CASE at[k] = QueueOf[k]
      <3>1. count'[k] = IF held[k] # "no" THEN Inc(count[k]) ELSE count[k]
        BY <2>1, <2>2 DEF Counted, HeldNow
      <3>2. held[k] \in {"no", "delivered", "logged", "failed"}
        BY <1>1
      <3>3. /\ tries[k] + stale'[k] <= count'[k] /\ count'[k] <= tries[k] + (faults + 1)
            /\ tries[k] + stale'[k] <= MAX_DELIVERY_ATTEMPTS - 1
        <4>1. PICK n \in 0..Cap : n = count[k]
          BY <1>2
        <4>2. n \in Nat /\ Inc(n) >= n /\ Inc(n) <= n + 1 /\ (n + 1 <= MAX_DELIVERY_ATTEMPTS => Inc(n) = n + 1)
          BY <1>2, <4>1, IncFacts
        <4>3. CASE held[k] = "no"
          <5>1. count'[k] = n /\ tries[k] + stale[k] <= n /\ n <= tries[k] + faults
            BY <2>2, <3>1, <4>1, <4>3 DEF Retried
          <5>2. tries[k] + stale[k] <= MAX_DELIVERY_ATTEMPTS - 1 /\ stale'[k] <= stale[k]
            BY <1>2, <2>a, <4>3 DEF Retried
          <5> QED
            BY <1>2, <2>a, <4>2, <5>1, <5>2 DEF MAX_DELIVERY_ATTEMPTS
        <4>4. CASE held[k] = "delivered"
          <5>1. tries[k] + stale[k] <= n /\ n <= tries[k] + faults /\ count'[k] = Inc(n)
            BY <2>2, <3>1, <4>1, <4>4 DEF Retried
          <5>2. Inc(n) \in Nat
            BY <4>1, CapFacts
          <5>3. tries[k] + stale[k] <= MAX_DELIVERY_ATTEMPTS - 1
            BY DEF Retried
          <5>4. \/ stale'[k] <= stale[k]
                \/ stale'[k] = stale[k] + 1 /\ n + 1 <= MAX_DELIVERY_ATTEMPTS - 1
            BY <2>a, <4>1
          <5> QED
            BY <1>2, <2>a, <4>2, <5>1, <5>2, <5>3, <5>4 DEF MAX_DELIVERY_ATTEMPTS
        <4>5. CASE held[k] \in {"logged", "failed"}
          <5>1. /\ n + 1 <= MAX_DELIVERY_ATTEMPTS - 1 /\ count'[k] = Inc(n)
                /\ tries[k] + stale[k] <= n + 1 /\ n + 1 <= tries[k] + faults
            BY <2>2, <3>1, <4>1, <4>5 DEF Retried
          <5>2. count'[k] = n + 1
            BY <4>2, <5>1 DEF MAX_DELIVERY_ATTEMPTS
          <5>3. stale'[k] <= stale[k]
            BY <2>a, <4>5
          <5> QED
            BY <1>2, <2>a, <4>2, <5>1, <5>2, <5>3 DEF MAX_DELIVERY_ATTEMPTS
        <4> QED
          BY <3>2, <4>3, <4>4, <4>5
      <3>4. at[k] # Dlq /\ at[k] # "unpublished"
        BY <1>3, <2>2
      <3> QED
        BY <1>2, <2>1, <2>2, <3>3, <3>4 DEF Retried
    <2>3. CASE at[k] # QueueOf[k]
      <3>1. at[k] = "unpublished" => count'[k] = count[k]
        BY <1>3, <1>4, <2>1 DEF Counted, HeldNow
      <3>2. stale'[k] <= stale[k]
        BY <1>4, <2>a, <2>3 DEF Retried
      <3> QED
        BY <1>2, <2>1, <2>a, <2>3, <3>1, <3>2 DEF Retried, MAX_DELIVERY_ATTEMPTS
    <2> QED
      BY <2>2, <2>3
  <1>8. ASSUME NEW m \in Messages, Publish(m) PROVE Retried(k)'
    <2>1. /\ UNCHANGED <<count, tries, stale, faults>>
          /\ at[m] = "unpublished" /\ at'[m] \in {QueueOf[m], "lost"}
          /\ m # k => at'[k] = at[k]
      BY <1>1, <1>8 DEF Publish
    <2>2. held'[k] = held[k] \/ (held[k] = "no" /\ held'[k] = "delivered")
      BY <1>1, <1>8, DrainedFacts DEF Publish
    <2>3. CASE m # k
      BY <1>5, <2>1, <2>2, <2>3
    <2>4. CASE m = k
      <3>1. count[k] = 0 /\ tries[k] = 0 /\ stale[k] = 0 /\ held[k] = "no"
        BY <1>1, <1>3, <1>4, <2>1, <2>4 DEF Retried
      <3>2. held'[k] \in {"no", "delivered"} /\ held'[k] # "logged" /\ held'[k] # "failed"
        BY <2>2, <3>1
      <3>3. at'[k] # Dlq /\ at'[k] # "unpublished" /\ at'[k] \in {QueueOf[k], "lost"}
        BY <1>3, <2>1, <2>4
      <3> QED
        BY <1>2, <1>3, <2>1, <3>1, <3>2, <3>3 DEF Retried, MAX_DELIVERY_ATTEMPTS
    <2> QED
      BY <2>3, <2>4
  <1>9. ASSUME NEW m \in Messages, RejectExhausted(m) \/ Ack(m) \/ Requeue(m) PROVE Retried(k)'
    <2> DEFINE out == [held EXCEPT ![m] = "no"]
    <2>1. out \in [Messages -> {"no", "delivered", "logged", "failed"}]
      BY <1>1
    <2>2. out[m] = "no" /\ (m # k => out[k] = held[k])
      BY <1>1
    <2>3. \E w, c : held' = Drained(w, out, c)
      BY <1>9 DEF RejectExhausted, Ack, Requeue
    <2>4. UNCHANGED <<tries, stale, faults>> /\ held[m] # "no"
      BY <1>9 DEF RejectExhausted, Ack, Requeue
    <2> HIDE DEF out
    <2>5. held'[k] = out[k] \/ (out[k] = "no" /\ held'[k] = "delivered")
      BY <2>1, <2>3, DrainedFacts
    <2>6. CASE m # k
      <3>1. at'[k] = at[k]
        BY <1>1, <1>9, <2>6 DEF RejectExhausted, Ack, Requeue
      <3>2. count'[k] = count[k]
        BY <1>1, <1>9, <2>6 DEF RejectExhausted, Ack, Requeue, Counted
      <3> QED
        BY <1>5, <2>2, <2>4, <2>5, <2>6, <3>1, <3>2
    <2>7. CASE m = k
      <3>1. held'[k] \in {"no", "delivered"} /\ held'[k] # "logged" /\ held'[k] # "failed"
        BY <2>2, <2>5, <2>7
      <3>2. at[k] \in {QueueOf[k], Dlq}
        BY <1>4, <2>4, <2>7 DEF Retried
      <3>3. CASE RejectExhausted(m)
        <4>1. at[k] = QueueOf[k] /\ held[k] = "delivered" /\ count[k] + 1 >= MAX_DELIVERY_ATTEMPTS
          BY <2>7, <3>2, <3>3 DEF RejectExhausted, Exhausted, _delivery_count
        <4>2. at'[k] = Dlq
          BY <1>1, <2>7, <3>3 DEF RejectExhausted
        <4>3. tries[k] + faults >= MAX_DELIVERY_ATTEMPTS - 1
          BY <1>2, <4>1 DEF Retried, MAX_DELIVERY_ATTEMPTS
        <4>4. at'[k] # "unpublished" /\ at'[k] # QueueOf[k]
          BY <1>3, <4>2
        <4> QED
          BY <2>4, <4>2, <4>3, <4>4 DEF Retried
      <3>4. CASE Ack(m)
        <4>1. at'[k] = "done"
          BY <1>1, <2>7, <3>4 DEF Ack
        <4>2. at'[k] # "unpublished" /\ at'[k] # QueueOf[k] /\ at'[k] \notin Queues /\ at'[k] # Dlq
          BY <1>3, <4>1
        <4> QED
          BY <2>4, <4>2 DEF Retried
      <3>5. CASE Requeue(m)
        <4>1. held[k] = "failed" /\ at' = at /\ count' = Counted({k})
          BY <2>7, <3>5 DEF Requeue
        <4>2. at[k] # "unpublished"
          BY <1>3, <3>2
        <4>3. CASE at[k] = QueueOf[k]
          <5>1. count'[k] = Inc(count[k])
            BY <4>1, <4>3 DEF Counted
          <5>2. count[k] + 1 <= MAX_DELIVERY_ATTEMPTS
            BY <1>2, <4>1, <4>3 DEF Retried, MAX_DELIVERY_ATTEMPTS
          <5>3. count'[k] = count[k] + 1
            BY <1>2, <5>1, <5>2, IncFacts
          <5> QED
            BY <1>2, <1>3, <2>4, <3>1, <4>1, <4>2, <4>3, <5>3 DEF Retried
        <4>4. CASE at[k] # QueueOf[k]
          BY <2>4, <4>1, <4>2, <4>4 DEF Retried
        <4> QED
          BY <4>3, <4>4
      <3> QED
        BY <1>9, <3>3, <3>4, <3>5
    <2> QED
      BY <2>6, <2>7
  <1>10. ASSUME NEW m \in Messages, Process(m) PROVE Retried(k)'
    <2>1. /\ UNCHANGED <<at, count, stale, faults>> /\ held[m] = "delivered"
          /\ tries' = IF at[m] = Dlq THEN tries ELSE [tries EXCEPT ![m] = Inc(@)]
          /\ held'[m] \in {"logged", "failed"}
          /\ m # k => held'[k] = held[k] /\ tries'[k] = tries[k]
      BY <1>1, <1>10 DEF Process
    <2>2. CASE m # k
      BY <1>5, <2>1, <2>2
    <2>3. CASE m = k /\ at[k] = Dlq
      BY <1>3, <2>1, <2>3 DEF Retried
    <2>4. CASE m = k /\ at[k] # Dlq
      <3>1. at[k] = QueueOf[k] /\ at[k] # "unpublished"
        BY <1>3, <1>4, <2>1, <2>4 DEF Retried
      <3>2. count[k] + 1 <= MAX_DELIVERY_ATTEMPTS - 1
        BY <1>2, <1>10, <2>4 DEF Process, Exhausted, _delivery_count, MAX_DELIVERY_ATTEMPTS
      <3>3. tries[k] + stale[k] <= count[k] /\ count[k] <= tries[k] + faults
        BY <2>1, <2>4, <3>1 DEF Retried
      <3>4. tries'[k] = tries[k] + 1
        <4>1. tries'[k] = Inc(tries[k])
          BY <1>1, <2>1, <2>4
        <4>2. tries[k] + 1 <= MAX_DELIVERY_ATTEMPTS
          BY <1>2, <3>2, <3>3 DEF MAX_DELIVERY_ATTEMPTS
        <4> QED
          BY <1>2, <4>1, <4>2, IncFacts
      <3>5. held'[k] # "no" /\ held'[k] # "delivered"
        BY <2>1, <2>4
      <3> QED
        BY <1>2, <2>1, <2>4, <3>1, <3>2, <3>3, <3>4, <3>5 DEF Retried, MAX_DELIVERY_ATTEMPTS
    <2> QED
      BY <2>2, <2>3, <2>4
  <1>11. ASSUME NEW m \in Messages, ProcessStaleDlq(m) PROVE Retried(k)'
    BY <1>5, <1>11 DEF ProcessStaleDlq
  <1>12. ASSUME NEW m \in Messages, ProcessStale(m) PROVE Retried(k)'
    <2>1. stale[m] > 0 /\ UNCHANGED <<at, held, count, faults>>
      BY <1>12 DEF ProcessStale
    <2>2. CASE m # k
      <3>1. tries'[k] = tries[k] /\ stale'[k] = stale[k]
        BY <1>1, <1>12, <2>2 DEF ProcessStale, IInv, TypeOK
      <3> QED
        BY <1>5, <2>1, <3>1
    <2>3. CASE m = k
      <3>1. stale'[k] = stale[k] - 1 /\ tries'[k] = Inc(tries[k])
        BY <1>1, <1>12, <2>3 DEF ProcessStale, IInv, TypeOK
      <3>2. tries[k] + 1 <= MAX_DELIVERY_ATTEMPTS
        BY <1>2, <2>1, <2>3 DEF Retried, MAX_DELIVERY_ATTEMPTS
      <3>3. tries'[k] = tries[k] + 1
        BY <1>2, <3>1, <3>2, IncFacts
      <3>4. tries'[k] + stale'[k] = tries[k] + stale[k]
        BY <1>2, <3>1, <3>3
      <3>5. at[k] # "unpublished"
        BY <1>2, <2>1, <2>3 DEF Retried
      <3> QED
        BY <1>2, <2>1, <3>3, <3>4, <3>5 DEF Retried, MAX_DELIVERY_ATTEMPTS
    <2> QED
      BY <2>2, <2>3
  <1> QED
    BY <1>6, <1>7, <1>8, <1>9, <1>10, <1>11, <1>12 DEF Next, Handle

(* On a quorum queue a message is never tried a third time, and it reaches *)
(* the dead-letter queue with fewer than two attempts only after faults.   *)
THEOREM RetryLimitKept == Spec => []RetriesBounded
  <1>1. Init => InvRetried
    <2> SUFFICES ASSUME Init, NEW m \in Messages, QueueOf[m] # Dlq PROVE Retried(m)
      BY DEF InvRetried
    <2>1. /\ "unpublished" \notin Queues /\ QueueOf[m] # "unpublished" /\ Dlq # "unpublished"
      BY QueueAssumption
    <2> QED
      BY <2>1 DEF Init, Retried, MAX_DELIVERY_ATTEMPTS
  <1>2. IInv /\ InvRetried /\ [Next]_vars => InvRetried'
    <2>1. CASE UNCHANGED vars
      BY <2>1 DEF vars, InvRetried, Retried
    <2>2. CASE Next
      BY <2>2, RetriedNext DEF InvRetried
    <2> QED
      BY <2>1, <2>2
  <1>3. IInv /\ InvRetried => RetriesBounded
    <2> SUFFICES ASSUME IInv, InvRetried, NEW m \in Messages,
                        QueueType[QueueOf[m]] = "quorum", QueueOf[m] # Dlq
                 PROVE  /\ tries[m] < MAX_DELIVERY_ATTEMPTS
                        /\ at[m] = Dlq => tries[m] + faults >= MAX_DELIVERY_ATTEMPTS - 1
      BY DEF RetriesBounded
    <2>1. tries[m] \in Nat /\ stale[m] \in Nat
      BY CapFacts, BoundAssumption DEF IInv, TypeOK
    <2> QED
      BY <2>1 DEF InvRetried, Retried, MAX_DELIVERY_ATTEMPTS
  <1> QED
    BY <1>1, <1>2, <1>3, IInvInit, IInvNext, PTL DEF Spec
=============================================================================

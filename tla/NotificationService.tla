-------------------------- MODULE NotificationService --------------------------
(***************************************************************************)
(* The Notification Service (notification-service/consumer.py): it         *)
(* connects, declares and binds its queues one await after the other,      *)
(* registers a consumer on each, and writes one log line per message.      *)
(* Each message runs in a task of its own on one event loop; tasks         *)
(* interleave at the awaits of acknowledgements and rejects, with          *)
(* connection losses and with restarts of the process.                     *)
(*                                                                         *)
(* The broker is external.  On every event a queue delivers its oldest     *)
(* ready messages until its consumer holds Prefetch of them; a requeued    *)
(* message goes back to its place; only a quorum queue counts deliveries.  *)
(***************************************************************************)
EXTENDS Naturals, Sequences, FiniteSets

CONSTANTS
  Messages,   \* numbers, in the order of publication
  QueueSeq,   \* the queues in the order start_consumers binds them
  Dlq,        \* dlq.errors, one of them
  QueueOf,    \* the queue each message is routed to
  Declared,   \* queues that another service has declared and bound before
  Poison,     \* messages whose payload cannot be decoded
  QueueType,  \* each queue's type: the code leaves it to the broker's default
  Prefetch,   \* prefetch_count, per consumer
  MaxFaults   \* bound on connection losses and restarts

MAX_DELIVERY_ATTEMPTS == 3

Queues == {QueueSeq[i] : i \in 1..Len(QueueSeq)}

ASSUME MessageAssumption == Messages \subseteq Nat /\ Poison \subseteq Messages
ASSUME QueueAssumption ==
  /\ QueueSeq \in Seq(STRING)
  /\ Dlq \in Queues /\ Declared \subseteq Queues
  /\ QueueOf \in [Messages -> Queues]
  /\ {"unpublished", "lost", "done"} \cap Queues = {}
ASSUME BoundAssumption ==
  QueueType \in [Queues -> {"classic", "quorum"}] /\ Prefetch \in Nat \ {0} /\ MaxFaults \in Nat

VARIABLES
  setup,   \* how far start_consumers has come
  conn,    \* the connection is up
  bound,   \* queues that exist and are bound: durable
  at,      \* the queue a message is in, or what became of it
  held,    \* what the service does with its delivery
  count,   \* x-delivery-count, which only quorum queues maintain
  tries,   \* how often its own handler tried to process the message
  logs,    \* log lines that carry the message's content
  stale,   \* tasks of its own handler that outlived their connection
  staleDlq, \* the same for tasks of handle_dlq
  faults

vars == <<setup, conn, bound, at, held, count, tries, logs, stale, staleDlq, faults>>

(* The counters saturate: no guard or property looks beyond Cap. *)
Cap == MAX_DELIVERY_ATTEMPTS + 1
Inc(n) == IF n < Cap THEN n + 1 ELSE n

Init ==
  /\ setup = 0
  /\ conn = FALSE
  /\ bound = Declared
  /\ at = [m \in Messages |-> "unpublished"]
  /\ held = [m \in Messages |-> "no"]
  /\ count = [m \in Messages |-> 0]
  /\ tries = [m \in Messages |-> 0]
  /\ logs = [m \in Messages |-> 0]
  /\ stale = [m \in Messages |-> 0]
  /\ staleDlq = [m \in Messages |-> 0]
  /\ faults = 0

-----------------------------------------------------------------------------
(* The broker.                                                             *)

(* How many messages of m's queue come before m or are already out. *)
Ahead(m, where, out) ==
  Cardinality({k \in Messages : where[k] = where[m] /\ (out[k] # "no" \/ k < m)})

(* The deliveries of the queues with a consumer, when the messages are at  *)
(* where and out are the ones delivered before.                            *)
Drained(where, out, consuming) ==
  [m \in Messages |->
     IF where[m] \in consuming /\ out[m] = "no" /\ Ahead(m, where, out) < Prefetch
     THEN "delivered" ELSE out[m]]

Counted(S) == [m \in Messages |->
                 IF m \in S /\ QueueType[at[m]] = "quorum" THEN Inc(count[m]) ELSE count[m]]

(* The queues with a consumer after n steps of start_consumers. *)
ConsumedAfter(n) == {QueueSeq[i] : i \in {j \in 1..Len(QueueSeq) : j + Len(QueueSeq) <= n}}
Consuming == IF conn THEN ConsumedAfter(setup) ELSE {}

(* Producers publish with no mandatory flag: without a bound queue the     *)
(* exchange drops the message.                                             *)
Publish(m) ==
  /\ at[m] = "unpublished"
  /\ \A k \in Messages : k < m => at[k] # "unpublished"
  /\ at' = [at EXCEPT ![m] = IF QueueOf[m] \in bound THEN QueueOf[m] ELSE "lost"]
  /\ held' = Drained(at', held, Consuming)
  /\ UNCHANGED <<setup, conn, bound, count, tries, logs, stale, staleDlq, faults>>

-----------------------------------------------------------------------------
(* start_consumers: connect, then bind every queue, then consume from each. *)

Running == setup = 2 * Len(QueueSeq)

(* _connect_with_retry tries until it succeeds; a robust connection that   *)
(* was lost later restores its consumers.                                  *)
Connect ==
  /\ ~conn
  /\ conn' = TRUE
  /\ held' = Drained(at, held, ConsumedAfter(setup))
  /\ UNCHANGED <<setup, bound, at, count, tries, logs, stale, staleDlq, faults>>

SetUp ==
  /\ conn
  /\ ~Running
  /\ setup' = setup + 1
  /\ bound' = IF setup < Len(QueueSeq) THEN bound \cup {QueueSeq[setup + 1]} ELSE bound
  /\ held' = Drained(at, held, ConsumedAfter(setup + 1))
  /\ UNCHANGED <<conn, at, count, tries, logs, stale, staleDlq, faults>>

-----------------------------------------------------------------------------
(* The handlers.                                                           *)

(* Mutant: the header is ignored. *)
_delivery_count_ignored(m) == 1

_delivery_count(m) == count[m] + 1

(* Mutant: the limit is compared with > instead of >=. *)
ExhaustedLate(m) == at[m] # Dlq /\ _delivery_count(m) > MAX_DELIVERY_ATTEMPTS

Exhausted(m) == at[m] # Dlq /\ _delivery_count(m) >= MAX_DELIVERY_ATTEMPTS

(* _handle_with_retry gives up before it processes the message. *)
RejectExhausted(m) ==
  /\ held[m] = "delivered"
  /\ Exhausted(m)
  /\ at' = [at EXCEPT ![m] = Dlq]
  /\ held' = Drained(at', [held EXCEPT ![m] = "no"], Consuming)
  /\ count' = [count EXCEPT ![m] = 0]
  /\ UNCHANGED <<setup, conn, bound, tries, logs, stale, staleDlq, faults>>

(* Mutant: the line is logged, then the handler raises. *)
ProcessLogsThenRaises(m) ==
  /\ held[m] = "delivered"
  /\ ~Exhausted(m)
  /\ tries' = IF at[m] = Dlq THEN tries ELSE [tries EXCEPT ![m] = Inc(@)]
  /\ held' = [held EXCEPT ![m] = "failed"]
  /\ logs' = [logs EXCEPT ![m] = Inc(@)]
  /\ UNCHANGED <<setup, conn, bound, at, count, stale, staleDlq, faults>>

(* Mutant: an exception is logged and swallowed, not raised again. *)
ProcessSwallows(m) ==
  /\ held[m] = "delivered"
  /\ ~Exhausted(m)
  /\ tries' = IF at[m] = Dlq THEN tries ELSE [tries EXCEPT ![m] = Inc(@)]
  /\ held' = [held EXCEPT ![m] = "logged"]
  /\ logs' = IF m \in Poison /\ at[m] # Dlq THEN logs ELSE [logs EXCEPT ![m] = Inc(@)]
  /\ UNCHANGED <<setup, conn, bound, at, count, stale, staleDlq, faults>>

(* decode and log, up to the await of the acknowledgement or the reject.   *)
(* handle_dlq decodes with errors="replace" and cannot fail.               *)
Process(m) ==
  /\ held[m] = "delivered"
  /\ ~Exhausted(m)
  /\ tries' = IF at[m] = Dlq THEN tries ELSE [tries EXCEPT ![m] = Inc(@)]
  /\ IF m \in Poison /\ at[m] # Dlq
     THEN held' = [held EXCEPT ![m] = "failed"] /\ UNCHANGED logs
     ELSE held' = [held EXCEPT ![m] = "logged"] /\ logs' = [logs EXCEPT ![m] = Inc(@)]
  /\ UNCHANGED <<setup, conn, bound, at, count, stale, staleDlq, faults>>

(* message.process leaves normally: acknowledge. *)
Ack(m) ==
  /\ held[m] = "logged"
  /\ at' = [at EXCEPT ![m] = "done"]
  /\ held' = Drained(at', [held EXCEPT ![m] = "no"], Consuming)
  /\ UNCHANGED <<setup, conn, bound, count, tries, logs, stale, staleDlq, faults>>

(* message.process(requeue=True) leaves with the exception. *)
Requeue(m) ==
  /\ held[m] = "failed"
  /\ held' = Drained(at, [held EXCEPT ![m] = "no"], Consuming)
  /\ count' = Counted({m})
  /\ UNCHANGED <<setup, conn, bound, at, tries, logs, stale, staleDlq, faults>>

(* A task whose connection went away before it ran still decodes the       *)
(* payload and writes its line; what it then tells the closed channel has  *)
(* no effect.                                                              *)
ProcessStale(m) ==
  /\ stale[m] > 0
  /\ stale' = [stale EXCEPT ![m] = @ - 1]
  /\ tries' = [tries EXCEPT ![m] = Inc(@)]
  /\ logs' = IF m \in Poison THEN logs ELSE [logs EXCEPT ![m] = Inc(@)]
  /\ UNCHANGED <<setup, conn, bound, at, held, count, staleDlq, faults>>

ProcessStaleDlq(m) ==
  /\ staleDlq[m] > 0
  /\ staleDlq' = [staleDlq EXCEPT ![m] = @ - 1]
  /\ logs' = [logs EXCEPT ![m] = Inc(@)]
  /\ UNCHANGED <<setup, conn, bound, at, held, count, tries, stale, faults>>

-----------------------------------------------------------------------------
(* Failures.                                                               *)

HeldNow == {m \in Messages : held[m] # "no"}

(* A task that has not yet processed its message when the connection goes. *)
Outlives(m) == Running /\ held[m] = "delivered" /\ ~Exhausted(m)

(* The connection is lost: the broker requeues what is unacknowledged.     *)
(* During start_consumers the exception ends the process.                  *)
Disconnect ==
  /\ conn
  /\ faults < MaxFaults
  /\ faults' = faults + 1
  /\ conn' = FALSE
  /\ setup' = IF Running THEN setup ELSE 0
  /\ held' = [m \in Messages |-> "no"]
  /\ count' = Counted(HeldNow)
  /\ stale' = [m \in Messages |->
                 IF Outlives(m) /\ at[m] # Dlq THEN stale[m] + 1 ELSE stale[m]]
  /\ staleDlq' = [m \in Messages |->
                    IF Outlives(m) /\ at[m] = Dlq THEN staleDlq[m] + 1 ELSE staleDlq[m]]
  /\ UNCHANGED <<bound, at, tries, logs>>

(* Mutant: the queues are exclusive to the connection that declares them. *)
RestartUnbinds ==
  /\ conn
  /\ faults < MaxFaults
  /\ faults' = faults + 1
  /\ conn' = FALSE
  /\ setup' = 0
  /\ bound' = Declared
  /\ held' = [m \in Messages |-> "no"]
  /\ count' = Counted(HeldNow)
  /\ stale' = [m \in Messages |-> 0] /\ staleDlq' = [m \in Messages |-> 0]
  /\ UNCHANGED <<at, tries, logs>>

(* The process dies and is started again. *)
Restart ==
  /\ conn
  /\ faults < MaxFaults
  /\ faults' = faults + 1
  /\ conn' = FALSE
  /\ setup' = 0
  /\ held' = [m \in Messages |-> "no"]
  /\ count' = Counted(HeldNow)
  /\ stale' = [m \in Messages |-> 0] /\ staleDlq' = [m \in Messages |-> 0]
  /\ UNCHANGED <<bound, at, tries, logs>>

-----------------------------------------------------------------------------
Handle(m) == RejectExhausted(m) \/ Process(m) \/ Ack(m) \/ Requeue(m)

Next ==
  \/ Connect \/ SetUp \/ Disconnect \/ Restart
  \/ \E m \in Messages : Publish(m) \/ Handle(m) \/ ProcessStale(m) \/ ProcessStaleDlq(m)

Spec == Init /\ [][Next]_vars

(* The event loop runs every task, the connection is retried without end,  *)
(* the orchestrator restarts the process.  Producers promise nothing.      *)
Fairness ==
  /\ WF_vars(Connect) /\ WF_vars(SetUp)
  /\ \A m \in Messages : WF_vars(Handle(m))

FairSpec == Spec /\ Fairness

-----------------------------------------------------------------------------
(* Properties.                                                             *)

(* Every variable keeps its type, and a delivery is open only on a live    *)
(* connection and for a message still in its queue: what is acknowledged   *)
(* or rejected is no longer in a handler (message.process).                *)
TypeOK ==
  /\ setup \in 0..(2 * Len(QueueSeq)) /\ conn \in BOOLEAN
  /\ bound \subseteq Queues
  /\ at \in [Messages -> Queues \cup {"unpublished", "lost", "done"}]
  /\ held \in [Messages -> {"no", "delivered", "logged", "failed"}]
  /\ count \in [Messages -> 0..Cap] /\ tries \in [Messages -> 0..Cap]
  /\ logs \in [Messages -> 0..Cap]
  /\ stale \in [Messages -> 0..MaxFaults] /\ staleDlq \in [Messages -> 0..MaxFaults]
  /\ faults \in 0..MaxFaults
  /\ \A m \in Messages : held[m] # "no" => conn /\ at[m] \in Queues

(* The service settles no message whose content it has not logged, in the  *)
(* handler of its queue or in handle_dlq, whatever disconnect or restart   *)
(* comes between the log line and the acknowledgement.                     *)
SettledWasLogged == \A m \in Messages : at[m] = "done" => logs[m] > 0

(* A message appears twice in the log only after a connection loss or a    *)
(* restart: retrying never repeats the line of a message that succeeded.   *)
DuplicateNeedsFault == \A m \in Messages : logs[m] > 1 => faults > 0

(* On a quorum queue the limit leaves a message two attempts, never three  *)
(* (the delivery that reaches MAX_DELIVERY_ATTEMPTS is not processed), and *)
(* a message goes to dlq.errors with fewer only when connection losses and *)
(* restarts have used up deliveries (_handle_with_retry).                  *)
RetriesBounded ==
  \A m \in Messages :
    QueueType[QueueOf[m]] = "quorum" /\ QueueOf[m] # Dlq =>
      /\ tries[m] < MAX_DELIVERY_ATTEMPTS
      /\ at[m] = Dlq => tries[m] + faults >= MAX_DELIVERY_ATTEMPTS - 1

(* Only messages published before the service first bound their queue are  *)
(* dropped by the exchange: once one message of a queue was routed, no     *)
(* later one is lost, through disconnects, restarts and repeated set-ups   *)
(* (start_consumers declares the queues durable).                          *)
NoLossAfterBinding ==
  \A k, m \in Messages :
    (k < m /\ QueueOf[k] = QueueOf[m] /\ at[k] \notin {"unpublished", "lost"})
      => at[m] # "lost"

(* With fewer undecodable messages than the prefetch count, every valid    *)
(* message that reached a queue is logged and settled, although on a       *)
(* classic queue the undecodable ones circle through it for ever; and on a *)
(* quorum queue the retry loop ends for every message, through the         *)
(* dead-letter queue and handle_dlq for an undecodable one.                *)
Settles ==
  \A m \in Messages :
    (at[m] \in Queues /\ (m \notin Poison \/ QueueType[QueueOf[m]] = "quorum"))
      ~> (at[m] = "done")

(* test_handle_congestion_alert_sends_to_dlq_after_max_attempts: a message *)
(* that keeps failing is sent to the dead-letter queue.  Refuted for       *)
(* classic queues, the broker's default: they set no x-delivery-count.     *)
PoisonDeadLettered ==
  \A m \in Poison : (at[m] \in Queues) ~> (at[m] \in {Dlq, "done"})
=============================================================================

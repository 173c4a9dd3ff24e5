# HarborSync in TLA+

TLA+ models of the HarborSync services, TLC configurations that check them on
small instances, and TLAPS proofs of their safety properties for every instance. Source paths
are relative to `src/`.

## The system

HarborSync watches a container port. Drones post telemetry; congested sectors
become alerts; an alert becomes a task for a crane or a team, and reserves the
berth of an arriving vessel; every event ends as a log line. Six services talk
over one direct RabbitMQ exchange and a little HTTP:

    simulator --HTTP--> Telemetry --telemetry.processed--> Congestion Analysis
                            |                                    |
                          Redis                          congestion.alert
                                                       /         |         \
                                 (congestion.alert,     Task Assignment    Notification
                                  no consumer)             |   |   |           |
                                                 PostgreSQL|   |   |task.*   log file
                                                           |  HTTP |
                    operators --gateway--HTTP--> Vessel Service ---+--vessel.*

| Component | State | Operations | Hard behaviours | What makes it correct |
|---|---|---|---|---|
| Task Assignment (`task-assignment-service`) | tasks table; a saga per delivery | `handleAlert`, `completeTask` | concurrent listeners, redelivery, a compensation in the outage that caused it, HTTP timeouts, commit after publish | no alert lost, one task per delivery, rows agree with events, reservations are kept and owned |
| Vessel Service (`vessel-service`) | vessels table; a transaction per request | `register`, `updateStatus`, `reserveBerth`, `releaseBerth` | check-then-insert, event before commit, whole-row updates without a version | unique IMO numbers, no unannounced change |
| Notification Service (`notification-service`) | connection, queue set-up, deliveries in hand | `start_consumers`, the `handle_*` coroutines | retry limit from a broker header, prefetch, reconnects, restarts | nothing settled unlogged, no spurious duplicates, everything settles |
| Telemetry Service (`telemetry-service`) | one AMQP connection, Redis state per drone | `connectRabbitMQ`, `handleIngest` | overlapping requests, late Redis commands, lost connection | truthful answers, no state from the past, always back in service |
| go-redis client (`.gomodcache/.../go-redis/v9@v9.5.1`) | connection pool, turns, dial-error count | `process`, `Get`, `Put`, `Remove`, `initConn`, `tryDial` | timeouts, retries, cancelled requests, replies that arrive late | connections have one owner, the pool keeps its bound, an answered SET was executed |
| amqp091-go client (`.gomodcache/.../amqp091-go@v1.10.0`) | one connection, one channel, three locks, the write buffer | `Publish`, `call`, `reader`, `heartbeater`, `shutdown` | lock order, frames of concurrent publishes, flow control, a shutdown under a publish | frames of a publishing stay together, results are truthful, locks come free |
| Congestion Analysis (`congestion-analysis`) | none beyond the delivery in hand | `onTelemetryReceived`, `evaluate`, `publish` | failing publish, redelivery, thresholds | no alarm swallowed, one alert per delivery, worse is never milder |
| API Gateway, correlation ids, log format, simulator, manifests, report generator | stateless or outside the event flow | - | - | see "Not modelled" |

The components share RabbitMQ (queues, exchange, outages), the saga calls the
Vessel Service synchronously, and each service has its own database. The two Go
libraries are kept in the repository's module cache and run inside the Telemetry
Service.

## Modules

| Module | Models | Notes |
|---|---|---|
| `VesselOps` | what a write operation does to a vessel row, and which event a status announces | used by the next two |
| `TaskAssignment` | listener and saga | the Vessel Service's operations are atomic here |
| `VesselService` | the Vessel Service's transactions | read, publish and commit are separate steps |
| `VesselRegistry` | the registry that the transactions promise to be | abstract; `VesselService` implements it |
| `NotificationService` | set-up, handlers, dead-letter handler | the broker's delivery rule is external |
| `TelemetryService` | start-up and ingest | Redis and the AMQP connection are external |
| `CongestionAnalysis` | listener, rules, publication of alerts | the queues behind the exchange are not in it |
| `Pipeline` | Telemetry, Congestion Analysis and Task Assignment on one broker | composes the three modules with INSTANCE |
| `RedisClient` | go-redis as the Telemetry Service uses it: pool and retry loop | what Redis and the network do is external |
| `AmqpConnection` | amqp091-go as the Telemetry Service uses it: set-up, publish, reader, heartbeat, shutdown | the broker and the socket are external |
| `TaskAssignmentProofs`, `NotificationServiceProofs`, `CongestionAnalysisProofs`, `VesselServiceProofs`, `TelemetryServiceProofs`, `AmqpConnectionProofs`, `RedisClientProofs` | theorems about the module they are named after | |
| `PipelineProofs` | theorems about the composition | instantiates the proofs of its three components |
| `MC*` | instances for TLC | |

### TaskAssignment

`saga[c]` holds the locals of `handleAlert` in listener thread `c`: the step, the
alert, `vesselToReserve`, whether `reservedVesselId` is set, the saved task.
`live` says that the delivery can still be acknowledged. One action per call that
can fail or be overtaken: `Receive`, `ThrowEarly` (validation, or no
transaction), `ListVessels`, `ReserveBerth[Fails]`, `SaveTask`,
`PublishCreated[Throws]`, `ReleaseBerth[Fails]`, `PublishFailed`,
`Commit[Fails]`, `Ack`. The INSERT is flushed at the commit, so a row appears in
`tasks` there. The query for arriving vessels has no ORDER BY, so any candidate
can be first. `delivery` and `vessel` in a task row are history fields, and so are
the variables `touched` (vessels an operator wrote to), `contended` (vessels a
saga chose while another was about to reserve them) and `compensated` (vessels a
compensation set out to release).

The listener container rejects without requeue on an exception: the container
factory is built by hand, so the retry settings of `application.yml` do not
apply. A publish has no confirm: in an outage it throws, or its message vanishes
(`unconfirmed`). An HTTP call that timed out, or whose caller crashed, goes to
`late` and is executed at any later time or never. The circuit breaker appears
as its effect: `ListVessels` may return the empty fallback list at any time.
A sector longer than its column reaches the INSERT because nothing upstream
bounds it.

### VesselService

A thread's transaction reads, publishes (`publish`, `publishThrows`) and commits
(`Commit`, `CommitFails`). `entity` is the managed entity; the UPDATE writes all
its columns, unless it is as it was read (`dirty`). READ COMMITTED is the
database's default. `writer` is a history field. Requests refused by bean
validation change nothing and are left out.

### VesselRegistry

The abstract specification: write requests take effect one at a time, each at
most once and at one moment between its arrival and its answer; "ok" means that
it did, "error" leaves it open. An update that names no berth writes the berth
the vessel had when the request arrived, and no more: that is how far the
whole-row UPDATE without a version column falls short of an atomic operation.
The refinement maps committed rows to `vessels`, open transactions to `pending`
and responses to `answer`. `TaskAssignment` relies on this specification where
it takes a call of the Vessel Service as one step.

### NotificationService

`setup` counts the binds and consumes of `start_consumers`. `at[m]` is where a
message is, `held[m]` what the service is doing with its delivery. Handlers are
atomic between awaits: `Process` runs to the await of the acknowledgement or
reject. The queues are declared without `x-queue-type`, so they have the
type that was the virtual host's default when they were first declared: classic
unless the broker is configured otherwise. Only quorum queues set
`x-delivery-count`, on which `_handle_with_retry` relies; `QueueType` gives each
queue its type, so that both are checked. A task that was created for a delivery
and has not run when the connection dies still runs: `ProcessStale` is that of a
queue's handler, which counts as an attempt and logs, `ProcessStaleDlq` that of
`handle_dlq`, which logs also what cannot be decoded; neither settles anything.
The type invariant includes that a delivery is in the service's hands only on an
open channel and while its message is still in a queue.

### TelemetryService

`conn` distinguishes a connection whose loss is not noticed yet (`stale`): a
write to it succeeds and the event is gone. Nothing reopens a closed one.
`HangUp` is the client's timeout; the AMQP client ignores the cancelled context
and the handler goes on. `late` are SET commands go-redis gave up on; a command
goes there only when a reply missed its deadline (`overdue`), which is what
`LateOnlyIfOverdue` of `RedisClient` checks of the library. `torn` are events that
got through although Publish returned an error, because the heartbeater's flush
had carried them: `AmqpConnection` shows that this can happen, and
`AnswersTruthful` allows a 502 for them. `published`, `stored` and `after` are
history.

### CongestionAnalysis

`evaluate` compares fractions instead of doubles; the module says why that is
exact. `alerts` are those that reached the exchange; the exchange itself is in
`Pipeline`.

### Pipeline

The three components keep their variables and actions; outages and the bound on
faults are shared, `PublishEvent` puts what `handleIngest` published into the
queue that Congestion Analysis consumes, and `PublishAlert` routes an alert to
the queue of the saga. That queue exists once the Task Assignment Service has
first connected (`BindAlertQueue`); an alert published before is dropped
(`unrouted`), as Docker Compose gives no start order between the services.

### RedisClient

One goroutine per SET (`pc[c]`): it takes a turn (`waitTurn`), pops an idle
connection and checks its health, or dials and initialises a new one, writes,
reads the reply, releases the connection, frees the turn and perhaps retries. A
connection is known by an identity that can be used again after it was closed;
`sent`, `arrived` and `rd` are the commands on their way, the replies in the
socket and those already in the read buffer. `dialErrorsNum` and `tryDials`
model the gate that fails dials fast after PoolSize errors until a background
dial succeeds. The deadline of a read, a restart of Redis and a client that
leaves are faults. A write can miss its deadline on a live connection as well as
on a broken one (`ioFails`), and the connection is then removed with the command
unsent. A READONLY reply is a reply after which the connection is not used again
(`isBadConn`).

The error of the CLIENT SETINFO pipeline in `initConn` is ignored. When its
replies miss the deadline the connection is used with replies owed (`skewed`), a
SET takes another reply for its own (`misled`), and so does every later command
on that connection. `OkIsExecuted` shows that this is the only way in which a SET
can be reported as done that Redis has not executed.

### AmqpConnection

Goroutines: `main` (newRabbitPublisher: three handshake calls, channel.open, four
declarations, and Close after a failure; after the second call `openTune` takes
Connection.m to set the tuned parameters and starts the heartbeater), one per publish, the reader, the
heartbeater, and the two destructors started by `shutdown`. The locks
Connection.m, Channel.m and Connection.sendM are variables that hold their owner.
`buf` is the shared write buffer with its sticky error, `wire` what the kernel
took. A socket is distinguished by whether a write to it returns.

Two things the runs show of the library: Publish can return an error for a
publishing that was sent in full, when another goroutine's flush carried it
(`helped`); and since no write deadline is set, a write blocked by the broker's
flow control holds Channel.m, so that `shutdown`, holding Connection.m, waits
until the broker reads again or the socket dies. `LocksComeFree` says that it
waits no longer than that.

## Runs

Passing runs:

| Run | Instance | Properties |
|---|---|---|
| `saga_contention` | 2 listeners, 2 alerts, 2 vessels, 1 berth, 2 task ids, 1 fault, 1 operator write | `PendingAnnounced`, `ReservationHeld`, `OneBerthPerFault`, `OnePhantomPerFault`, `OneDeadLetterPerFault` |
| `saga_two_listeners` | 2 listeners; a good, an invalid and an oversized alert; no vessel, 4 task ids, 1 fault | `AlertNotLost`, `OneTaskPerDelivery`, `AlertsSettle` |
| `vessel_safety` | 2 threads, 1 IMO number, 2 vessel ids, 4 requests, 1 fault | `UniqueImo`, `AnnouncedState`, `AnnouncedOrRefused`, `ImplementsRegistry` |
| `notify` | a classic queue with an undecodable and a valid message, a quorum queue with an undecodable one, prefetch 2, 2 faults | `SettledWasLogged`, `DuplicateNeedsFault`, `RetriesBounded`, `NoLossAfterBinding`, `Settles` |
| `telemetry` | 3 requests (2 of one drone, 1 with capacity 0), 2 connect attempts, 1 fault | `TypeOK`, `AnswersTruthful`, `NoStateFromThePast`, `ServesAgain`, `EveryRequestEnds` |
| `congestion` | 2 listeners, 5 events around the thresholds, 1 fault | `AlarmNotSwallowed`, `OneAlertPerDelivery`, `WorseNotMilder`, `EventsSettle` |
| `pipeline` | 1 alarming report, 1 analysing and 2 assigning listeners, any start order, 1 fault | `AcceptedIsAccounted`, `DuplicateNeedsFault`, `AcceptedSettles`, `AcceptedGetsTask` |
| `redis` | PoolSize 2, 2 SETs, 1 retry, 3 connection identities, 1 fault | `OneOwner`, `PoolBounded`, `GateHasDialer`, `OkIsExecuted`, `LateOnlyIfOverdue`, `CommandsEnd` |
| `amqp` | set-up, 2 publishes, 2 heartbeats, 2 faults | `FramesTogether`, `ResultsTruthful`, `CallsReturn`, `LocksComeFree` |

What they show, beyond the names: `saga_*` and `congestion`, that each delivery is
settled once, in the queue, the dead-letter queue or a row, whatever fails in
between. `saga_contention`, what two replicas do to each other and what a fault
costs: nothing but an operator, or a compensation for a vessel that both sagas had
chosen, takes a reserved berth from a pending task; and one crash, late call,
failed call or failed commit strands at most one vessel, leaves at most one
announced task without a row and dead-letters at most one acceptable alert.
`vessel_safety`, that check-then-insert and overlapping whole-row updates do what
a registry of atomic requests does, that every committed change was announced, and
that what was announced in vain belongs to a request still open or answered with
an error. `pipeline`, that a report answered with 202 either ends visibly or
vanishes in one of three named ways, and that each service lets pass what the next
requires. `redis` and `amqp`, that what `TelemetryService` assumes of its two
libraries is what their code does; in `redis` two goroutines have a turn, dial,
retry and count dial errors at the same time.

Violation runs, where TLC refutes what a document or a test says (quoted under
`findings` in `PROJECT.json`):

| Run | Property refuted | What happens |
|---|---|---|
| `saga_compensation` | `FailedTaskHoldsNoBerth` | the outage that fails task.created fails releaseBerth too |
| `notify_poison` | `PoisonDeadLettered` | classic queues never count deliveries |
| `telemetry_reconnect` | `UpMeansConnected` | the lost connection is never reopened |

### Known disagreements without a run

Met while modelling; the behaviour is in the modules, the claim is not stated as
a property:

- HarborSync_Gelistirici_Elkitabi.md:1465 says that a failure of any step leaves
  the task recorded as FAILED ("Herhangi bir adımda hata → görev FAILED olarak
  kaydedilir"). task.created is sent before the INSERT, and a task whose commit
  fails has no row at all (`CommitFails`); no fault is needed when its sector is
  longer than the column. `OnePhantomPerFault` bounds what is left.
- The retry settings in the `application.yml` of Task Assignment and of Congestion
  Analysis (`max-attempts: 3`) are not in effect, because the container factory is
  built by hand and gets no advice chain: the first exception rejects the delivery
  (`Reject`, `publishThrows`). `OneDeadLetterPerFault` bounds what that costs.
- task.failed is published once, in the outage that failed task.created, and a
  failure is only logged (`PublishFailed`).
- Of two concurrent registrations of one IMO number the loser is answered with
  500 where the collection tests expect 409 (`Answer`, `CommitFails`).
- docs/event-contracts.md:97 and :116 name registration and the update to DOCKED as
  the producers of vessel.arrived and vessel.docked; the events are sent before the
  commit (VesselService.java:88) and stay when the transaction is rolled back. Of
  two concurrent registrations of one IMO number both announce a vessel and one is
  rolled back, without any fault; `AnnouncedOrRefused` states what does hold.
  Events of two overlapping updates can go out in the opposite order of their
  commits.
- README.md:154 says the Telemetry Service "stores latest drone state in Redis";
  the SET is unconditional (main.go:234), and of two overlapping requests of one
  drone the older may write last (`Store`).
- README.md:221 expects a task after a critical report; an alert published before
  the Task Assignment Service has first bound its queue is dropped by the exchange
  (`PublishAlert`, `unrouted`).
- docs/event-contracts.md names registration as the producer of vessel.arrived;
  `releaseBerth` and `updateStatus` send it too.
- `releaseBerth` clears the berth, so a released vessel is not a candidate of the
  saga again until an operator assigns one (`releaseBerth`, `Candidates`).
- consumer.py logs "failed after 3 attempts" for a message that was processed
  twice (`RetriesBounded` states what it does).
- An alert published before the Notification Service first bound its queue is
  dropped (`at[m] = "lost"`), and the queue congestion.alert, which nothing
  consumes, keeps a copy of every alert.

Bounds. Two faults, in the runs of the notifications and of amqp, allow every pair
of failures in one run: two redeliveries, a disconnect after a restart, a failing
heartbeat around a broken write. The other runs have one, which already brings
several effects: an outage during which calls time out, a crash with a redelivery;
what two of them do to the saga and to the pool is left to the theorems, which hold
for any number. Two alerts, events or messages compete for one vessel, queue or
prefetch window; the extra task ids make room for redeliveries. In
`saga_contention` each of two listeners can choose either of two vessels, so that
one fault could cost two of them. `saga_two_listeners` has no vessels, because
what it checks does not mention them and its safety properties are proved for every
instance; what it adds is liveness with two threads. Four vessel requests are two
registrations of the same IMO number and two writes that overlap.
`ConnectAttempts` is 30 in the code and 1 or 2 in the instances; only the last
attempt differs from the others. In `redis` both commands can have a turn at once,
which is what the counters and the gate are about, and a third connection identity
lets one be replaced while the other two are in use. Two heartbeats suffice for one
that helps a publish and one that fails. Counters of the notification model
saturate above the attempt limit. Task ids, vessel ids, replicas and the like are
symmetric in safety runs; no liveness run uses symmetry. Deadlock is not checked:
clients, alerts and faults are finite, and when they are used up the system rests.

`ReservationHeld` is stated for any number of listeners, although the manifests
deploy one replica. It leaves out vessels that two sagas chose before either had
reserved them and that a compensation then released (`contended` and
`compensated`): there the compensation of one saga does take the other's berth. No
document claims otherwise. With one listener nothing is ever contended. It also
leaves out vessels an operator has written to: the berth a saga read may overwrite
the operator's, and no document says which should win.

Fairness. Weak fairness of each listener thread, request, coroutine or goroutine:
an HTTP call of the saga is bounded by 10 s, and a go-redis call by the deadlines
of its dials, reads, writes and of the wait for a turn, which `CommandsEnd`
checks. A publish of amqp091-go has no deadline: it returns provided that the
broker's flow control ends or the kernel gives up on a lost peer
(`brokerUnblocks`, `connectionReset`), which `LocksComeFree` checks under this
assumption. Weak fairness of the broker's return, of reconnecting (Spring AMQP
and aio-pika do it, `_connect_with_retry` loops for ever, Docker restarts the
Telemetry Service), and of detecting a lost connection by heartbeat. Faults,
requests and publications are never forced.

## Proofs

Every invariant of every passing run, and the refinement `ImplementsRegistry`, is
a theorem: it holds for any sets of alerts, vessels, messages, requests, threads
and connections and any numbers of faults, not only for the instances above. The
assumptions are those the models name and the code gives: `None` is none of the
ids, the given functions are typed, bounds are naturals, goroutine names differ.

Each proof has the same shape: an inductive invariant; one step per action; lemmas for what several actions share; and a
last step that combines them. What follows is what each invariant adds to the
properties, and why they do not hold up without it.

**`TaskAssignmentProofs`**: `TypeCorrect`, `NoAlertLost` (`AlertNotLost`),
`OneTaskEach` (`OneTaskPerDelivery`), `EventsAgree` (`EventsExclusive`),
`PendingIsAnnounced` (`PendingAnnounced`), `ReservationIsHeld`
(`ReservationHeld`), `BerthsLostByFaults` (`OneBerthPerFault`), `PhantomsByFaults`
(`OnePhantomPerFault`) and `DeadLettersByFaults` (`OneDeadLetterPerFault`). `IInv` says
what a thread relies on at each step. `InvHeld`: the fields a step uses are set.
`InvDelivery` and `InvApart`: the delivery a thread works on has been counted,
and no two threads work on one delivery, even after an outage has put an alert
back that a thread still holds; without this, two threads could commit rows for
one delivery. `InvTask`, `InvRows`: a generated id belongs to one thread.
`InvUncommitted`: before the commit the delivery has no row. `InvCommitted`: at
the acknowledgement there is a row, so that settling the alert does not lose it.
`InvEvents`: which of the two events can have been sent at each step, which makes
them exclusive. `SafeNext` says the same of a single alert, for the composition.

The three theorems on what a fault costs share `GrowsByFaults`: a finite set to
which a step adds only if it spends a fault, and then only an element of the one
thread that moves, never has more elements than there were faults. `Phantoms` and
dead letters are such sets as they stand. Stranded vessels are not: the fault is
spent when the caller gives up and the vessel is stranded later, so `LostBounded`
counts the vessels that are stranded or can still be by a call given up (`Adrift`,
`AdriftNext`).

`ReservationHeld` has two invariants of its own, for the two ways in which a
vessel is undisturbed. `InvReserved`: a thread has a reservation only after
`reserveBerth`, and its row keeps it. `InvAgreed` follows a vessel that neither an
operator nor a compensation has disturbed: the sagas that chose it, the calls
given up and the tasks all name the berth it has. `InvVesselHeld` follows one that
no operator has written to and no two sagas contended for, so that it has one owner
at a time: it is berthed where its pending rows say (`PendingRows`), the saga about
to reserve it knows that berth and that no release is on its way (`Owns`,
`OwnerKnows`), and a call executed late is harmless, since a late reservation
repeats the berth and a late release finds no pending task (`LateCallsHarmless`).

**`VesselServiceProofs`**: `TypeCorrect`, `ImoUnique` (`UniqueImo`),
`ChangesAnnounced` (`AnnouncedState`), `AnnouncedAccounted`
(`AnnouncedOrRefused`) and `RegistryImplemented` (`Spec =>
ImplementsRegistry`). `InvRequests`: a running transaction has a request number
of its own, not answered yet. `InvIds`: a registration holds an id that nobody
else has, any other transaction a row that exists and keeps its IMO number.
`InvEntity`: what each operation makes of the row it read. `InvAnnounced`: a
transaction at its commit has sent its event. `InvAccounted`: an event that has been
sent belongs to a transaction that is open, has committed, or ended in an error.
For the refinement, a request that
begins is the registry's submission (`SubmitRefines`), a commit is the moment at
which the pending request takes effect together with its answer (`CommitApplies`),
a transaction that ends without a write is an answer (`EndRefines`), and a crash
fails every request in progress (`CrashRefines`); every other step leaves the registry as it is (`StepRefines`).

**`NotificationServiceProofs`**: `TypeCorrect`, `NothingSilentlySettled`
(`SettledWasLogged`), `DuplicatesNeedFaults` (`DuplicateNeedsFault`),
`NothingLostAfterBinding` (`NoLossAfterBinding`) and `RetryLimitKept`
(`RetriesBounded`), for any messages, queues, queue types and prefetch count. The
line is written before the acknowledgement is attempted (`LoggedFirst`); without
a fault a logged message is at its acknowledgement or settled and no handler is
stale (`OnceWithoutFault`); a stale handler is charged to a fault
(`StaleBounded`); a message was routed only to a bound queue (`InvBound`); and on
a quorum queue the attempts of `_handle_with_retry` and the broker's count differ
only by the attempt under way, by handlers that outlived their connection and by
deliveries that a fault took (`InvRetried`).

**`CongestionAnalysisProofs`**: `TypeCorrect`, `NoAlarmSwallowed`
(`AlarmNotSwallowed`), `AlertsCounted` (`OneAlertPerDelivery`) and
`WorseIsNotMilder` (`WorseNotMilder`). An event is acknowledged only after its
alert has left (`InvServed`), the alerts at the exchange are those the rules give
(`InvAlerts`), the event is somewhere (`InvPlace`), and the alerts sent together
with the threads that may still send one are no more than the deliveries
(`InvDeliveries`): an outage can hand an event to a second thread while the first
is still about to publish, so that the property alone is not preserved.
`ExceedsMonotone` and `EvaluateMonotone` are the facts about the thresholds.

**`TelemetryServiceProofs`**: `TypeCorrect`, `AnswersAreTruthful`
(`AnswersTruthful`) and `NoPastState` (`NoStateFromThePast`). Only validated
requests reach Redis and RabbitMQ (`InvValid`); while a handler runs nobody has an
answer and the event is nowhere (`InvRunning`); what had ended when a request
arrived has ended, and a SET is late only if it missed its deadline (`InvPast`).

**`RedisClientProofs`**: `TypeCorrect`, `ConnectionHasOneOwner` (`OneOwner`),
`PoolIsBounded` (`PoolBounded`), `ClosedGateHasDialer` (`GateHasDialer`),
`OkMeansExecuted` (`OkIsExecuted`) and `LateIsOverdue` (`LateOnlyIfOverdue`). The
pool is proved by itself (`IPool`): `InvOwner` states ownership without counting,
`InvPool` counts the goroutines that have a turn and keeps room for those that
are about to dial. On top of it `InvWire` says that a connection is either in step,
that is, carries nothing but the command of its owner or the reply to it
(`InStep`), or is skewed and used only by commands that are counted as misled;
`InvResult` what a command has learnt; and `InvCount` that executions, SETs left
on closed connections (`strays`) and SETs under way are no more than the attempts
begun.

**`AmqpConnectionProofs`**: `TypeCorrect`, `PublishingsUnbroken`
(`FramesTogether`) and `ResultsAreTruthful` (`ResultsTruthful`). `TypeOK` includes
who owns which of the three locks at which step. `InvFrames`: an incomplete
publishing is the last thing in the stream and its publisher is about to send the
frame that follows, or the write buffer has its sticky error, or the connection is
closed, and nothing follows. `InvBody`: what a publish knows at each step about
its last frame, which is why an error for a publishing that was sent in full
needs another goroutine's flush.

**`PipelineProofs`**: `AcceptedAccounted` (`AcceptedIsAccounted`) and
`DuplicatesNeedFaults` (`DuplicateNeedsFault`). The proofs of the three components
are instantiated: their assumptions follow from those of `Pipeline` (what passes
`validateTelemetry` is what `evaluate` requires, `CongAssumptions`), and a step of
one component preserves the invariants of the others, since it touches only a
queue and the count of faults. What is added links the queues: what
`handleIngest` published is in the care of Congestion Analysis (`EventsPlaced`),
the first alert of a report is in that of the saga or was not routed
(`AlertsPlaced`), and without a fault each message is delivered once
(`OnceWithoutFault`).

Only model-checked: the liveness properties (`AlertsSettle`, `Settles`,
`ServesAgain`, `EveryRequestEnds`, `EventsSettle`, `AcceptedSettles`,
`AcceptedGetsTask`, `CommandsEnd`, `CallsReturn`, `LocksComeFree`), because the
prover has neither fairness nor ENABLED. Proved and not repeated in a run: the type
invariants of every module but `TelemetryService`, and `EventsExclusive`.

## Not modelled

- API Gateway: a stateless chain of filters; the rate limiter's state lives in
  Spring Cloud Gateway's Redis script.
- Resilience4j's window, open and half-open states: only the fallback they lead
  to.
- The rest of the two Go libraries. Most of their lines are the methods of the
  other Redis commands, the cluster, sentinel, pipeline and pub/sub clients, and
  the generated encoding of AMQP frames: the Telemetry Service calls none of the
  former, and the latter decide nothing. Of the code it does run, left out are
  `MinIdleConns` and the other options it leaves at zero, consumers, confirms and
  transactions of a channel, TLS and URI parsing.
- Correlation ids, log format and rotation, response bodies: no decision
  depends on them.
- Kubernetes manifests and Compose files, except restart policy and replica
  counts; the simulator's random payloads, which are inputs; the report
  generator.

## Plan

1. `CircuitBreaker`: the window of `application.yml` with the client's calls.
2. The gateway's filter order.

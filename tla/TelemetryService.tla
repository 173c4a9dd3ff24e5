--------------------------- MODULE TelemetryService ---------------------------
(***************************************************************************)
(* The Telemetry Service (telemetry-service/main.go).  Each POST           *)
(* /telemetry/ingest runs in a goroutine of its own: it validates the      *)
(* payload, writes the drone's state to Redis, publishes                   *)
(* telemetry.processed on the one AMQP channel of the process and answers. *)
(* The steps of concurrent requests interleave with the expiry of Redis    *)
(* keys, commands Redis executes after go-redis gave up on them, clients   *)
(* that hang up, broker outages and process crashes.                       *)
(***************************************************************************)
EXTENDS Integers

CONSTANTS
  Requests,         \* the ingest requests clients send
  PayloadOf,        \* the payload of each request
  Drones,           \* drone ids
  None,             \* no state; also a blank drone id
  ConnectAttempts,  \* tries of connectRabbitMQ: 30 in the code
  MaxFaults         \* bound on outages, crashes and late Redis commands

(* A sector is "blank", "fits" the 20 characters of the tasks table, or is *)
(* "long"; timestamp is 0 when blank, otherwise its order is the order of  *)
(* the measurements; vesselEta says whether the string has text.           *)
RawTelemetryPayload ==
  [json : BOOLEAN, droneId : Drones \cup {None}, sector : {"blank", "fits", "long"},
   containerCount : Int, capacity : Int, blockageDetected : BOOLEAN, vesselEta : BOOLEAN,
   timestamp : Nat]

ASSUME PayloadAssumption == PayloadOf \in [Requests -> RawTelemetryPayload]
ASSUME NoneAssumption == None \notin Requests \cup Drones
ASSUME BoundAssumption == MaxFaults \in Nat /\ ConnectAttempts \in Nat \ {0}

VARIABLES
  brokerUp,     \* RabbitMQ is reachable
  proc,         \* "connecting", "serving" (/health answers UP) or "dead"
  attempt,      \* the attempt of connectRabbitMQ
  conn,         \* the AMQP connection: "open", "stale" (lost, unnoticed), "closed"
  step,         \* the step each request's goroutine is at
  answer,       \* what the client of each request got
  redis,        \* the request whose payload is under drone:<id>, or None
  late,         \* requests whose SET go-redis gave up on, not yet executed
  published,    \* requests whose event is in telemetry.processed
  unconfirmed,  \* requests whose event was written to a lost connection
  torn,         \* history: requests whose event got through, though Publish failed
  stored,       \* history: requests whose SET was executed in time
  overdue,      \* history: requests with a SET whose reply missed its deadline
  after,        \* history: the requests that had ended when each one arrived
  faults

procVars == <<proc, attempt, conn>>
reqVars  == <<step, answer, after>>
stateVars == <<redis, late, stored, overdue>>
sentVars == <<published, unconfirmed, torn>>
vars == <<brokerUp, procVars, reqVars, stateVars, sentVars, faults>>

Step == {"unsent", "received", "store", "publish", "done"}
Answer == {"none", "202", "400", "502", "hangup"}

-----------------------------------------------------------------------------
(* Mutant: the capacity is not checked. *)
validateTelemetryNoCapacity(p) ==
  /\ p.droneId # None
  /\ p.sector # "blank"
  /\ p.containerCount >= 0
  /\ p.containerCount <= p.capacity
  /\ p.timestamp # 0

validateTelemetry(p) ==
  /\ p.droneId # None
  /\ p.sector # "blank"
  /\ p.containerCount >= 0
  /\ p.capacity > 0
  /\ p.containerCount <= p.capacity
  /\ p.timestamp # 0

(* A client that hung up gets no answer. *)
Reply(r, code) ==
  /\ step' = [step EXCEPT ![r] = "done"]
  /\ answer' = [answer EXCEPT ![r] = IF @ = "none" THEN code ELSE @]
  /\ UNCHANGED after

Goto(r, s) == step' = [step EXCEPT ![r] = s] /\ UNCHANGED <<answer, after>>

Fault == faults < MaxFaults /\ faults' = faults + 1

-----------------------------------------------------------------------------
Init ==
  /\ brokerUp \in BOOLEAN
  /\ proc = "connecting"
  /\ attempt = 1
  /\ conn = "closed"
  /\ step = [r \in Requests |-> "unsent"]
  /\ answer = [r \in Requests |-> "none"]
  /\ redis = [d \in Drones |-> None]
  /\ late = {}
  /\ published = {}
  /\ unconfirmed = {}
  /\ torn = {}
  /\ stored = {}
  /\ overdue = {}
  /\ after = [r \in Requests |-> {}]
  /\ faults = 0

(* newRabbitPublisher: dial, open a channel, declare the topology. *)
Connect ==
  /\ proc = "connecting" /\ attempt <= ConnectAttempts
  /\ brokerUp
  /\ proc' = "serving"
  /\ conn' = "open"
  /\ UNCHANGED <<brokerUp, attempt, reqVars, stateVars, sentVars, faults>>

(* Mutant: after the last attempt the process neither serves nor exits. *)
ConnectFailsHangs ==
  /\ proc = "connecting" /\ attempt <= ConnectAttempts
  /\ ~brokerUp
  /\ attempt' = attempt + 1
  /\ UNCHANGED <<brokerUp, proc, conn, reqVars, stateVars, sentVars, faults>>

(* The last failure is fatal to the process. *)
ConnectFails ==
  /\ proc = "connecting" /\ attempt <= ConnectAttempts
  /\ ~brokerUp
  /\ attempt' = attempt + 1
  /\ proc' = IF attempt = ConnectAttempts THEN "dead" ELSE proc
  /\ UNCHANGED <<brokerUp, conn, reqVars, stateVars, sentVars, faults>>

-----------------------------------------------------------------------------
(* Steps of handleIngest.                                                  *)

Arrive(r) ==
  /\ proc = "serving"
  /\ step[r] = "unsent"
  /\ step' = [step EXCEPT ![r] = "received"]
  /\ after' = [after EXCEPT ![r] = {q \in Requests : step[q] = "done"}]
  /\ UNCHANGED <<brokerUp, procVars, answer, stateVars, sentVars, faults>>

(* The payload does not decode, or is invalid. *)
BadRequest(r) ==
  /\ step[r] = "received"
  /\ ~(PayloadOf[r].json /\ validateTelemetry(PayloadOf[r]))
  /\ Reply(r, "400")
  /\ UNCHANGED <<brokerUp, procVars, stateVars, sentVars, faults>>

Accept(r) ==
  /\ step[r] = "received"
  /\ PayloadOf[r].json /\ validateTelemetry(PayloadOf[r])
  /\ Goto(r, "store")
  /\ UNCHANGED <<brokerUp, procVars, stateVars, sentVars, faults>>

(* Mutant: the state is written by a goroutine the handler does not wait for. *)
StoreAsync(r) ==
  /\ step[r] = "store"
  /\ late' = late \cup {r}
  /\ stored' = stored \cup {r}
  /\ Goto(r, "publish")
  /\ UNCHANGED <<brokerUp, procVars, redis, overdue, sentVars, faults>>

(* Redis may execute a SET whose reply missed its deadline at any later    *)
(* time, also after go-redis sent it again (RedisClient).                  *)
MayBeLate(r) ==
  \/ UNCHANGED <<late, overdue, faults>>
  \/ Fault /\ late' = late \cup {r} /\ overdue' = overdue \cup {r}

Store(r) ==
  /\ step[r] = "store"
  /\ redis' = [redis EXCEPT ![PayloadOf[r].droneId] = r]
  /\ stored' = stored \cup {r}
  /\ MayBeLate(r)
  /\ Goto(r, "publish")
  /\ UNCHANGED <<brokerUp, procVars, sentVars>>

(* A failed write is logged and the request goes on. *)
StoreFails(r) ==
  /\ step[r] = "store"
  /\ MayBeLate(r)
  /\ Goto(r, "publish")
  /\ UNCHANGED <<brokerUp, procVars, redis, stored, sentVars>>

(* There are no publisher confirms: a write to a connection whose loss is  *)
(* not noticed yet succeeds.                                               *)
Publish(r) ==
  /\ step[r] = "publish"
  /\ \/ conn = "open"  /\ published' = published \cup {r} /\ UNCHANGED unconfirmed
     \/ conn = "stale" /\ unconfirmed' = unconfirmed \cup {r} /\ UNCHANGED published
  /\ Reply(r, "202")
  /\ UNCHANGED <<brokerUp, procVars, stateVars, torn, faults>>

(* Mutant: the error of Publish is only logged, as that of Store is. *)
PublishFailsIsLogged(r) ==
  /\ step[r] = "publish"
  /\ conn # "open"
  /\ conn' = "closed"
  /\ Reply(r, "202")
  /\ UNCHANGED <<brokerUp, proc, attempt, stateVars, sentVars, faults>>

(* Mutant: with a closed channel the handler waits for another connection. *)
PublishFailsWaits(r) ==
  /\ step[r] = "publish"
  /\ conn = "stale"
  /\ conn' = "closed"
  /\ Reply(r, "502")
  /\ UNCHANGED <<brokerUp, proc, attempt, stateVars, sentVars, faults>>

(* The write fails or the channel is closed; nothing opens it again.  An   *)
(* event can be complete on the wire although the call fails, when the     *)
(* heartbeater's flush carried it (AmqpConnection).                        *)
PublishFails(r) ==
  /\ step[r] = "publish"
  /\ conn # "open"
  /\ conn' = "closed"
  /\ \/ UNCHANGED <<published, torn, faults>>
     \/ /\ conn = "stale"
        /\ Fault
        /\ published' = published \cup {r}
        /\ torn' = torn \cup {r}
  /\ Reply(r, "502")
  /\ UNCHANGED <<brokerUp, proc, attempt, stateVars, unconfirmed>>

-----------------------------------------------------------------------------
(* The environment.                                                        *)

(* The client's timeout (2 s in the simulator): the handler goes on, the   *)
(* AMQP client ignores the cancelled context.                              *)
HangUp(r) ==
  /\ step[r] \in {"received", "store", "publish"}
  /\ answer[r] = "none"
  /\ answer' = [answer EXCEPT ![r] = "hangup"]
  /\ UNCHANGED <<brokerUp, procVars, step, after, stateVars, sentVars, faults>>

LateStore(r) ==
  /\ r \in late
  /\ late' = late \ {r}
  /\ redis' = [redis EXCEPT ![PayloadOf[r].droneId] = r]
  /\ UNCHANGED <<brokerUp, procVars, reqVars, stored, overdue, sentVars, faults>>

(* The TTL of a key runs out. *)
Expire(d) ==
  /\ redis[d] # None
  /\ redis' = [redis EXCEPT ![d] = None]
  /\ UNCHANGED <<brokerUp, procVars, reqVars, late, stored, overdue, sentVars, faults>>

BrokerDown ==
  /\ brokerUp
  /\ Fault
  /\ brokerUp' = FALSE
  /\ conn' = IF conn = "open" THEN "stale" ELSE conn
  /\ UNCHANGED <<proc, attempt, reqVars, stateVars, sentVars>>

BrokerBack ==
  /\ ~brokerUp
  /\ brokerUp' = TRUE
  /\ UNCHANGED <<procVars, reqVars, stateVars, sentVars, faults>>

(* A heartbeat is missed, or a read fails. *)
LossNoticed ==
  /\ conn = "stale"
  /\ conn' = "closed"
  /\ UNCHANGED <<brokerUp, proc, attempt, reqVars, stateVars, sentVars, faults>>

(* Requests in progress are cut off; a SET on the wire may be executed. *)
Crash ==
  /\ proc = "serving"
  /\ Fault
  /\ proc' = "dead"
  /\ conn' = "closed"
  /\ step' = [r \in Requests |-> IF step[r] = "unsent" THEN "unsent" ELSE "done"]
  /\ answer' = [r \in Requests |->
                  IF step[r] # "unsent" /\ answer[r] = "none" THEN "hangup" ELSE answer[r]]
  /\ \E s \in SUBSET {r \in Requests : step[r] = "store"} :
       late' = late \cup s /\ overdue' = overdue \cup s
  /\ UNCHANGED <<brokerUp, attempt, after, redis, stored, sentVars>>

(* restart: unless-stopped. *)
Restart ==
  /\ proc = "dead"
  /\ proc' = "connecting"
  /\ attempt' = 1
  /\ UNCHANGED <<brokerUp, conn, reqVars, stateVars, sentVars, faults>>

-----------------------------------------------------------------------------
handleIngest(r) ==
  \/ BadRequest(r) \/ Accept(r)
  \/ Store(r) \/ StoreFails(r)
  \/ Publish(r) \/ PublishFails(r)

Next ==
  \/ Connect \/ ConnectFails \/ Restart
  \/ \E r \in Requests : Arrive(r) \/ handleIngest(r) \/ HangUp(r) \/ LateStore(r)
  \/ \E d \in Drones : Expire(d)
  \/ BrokerDown \/ BrokerBack \/ LossNoticed \/ Crash

Spec == Init /\ [][Next]_vars

(* Goroutines run; a go-redis call ends (RedisClient, CommandsEnd), and a  *)
(* publish returns unless the broker holds it by flow control for ever     *)
(* (AmqpConnection, LocksComeFree); heartbeats detect a lost connection, *)
(* outages end and Docker restarts a dead process.  Nothing obliges        *)
(* clients to send requests.                                               *)
Fairness ==
  /\ WF_vars(Connect) /\ WF_vars(ConnectFails) /\ WF_vars(Restart)
  /\ WF_vars(BrokerBack) /\ WF_vars(LossNoticed)
  /\ \A r \in Requests : WF_vars(handleIngest(r))

FairSpec == Spec /\ Fairness

-----------------------------------------------------------------------------
(* Properties.                                                             *)

(* Every variable keeps its type, and only payloads that pass              *)
(* validateTelemetry are stored or published: the fill rate is computed    *)
(* with a positive capacity.                                               *)
TypeOK ==
  /\ brokerUp \in BOOLEAN
  /\ proc \in {"connecting", "serving", "dead"}
  /\ attempt \in 1..(ConnectAttempts + 1)
  /\ conn \in {"open", "stale", "closed"}
  /\ step \in [Requests -> Step] /\ answer \in [Requests -> Answer]
  /\ redis \in [Drones -> Requests \cup {None}]
  /\ after \in [Requests -> SUBSET Requests]
  /\ faults \in 0..MaxFaults
  /\ \A s \in {late, overdue, published, unconfirmed, torn, stored} :
       \A r \in s : r \in Requests /\ PayloadOf[r].capacity > 0
                                   /\ PayloadOf[r].containerCount \in 0..PayloadOf[r].capacity

(* The answer tells the client what happened to its event: 202 only if the *)
(* event was handed to the connection, 400 or 502 only if it is not in     *)
(* telemetry.processed, so that sending the payload again makes no         *)
(* duplicate, except for an event that a dying connection still carried    *)
(* (handleIngest).                                                         *)
AnswersTruthful ==
  \A r \in Requests :
    /\ answer[r] = "202" => r \in published \cup unconfirmed
    /\ answer[r] \in {"400", "502"} => r \notin (published \ torn) \cup unconfirmed

(* The state of a request that had ended before a later one of the same    *)
(* drone arrived comes back after the later one was stored only if a SET   *)
(* of it missed its deadline (handleIngest waits for Store before it       *)
(* publishes and answers).                                                 *)
NoStateFromThePast ==
  \A d \in Drones, q \in stored :
    (PayloadOf[q].droneId = d /\ redis[d] # None /\ redis[d] \in after[q])
      => redis[d] \in overdue

(* The service always comes back to serving requests: an outage longer     *)
(* than the connect attempts ends in an exit that Docker answers with a    *)
(* restart (main, connectRabbitMQ).                                        *)
ServesAgain == []<>(proc = "serving")

(* Every request that arrived is answered or its client has left: no error *)
(* of Redis or RabbitMQ blocks handleIngest.                               *)
EveryRequestEnds == \A r \in Requests : step[r] = "received" ~> step[r] = "done"

(* The Kubernetes probes and the rollout checklist take /health UP as      *)
(* proof that the service has its RabbitMQ.  Refuted: a connection lost in *)
(* an outage is never opened again, /health stays UP and every ingest is   *)
(* answered with 502 for good.                                             *)
UpMeansConnected == (proc = "serving" /\ brokerUp) ~> (conn = "open" \/ ~brokerUp)
=============================================================================

------------------------ MODULE TelemetryServiceProofs ------------------------
(***************************************************************************)
(* Safety of the Telemetry Service for any requests, payloads, drones,     *)
(* connect attempts and faults.                                            *)
(***************************************************************************)
EXTENDS TelemetryService, TLAPS

(* The requests whose payload handleIngest lets pass. *)
Valid == {r \in Requests : PayloadOf[r].json /\ validateTelemetry(PayloadOf[r])}

(* Only these get as far as Redis and RabbitMQ. *)
InvValid ==
  /\ \A r \in Requests : step[r] \in {"store", "publish"} => r \in Valid
  /\ late \subseteq Valid /\ overdue \subseteq Valid /\ stored \subseteq Valid
  /\ published \subseteq Valid /\ unconfirmed \subseteq Valid /\ torn \subseteq Valid

(* While a handler runs, its client has no answer and its event is nowhere *)
(* yet; and a request that never arrived has left no state.                *)
InvRunning ==
  \A r \in Requests :
    /\ step[r] # "done" => /\ answer[r] \in {"none", "hangup"}
                           /\ r \notin published \cup unconfirmed
    /\ step[r] = "unsent" => r \notin stored

(* What had ended when a request arrived has ended; only a SET that missed *)
(* its deadline is executed late.                                          *)
InvPast ==
  /\ \A q \in Requests : \A r \in after[q] : step[r] = "done"
  /\ late \subseteq overdue

IInv == TypeOK /\ InvValid /\ InvRunning /\ InvPast /\ AnswersTruthful /\ NoStateFromThePast

-----------------------------------------------------------------------------
(* What validateTelemetry lets pass has a drone and a positive capacity. *)
LEMMA ValidFacts ==
  ASSUME NEW r \in Valid
  PROVE  /\ r \in Requests /\ PayloadOf[r].droneId \in Drones
         /\ PayloadOf[r].capacity > 0
         /\ PayloadOf[r].containerCount \in 0..PayloadOf[r].capacity
  <1>1. r \in Requests /\ PayloadOf[r] \in RawTelemetryPayload
    BY PayloadAssumption DEF Valid
  <1>2. /\ PayloadOf[r].droneId \in Drones \cup {None}
        /\ PayloadOf[r].containerCount \in Int /\ PayloadOf[r].capacity \in Int
    BY <1>1 DEF RawTelemetryPayload
  <1>3. /\ PayloadOf[r].droneId # None /\ PayloadOf[r].capacity > 0
        /\ PayloadOf[r].containerCount >= 0
        /\ PayloadOf[r].containerCount <= PayloadOf[r].capacity
    BY DEF Valid, validateTelemetry
  <1> QED
    BY <1>1, <1>2, <1>3

(* The part of TypeOK that says which values the variables have. *)
Types ==
  /\ brokerUp \in BOOLEAN
  /\ proc \in {"connecting", "serving", "dead"}
  /\ attempt \in 1..(ConnectAttempts + 1)
  /\ conn \in {"open", "stale", "closed"}
  /\ step \in [Requests -> Step] /\ answer \in [Requests -> Answer]
  /\ redis \in [Drones -> Requests \cup {None}]
  /\ after \in [Requests -> SUBSET Requests]
  /\ faults \in 0..MaxFaults

(* Faults stay within their bound. *)
LEMMA FaultFacts ==
  ASSUME Types, Fault \/ UNCHANGED faults
  PROVE  faults' \in 0..MaxFaults
  BY BoundAssumption DEF Types, Fault

-----------------------------------------------------------------------------
(* Initially nothing is stored, published or answered. *)
LEMMA IInvInit == Init => IInv
  <1> SUFFICES ASSUME Init PROVE IInv
    OBVIOUS
  <1>1. InvValid /\ InvRunning /\ InvPast
    BY DEF Init, InvValid, InvRunning, InvPast
  <1>2. Types
    BY BoundAssumption DEF Init, Types, Step, Answer
  <1>3. TypeOK
    BY <1>1, <1>2, ValidFacts DEF TypeOK, Types, InvValid
  <1>4. AnswersTruthful /\ NoStateFromThePast
    BY DEF Init, AnswersTruthful, NoStateFromThePast
  <1> QED
    BY <1>1, <1>3, <1>4 DEF IInv

(* A step that leaves the requests, Redis and the queue alone. *)
LEMMA QuietKeeps ==
  ASSUME IInv, Types', UNCHANGED <<reqVars, stateVars, sentVars>>
  PROVE  IInv'
  <1> USE DEF IInv, reqVars, stateVars, sentVars
  <1>1. InvValid'
    BY DEF InvValid
  <1>2. TypeOK'
    BY <1>1, ValidFacts DEF TypeOK, Types, InvValid
  <1>3. InvRunning' /\ InvPast'
    BY DEF InvRunning, InvPast
  <1>4. AnswersTruthful' /\ NoStateFromThePast'
    BY DEF AnswersTruthful, NoStateFromThePast
  <1> QED
    BY <1>1, <1>2, <1>3, <1>4

(* The connection, the broker and the life of the process. *)
LEMMA ProcessKeeps ==
  ASSUME IInv,
         Connect \/ ConnectFails \/ Restart \/ BrokerDown \/ BrokerBack \/ LossNoticed
  PROVE  IInv'
  <1>1. Types
    BY DEF IInv, TypeOK, Types
  <1>2. ConnectAttempts \in Nat /\ attempt \in Nat /\ attempt >= 1
    BY <1>1, BoundAssumption DEF Types
  <1>3. CASE Connect
    <2>1. Types' /\ UNCHANGED <<reqVars, stateVars, sentVars>>
      BY <1>1, <1>3 DEF Connect, Types, reqVars, stateVars, sentVars
    <2> QED
      BY <2>1, QuietKeeps
  <1>4. CASE ConnectFails
    <2>1. Types' /\ UNCHANGED <<reqVars, stateVars, sentVars>>
      BY <1>1, <1>2, <1>4 DEF ConnectFails, Types, reqVars, stateVars, sentVars
    <2> QED
      BY <2>1, QuietKeeps
  <1>5. CASE Restart
    <2>1. Types' /\ UNCHANGED <<reqVars, stateVars, sentVars>>
      BY <1>1, <1>2, <1>5 DEF Restart, Types, reqVars, stateVars, sentVars
    <2> QED
      BY <2>1, QuietKeeps
  <1>6. CASE BrokerDown
    <2>1. faults' \in 0..MaxFaults
      BY <1>1, <1>6, FaultFacts DEF BrokerDown
    <2>2. Types' /\ UNCHANGED <<reqVars, stateVars, sentVars>>
      BY <1>1, <1>6, <2>1 DEF BrokerDown, Types, reqVars, stateVars, sentVars
    <2> QED
      BY <2>2, QuietKeeps
  <1>7. CASE BrokerBack
    <2>1. Types' /\ UNCHANGED <<reqVars, stateVars, sentVars>>
      BY <1>1, <1>7 DEF BrokerBack, Types, procVars, reqVars, stateVars, sentVars
    <2> QED
      BY <2>1, QuietKeeps
  <1>8. CASE LossNoticed
    <2>1. Types' /\ UNCHANGED <<reqVars, stateVars, sentVars>>
      BY <1>1, <1>8 DEF LossNoticed, Types, reqVars, stateVars, sentVars
    <2> QED
      BY <2>1, QuietKeeps
  <1> QED
    BY <1>3, <1>4, <1>5, <1>6, <1>7, <1>8

-----------------------------------------------------------------------------
(* A request that arrives finds its past complete, and has stored nothing. *)
LEMMA ArriveKeeps ==
  ASSUME IInv, NEW r \in Requests, Arrive(r)
  PROVE  IInv'
  <1> USE DEF IInv, Arrive, procVars, stateVars, sentVars
  <1>1. Types
    BY DEF TypeOK, Types
  <1>2. /\ step'[r] = "received" /\ \A q \in Requests \ {r} : step'[q] = step[q]
        /\ \A q \in Requests \ {r} : after'[q] = after[q]
        /\ after'[r] = {q \in Requests : step[q] = "done"}
    BY <1>1 DEF Types
  <1>3. InvValid'
    BY <1>2 DEF InvValid
  <1>4. Types'
    BY <1>1 DEF Types, Step
  <1>5. TypeOK'
    BY <1>3, <1>4, ValidFacts DEF TypeOK, Types, InvValid
  <1>6. InvRunning'
    BY <1>2 DEF InvRunning
  <1>7. InvPast'
    BY <1>1, <1>2 DEF InvPast, Types
  <1>8. AnswersTruthful'
    BY DEF AnswersTruthful
  <1>9. NoStateFromThePast'
    <2>1. \A q \in stored : q \in Requests \ {r}
      BY DEF InvRunning, InvValid, Valid
    <2> QED
      BY <1>2, <2>1 DEF NoStateFromThePast
  <1> QED
    BY <1>3, <1>5, <1>6, <1>7, <1>8, <1>9

(* A handler goes on to its next step, or its client hangs up. *)
LEMMA AcceptKeeps ==
  ASSUME IInv, NEW r \in Requests, Accept(r)
  PROVE  IInv'
  <1> USE DEF IInv, Accept, Goto, procVars, stateVars, sentVars
  <1>1. Types
    BY DEF TypeOK, Types
  <1>2. step'[r] = "store" /\ \A q \in Requests \ {r} : step'[q] = step[q]
    BY <1>1 DEF Types
  <1>3. InvValid'
    BY <1>2 DEF InvValid, Valid
  <1>4. Types'
    BY <1>1 DEF Types, Step
  <1>5. TypeOK'
    BY <1>3, <1>4, ValidFacts DEF TypeOK, Types, InvValid
  <1>6. InvRunning'
    BY <1>2 DEF InvRunning
  <1>7. InvPast'
    BY <1>1, <1>2 DEF InvPast, Types
  <1>8. AnswersTruthful' /\ NoStateFromThePast'
    BY DEF AnswersTruthful, NoStateFromThePast
  <1> QED
    BY <1>3, <1>5, <1>6, <1>7, <1>8

(* A client that hangs up changes only its own answer. *)
LEMMA HangUpKeeps ==
  ASSUME IInv, NEW r \in Requests, HangUp(r)
  PROVE  IInv'
  <1> USE DEF IInv, HangUp, procVars, stateVars, sentVars
  <1>1. Types
    BY DEF TypeOK, Types
  <1>2. answer'[r] = "hangup" /\ \A q \in Requests \ {r} : answer'[q] = answer[q]
    BY <1>1 DEF Types
  <1>3. InvValid'
    BY DEF InvValid
  <1>4. Types'
    BY <1>1 DEF Types, Answer
  <1>5. TypeOK'
    BY <1>3, <1>4, ValidFacts DEF TypeOK, Types, InvValid
  <1>6. InvRunning' /\ InvPast'
    BY <1>2 DEF InvRunning, InvPast
  <1>7. AnswersTruthful'
    BY <1>2 DEF AnswersTruthful
  <1>8. NoStateFromThePast'
    BY DEF NoStateFromThePast
  <1> QED
    BY <1>3, <1>5, <1>6, <1>7, <1>8

-----------------------------------------------------------------------------
(* A handler answers.  The event is in the queue or written to the         *)
(* connection only with a 202, or with a failure of a dying connection.    *)
LEMMA ReplyKeeps ==
  ASSUME IInv, NEW r \in Requests, NEW code \in Answer, Reply(r, code), Types',
         UNCHANGED stateVars,
         published \subseteq published', published' \subseteq published \cup {r},
         unconfirmed \subseteq unconfirmed', unconfirmed' \subseteq unconfirmed \cup {r},
         torn \subseteq torn', torn' \subseteq torn \cup {r},
         step[r] # "done", step[r] # "unsent",
         r \in published' \cup unconfirmed' \cup torn' => r \in Valid,
         code = "202" => r \in published' \cup unconfirmed',
         code \in {"400", "502"} => r \notin (published' \ torn') \cup unconfirmed'
  PROVE  IInv'
  <1> USE DEF IInv, Reply, stateVars
  <1>1. Types
    BY DEF TypeOK, Types
  <1>2. /\ step'[r] = "done" /\ \A q \in Requests \ {r} : step'[q] = step[q]
        /\ \A q \in Requests \ {r} : answer'[q] = answer[q]
        /\ answer'[r] = IF answer[r] = "none" THEN code ELSE answer[r]
    BY <1>1 DEF Types
  <1>3. answer[r] \in {"none", "hangup"}
    BY DEF InvRunning
  <1>4. InvValid'
    <2>1. \A q \in Requests : step'[q] \in {"store", "publish"} => q \in Valid
      BY <1>2 DEF InvValid
    <2>2. published' \subseteq Valid /\ unconfirmed' \subseteq Valid /\ torn' \subseteq Valid
      BY DEF InvValid
    <2> QED
      BY <2>1, <2>2 DEF InvValid
  <1>5. TypeOK'
    BY <1>4, ValidFacts DEF TypeOK, Types, InvValid
  <1>6. InvRunning'
    BY <1>2 DEF InvRunning
  <1>7. InvPast'
    BY <1>1, <1>2 DEF InvPast, Types
  <1>8. AnswersTruthful'
    BY <1>2, <1>3 DEF AnswersTruthful
  <1>9. NoStateFromThePast'
    BY DEF NoStateFromThePast
  <1> QED
    BY <1>4, <1>5, <1>6, <1>7, <1>8, <1>9

(* The steps that end a request answer it truthfully. *)
LEMMA AnswerKeeps ==
  ASSUME IInv, NEW r \in Requests, BadRequest(r) \/ Publish(r) \/ PublishFails(r)
  PROVE  IInv'
  <1>1. Types
    BY DEF IInv, TypeOK, Types
  <1>2. ASSUME step[r] # "done" PROVE r \notin published \cup unconfirmed
    BY <1>2 DEF IInv, InvRunning
  <1>3. step[r] = "publish" => r \in Valid
    BY DEF IInv, InvValid
  <1>4. ASSUME NEW code \in Answer, Reply(r, code)
        PROVE  step' \in [Requests -> Step] /\ answer' \in [Requests -> Answer] /\ after' = after
    BY <1>1, <1>4 DEF Types, Reply, Step
  <1>5. torn \subseteq Valid
    BY DEF IInv, InvValid
  <1>6. CASE BadRequest(r)
    <2>1. r \notin Valid /\ Reply(r, "400") /\ "400" \in Answer
      BY <1>6 DEF BadRequest, Valid, Answer
    <2>2. Types'
      BY <1>1, <1>4, <1>6, <2>1 DEF BadRequest, Types, procVars, stateVars
    <2>3. UNCHANGED <<stateVars, published, unconfirmed, torn>> /\ step[r] = "received"
      BY <1>6 DEF BadRequest, sentVars
    <2> QED
      BY <1>2, <1>5, <2>1, <2>2, <2>3, ReplyKeeps
  <1>7. CASE Publish(r)
    <2>1. Reply(r, "202") /\ "202" \in Answer /\ step[r] = "publish"
      BY <1>7 DEF Publish, Answer
    <2>2. Types'
      BY <1>1, <1>4, <1>7, <2>1 DEF Publish, Types, procVars, stateVars
    <2>3. /\ UNCHANGED <<stateVars, torn>>
          /\ \/ published' = published \cup {r} /\ unconfirmed' = unconfirmed
             \/ published' = published /\ unconfirmed' = unconfirmed \cup {r}
      BY <1>7 DEF Publish
    <2> QED
      BY <1>3, <2>1, <2>2, <2>3, ReplyKeeps
  <1>8. CASE PublishFails(r)
    <2>1. Reply(r, "502") /\ "502" \in Answer /\ step[r] = "publish"
      BY <1>8 DEF PublishFails, Answer
    <2>2. faults' \in 0..MaxFaults
      BY <1>1, <1>8, FaultFacts DEF PublishFails
    <2>3. Types'
      BY <1>1, <1>4, <1>8, <2>1, <2>2 DEF PublishFails, Types, stateVars
    <2>4. /\ UNCHANGED <<stateVars, unconfirmed>>
          /\ \/ published' = published /\ torn' = torn
             \/ published' = published \cup {r} /\ torn' = torn \cup {r}
      BY <1>8 DEF PublishFails
    <2> QED
      BY <1>2, <1>3, <2>1, <2>3, <2>4, ReplyKeeps
  <1> QED
    BY <1>6, <1>7, <1>8

-----------------------------------------------------------------------------
(* Redis.  The request that writes is still running, so it is in nobody's  *)
(* past; a write after the deadline is one of an overdue request.          *)
LEMMA StoreKeeps ==
  ASSUME IInv, NEW r \in Requests, Store(r) \/ StoreFails(r)
  PROVE  IInv'
  <1> USE DEF IInv
  <1>1. Types
    BY DEF TypeOK, Types
  <1>2. step[r] = "store" /\ r \in Valid /\ PayloadOf[r].droneId \in Drones
    BY ValidFacts DEF Store, StoreFails, InvValid
  <1>3. /\ step' = [step EXCEPT ![r] = "publish"] /\ UNCHANGED <<answer, after>>
        /\ UNCHANGED <<brokerUp, procVars, sentVars>> /\ MayBeLate(r)
    BY DEF Store, StoreFails, Goto
  <1>4. step'[r] = "publish" /\ \A q \in Requests \ {r} : step'[q] = step[q]
    BY <1>1, <1>3 DEF Types
  <1>5. /\ late' \subseteq late \cup {r} /\ overdue \subseteq overdue'
        /\ overdue' \subseteq overdue \cup {r}
        /\ late' = late \/ (late' = late \cup {r} /\ r \in overdue')
        /\ stored' \subseteq stored \cup {r}
    BY <1>3 DEF MayBeLate, Store, StoreFails
  <1>6. InvValid'
    <2>1. \A q \in Requests : step'[q] \in {"store", "publish"} => q \in Valid
      BY <1>2, <1>4 DEF InvValid
    <2>2. late' \subseteq Valid /\ overdue' \subseteq Valid /\ stored' \subseteq Valid
      BY <1>2, <1>5 DEF InvValid
    <2> QED
      BY <1>3, <2>1, <2>2 DEF InvValid, sentVars
  <1>7. Types'
    <2>1. faults' \in 0..MaxFaults
      BY <1>1, <1>3, FaultFacts DEF MayBeLate
    <2>2. redis' \in [Drones -> Requests \cup {None}]
      BY <1>1 DEF Types, Store, StoreFails
    <2> QED
      BY <1>1, <1>3, <2>1, <2>2 DEF Types, Step, procVars
  <1>8. TypeOK'
    BY <1>6, <1>7, ValidFacts DEF TypeOK, Types, InvValid
  <1>9. InvRunning'
    BY <1>2, <1>3, <1>4, <1>5 DEF InvRunning, sentVars
  <1>10. InvPast'
    <2>1. \A q \in Requests : \A p \in after'[q] : step'[p] = "done"
      BY <1>1, <1>2, <1>3, <1>4 DEF InvPast, Types
    <2>2. late' \subseteq overdue'
      BY <1>5 DEF InvPast
    <2> QED
      BY <2>1, <2>2 DEF InvPast
  <1>11. AnswersTruthful'
    BY <1>3 DEF AnswersTruthful, sentVars
  <1>12. NoStateFromThePast'
    <2>1. \A q \in Requests : r \notin after[q]
      BY <1>2 DEF InvPast
    <2>2. stored' \subseteq Requests
      BY <1>6 DEF InvValid, Valid
    <2>3. CASE Store(r)
      <3>1. /\ redis'[PayloadOf[r].droneId] = r
            /\ \A d \in Drones : d # PayloadOf[r].droneId => redis'[d] = redis[d]
        BY <1>1, <1>2, <2>3 DEF Store, Types
      <3> SUFFICES ASSUME NEW d \in Drones, NEW q \in stored', PayloadOf[q].droneId = d,
                          redis'[d] # None, redis'[d] \in after[q]
                   PROVE  redis'[d] \in overdue'
        BY <1>3 DEF NoStateFromThePast
      <3>2. d # PayloadOf[r].droneId
        BY <2>1, <2>2, <3>1
      <3>3. q \in stored /\ redis'[d] = redis[d]
        BY <1>5, <3>1, <3>2
      <3> QED
        BY <1>5, <3>3 DEF NoStateFromThePast
    <2>4. CASE StoreFails(r)
      BY <1>3, <1>5, <2>4 DEF NoStateFromThePast, StoreFails
    <2> QED
      BY <2>3, <2>4
  <1> QED
    BY <1>6, <1>8, <1>9, <1>10, <1>11, <1>12

(* A SET executed late was overdue. *)
LEMMA LateStoreKeeps ==
  ASSUME IInv, NEW r \in Requests, LateStore(r)
  PROVE  IInv'
  <1> USE DEF IInv, LateStore, procVars, reqVars, sentVars
  <1>1. Types
    BY DEF TypeOK, Types
  <1>2. r \in overdue /\ PayloadOf[r].droneId \in Drones
    BY ValidFacts DEF InvValid, InvPast
  <1>3. InvValid'
    BY DEF InvValid
  <1>4. Types'
    BY <1>1 DEF Types
  <1>5. TypeOK'
    BY <1>3, <1>4, ValidFacts DEF TypeOK, Types, InvValid
  <1>6. InvRunning' /\ InvPast'
    BY DEF InvRunning, InvPast
  <1>7. AnswersTruthful'
    BY DEF AnswersTruthful
  <1>8. NoStateFromThePast'
    <2>1. \A d \in Drones : redis'[d] \in {r, redis[d]}
      BY <1>1 DEF Types
    <2> QED
      BY <1>2, <2>1 DEF NoStateFromThePast
  <1> QED
    BY <1>3, <1>5, <1>6, <1>7, <1>8

(* An expired key holds no state. *)
LEMMA ExpireKeeps ==
  ASSUME IInv, NEW d \in Drones, Expire(d)
  PROVE  IInv'
  <1> USE DEF IInv, Expire, procVars, reqVars, sentVars
  <1>1. Types
    BY DEF TypeOK, Types
  <1>2. InvValid'
    BY DEF InvValid
  <1>3. Types'
    BY <1>1 DEF Types
  <1>4. TypeOK'
    BY <1>2, <1>3, ValidFacts DEF TypeOK, Types, InvValid
  <1>5. InvRunning' /\ InvPast'
    BY DEF InvRunning, InvPast
  <1>6. AnswersTruthful'
    BY DEF AnswersTruthful
  <1>7. NoStateFromThePast'
    <2>1. \A c \in Drones : redis'[c] \in {None, redis[c]}
      BY <1>1 DEF Types
    <2> QED
      BY <2>1 DEF NoStateFromThePast
  <1> QED
    BY <1>2, <1>4, <1>5, <1>6, <1>7

(* A crash cuts off what is running: nothing of it is in the queue, and a  *)
(* SET on the wire counts as overdue.                                      *)
LEMMA CrashKeeps ==
  ASSUME IInv, Crash
  PROVE  IInv'
  <1> USE DEF IInv
  <1>1. Types
    BY DEF TypeOK, Types
  <1>2. PICK s \in SUBSET {r \in Requests : step[r] = "store"} :
          late' = late \cup s /\ overdue' = overdue \cup s
    BY DEF Crash
  <1>3. /\ \A r \in Requests : step'[r] = IF step[r] = "unsent" THEN "unsent" ELSE "done"
        /\ \A r \in Requests :
             answer'[r] = IF step[r] # "unsent" /\ answer[r] = "none" THEN "hangup" ELSE answer[r]
        /\ UNCHANGED <<after, redis, stored, published, unconfirmed, torn>>
    BY DEF Crash, sentVars
  <1>4. s \subseteq Valid
    BY <1>2 DEF InvValid
  <1>5. InvValid'
    BY <1>2, <1>3, <1>4 DEF InvValid
  <1>6. Types'
    <2>1. faults' \in 0..MaxFaults
      BY <1>1, FaultFacts DEF Crash
    <2>2. step' \in [Requests -> Step] /\ answer' \in [Requests -> Answer]
      BY <1>1 DEF Crash, Types, Step, Answer
    <2> QED
      BY <1>1, <1>3, <2>1, <2>2 DEF Crash, Types
  <1>7. TypeOK'
    BY <1>5, <1>6, ValidFacts DEF TypeOK, Types, InvValid
  <1>8. InvRunning'
    BY <1>1, <1>3 DEF InvRunning, Types, Step
  <1>9. InvPast'
    <2>1. \A q \in Requests : \A p \in after'[q] : step'[p] = "done"
      BY <1>1, <1>3 DEF InvPast, Types
    <2>2. late' \subseteq overdue'
      BY <1>2 DEF InvPast
    <2> QED
      BY <2>1, <2>2 DEF InvPast
  <1>10. AnswersTruthful'
    BY <1>3 DEF AnswersTruthful
  <1>11. NoStateFromThePast'
    BY <1>2, <1>3 DEF NoStateFromThePast
  <1> QED
    BY <1>5, <1>7, <1>8, <1>9, <1>10, <1>11

-----------------------------------------------------------------------------
(* Every step keeps the invariant. *)
LEMMA IInvNext == IInv /\ [Next]_vars => IInv'
  <1> SUFFICES ASSUME IInv, [Next]_vars PROVE IInv'
    OBVIOUS
  <1>1. CASE Connect \/ ConnectFails \/ Restart \/ BrokerDown \/ BrokerBack \/ LossNoticed
    BY <1>1, ProcessKeeps
  <1>2. ASSUME NEW r \in Requests, Arrive(r) \/ handleIngest(r) \/ HangUp(r) \/ LateStore(r)
        PROVE  IInv'
    BY <1>2, ArriveKeeps, AcceptKeeps, HangUpKeeps, AnswerKeeps, StoreKeeps, LateStoreKeeps
    DEF handleIngest
  <1>3. ASSUME NEW d \in Drones, Expire(d) PROVE IInv'
    BY <1>3, ExpireKeeps
  <1>4. CASE Crash
    BY <1>4, CrashKeeps
  <1>5. CASE UNCHANGED vars
    <2>1. Types' /\ UNCHANGED <<reqVars, stateVars, sentVars>>
      BY <1>5 DEF vars, IInv, TypeOK, Types, procVars, reqVars, stateVars, sentVars
    <2> QED
      BY <2>1, QuietKeeps
  <1> QED
    BY <1>1, <1>2, <1>3, <1>4, <1>5 DEF Next

(* The invariant holds throughout. *)
LEMMA Invariant == Spec => []IInv
  BY IInvInit, IInvNext, PTL DEF Spec

(* Every variable keeps its type, and only payloads that validateTelemetry *)
(* lets pass are stored or published, so that the fill rate never divides  *)
(* by zero (handleIngest).                                                 *)
THEOREM TypeCorrect == Spec => []TypeOK
  <1>1. IInv => TypeOK
    BY DEF IInv
  <1> QED
    BY <1>1, Invariant, PTL

(* A 202 means that the event was handed to the connection, a 400 or 502   *)
(* that it is not in telemetry.processed, save for what a dying connection *)
(* still carried (handleIngest).                                           *)
THEOREM AnswersAreTruthful == Spec => []AnswersTruthful
  <1>1. IInv => AnswersTruthful
    BY DEF IInv
  <1> QED
    BY <1>1, Invariant, PTL

(* The state of a request that had ended before a later one arrived comes  *)
(* back only by a SET that missed its deadline (handleIngest, Store).      *)
THEOREM NoPastState == Spec => []NoStateFromThePast
  <1>1. IInv => NoStateFromThePast
    BY DEF IInv
  <1> QED
    BY <1>1, Invariant, PTL
=============================================================================

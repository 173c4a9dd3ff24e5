-------------------------- MODULE VesselServiceProofs --------------------------
(***************************************************************************)
(* Safety of the Vessel Service, and its refinement of VesselRegistry, for *)
(* any vessels, berths, worker threads, requests and faults.               *)
(***************************************************************************)
EXTENDS VesselService, TLAPS

(* A request in progress has a number of its own and no answer yet. *)
InvRequests ==
  /\ \A th \in Threads : Busy(th) =>
       txn[th].request <= requests /\ response[txn[th].request] = "none"
  /\ \A n \in Requests : n > requests => response[n] = "none"
  /\ \A th, u \in Threads : Busy(th) /\ Busy(u) /\ txn[th].request = txn[u].request => th = u

(* A transaction registers a vessel under an id nobody else has, or        *)
(* changes one that is there and keeps its IMO number.                     *)
InvIds ==
  /\ DOMAIN rows \subseteq usedIds
  /\ \A th \in Threads : Busy(th) =>
       IF txn[th].op = "register"
       THEN /\ txn[th].id \in usedIds \ DOMAIN rows
            /\ \A u \in Threads : Busy(u) /\ txn[u].id = txn[th].id => u = th
       ELSE txn[th].id \in DOMAIN rows /\ rows[txn[th].id].imo = txn[th].entity.imo

(* What each operation makes of the row it read. *)
InvEntity ==
  \A th \in Threads : Busy(th) =>
    LET t == txn[th] IN
    /\ t.entity.writer = t.request
    /\ t.op = "register" => t.dirty
    /\ t.op = "reserve" => t.entity.status = "BERTHED"
    /\ t.op = "release" => t.entity.status = "ARRIVING" /\ t.entity.berth = None

(* A transaction that is about to commit has announced what it writes. *)
InvAnnounced ==
  \A th \in Threads :
    txn[th].step = "commit" /\ RoutingKeyFor(txn[th].entity.status) # NoKey
      => EventOf(txn[th]) \in events \cup unconfirmed

IInv == TypeOK /\ InvRequests /\ InvIds /\ InvEntity /\ InvAnnounced /\ UniqueImo /\ AnnouncedState

-----------------------------------------------------------------------------
(* The types of a transaction in progress. *)
LEMMA TxnFacts ==
  ASSUME TypeOK, NEW th \in Threads, Busy(th)
  PROVE  /\ txn[th] \in Txn
         /\ txn[th].step \in {"publish", "commit"} /\ txn[th].request \in Requests
         /\ txn[th].op \in {"register", "update", "reserve", "release"}
         /\ txn[th].id \in Ids /\ txn[th].entity \in Row /\ txn[th].dirty \in BOOLEAN
  BY DEF TypeOK, Busy, Idle, Txn

(* The fields of a row. *)
LEMMA RowFacts ==
  ASSUME NEW row \in Row
  PROVE  /\ row.imo \in Imos /\ row.status \in VesselStatus /\ row.berth \in BerthValue
         /\ row.writer \in Requests
         /\ row = [imo |-> row.imo, status |-> row.status, berth |-> row.berth,
                   writer |-> row.writer]
  BY DEF Row

(* Every event has one of the three keys. *)
LEMMA EventFacts ==
  ASSUME NEW t \in Txn, RoutingKeyFor(t.entity.status) # NoKey
  PROVE  /\ EventOf(t) \in Event
         /\ EventOf(t).request = t.request /\ EventOf(t).vessel = t.id
         /\ EventOf(t).status = t.entity.status /\ EventOf(t).berth = t.entity.berth
  <1>1. t.entity \in Row /\ t.request \in Requests /\ t.id \in Ids
    BY DEF Txn
  <1>2. t.entity.status \in VesselStatus /\ t.entity.berth \in BerthValue
    BY <1>1, RowFacts
  <1>3. RoutingKeyFor(t.entity.status) \in {"vessel.arrived", "vessel.docked", "vessel.departed"}
    BY <1>2 DEF RoutingKeyFor, VesselStatus, NoKey
  <1> QED
    BY <1>1, <1>2, <1>3 DEF EventOf, Event

(* The operations keep the IMO number, and the result of each is a row. *)
LEMMA OperationFacts ==
  ASSUME NEW row \in Row, NEW s \in VesselStatus, NEW b \in BerthValue
  PROVE  /\ Updated(row, s, b) \in Row /\ Updated(row, s, b).imo = row.imo
         /\ Updated(row, s, b).status = s /\ Updated(row, s, b).berth = b
         /\ Updated(row, s, b).writer = row.writer
         /\ Reserved(row, b) = Updated(row, "BERTHED", b)
         /\ Released(row) = Updated(row, "ARRIVING", None)
  BY DEF Row, Updated, Reserved, Released, BerthValue

-----------------------------------------------------------------------------
(* Initially there are no rows and no transactions. *)
LEMMA IInvInit == Init => IInv
  <1> SUFFICES ASSUME Init PROVE IInv
    OBVIOUS
  <1>1. \A th \in Threads : ~Busy(th) /\ txn[th].step = "idle"
    BY DEF Init, Busy, Idle
  <1>2. DOMAIN rows = {}
    BY DEF Init
  <1>3. TypeOK
    <2>1. 0 \in 0..MaxRequests /\ 0 \in 0..MaxFaults
      BY BoundAssumption
    <2> QED
      BY <1>2, <2>1 DEF Init, TypeOK, Txn
  <1>4. InvRequests
    BY <1>1 DEF Init, InvRequests
  <1>5. InvIds /\ InvEntity /\ InvAnnounced
    BY <1>1, <1>2 DEF InvIds, InvEntity, InvAnnounced
  <1>6. UniqueImo /\ AnnouncedState
    BY <1>2 DEF UniqueImo, AnnouncedState
  <1> QED
    BY <1>3, <1>4, <1>5, <1>6 DEF IInv

(* A request is refused at once. *)
LEMMA RefuseKeeps ==
  ASSUME IInv, NEW th \in Threads, Accept(th), NEW a \in {"conflict", "notfound"},
         response' = [response EXCEPT ![NextRequest] = a],
         UNCHANGED <<rows, txn, committed, events, unconfirmed, usedIds, faults>>
  PROVE  IInv'
  <1> USE DEF IInv
  <1>1. /\ requests \in 0..MaxRequests /\ MaxRequests \in Nat /\ requests' = requests + 1
        /\ requests < MaxRequests /\ NextRequest = requests + 1 /\ NextRequest \in Requests
    BY BoundAssumption DEF TypeOK, Accept, NextRequest, Requests
  <1>2. \A n \in Requests : n # requests + 1 => response'[n] = response[n]
    BY <1>1 DEF TypeOK
  <1>3. TypeOK'
    BY <1>1 DEF TypeOK, Txn, Row
  <1>4. InvRequests'
    <2>1. \A u \in Threads : Busy(u) => txn[u].request \in Requests /\ txn[u].request <= requests
      BY TxnFacts DEF InvRequests
    <2> QED
      BY <1>1, <1>2, <2>1 DEF InvRequests, Busy, Requests
  <1>5. InvIds' /\ InvEntity' /\ InvAnnounced'
    BY DEF InvIds, InvEntity, InvAnnounced, Busy, EventOf
  <1>6. UniqueImo' /\ AnnouncedState'
    BY DEF UniqueImo, AnnouncedState
  <1> QED
    BY <1>3, <1>4, <1>5, <1>6

(* A transaction begins. *)
LEMMA BeginKeeps ==
  ASSUME IInv, NEW th \in Threads, Accept(th), NEW t \in Txn,
         t.step = "publish", t.request = NextRequest, t.entity.writer = NextRequest,
         txn' = [txn EXCEPT ![th] = t],
         UNCHANGED <<rows, response, committed, events, unconfirmed, faults>>,
         usedIds \subseteq usedIds', usedIds' \subseteq Ids,
         IF t.op = "register" THEN t.id \in usedIds' \ usedIds /\ t.dirty
         ELSE t.id \in DOMAIN rows /\ rows[t.id].imo = t.entity.imo,
         t.op = "reserve" => t.entity.status = "BERTHED",
         t.op = "release" => t.entity.status = "ARRIVING" /\ t.entity.berth = None
  PROVE  IInv'
  <1> USE DEF IInv
  <1>1. /\ requests \in 0..MaxRequests /\ MaxRequests \in Nat /\ requests' = requests + 1
        /\ requests < MaxRequests /\ NextRequest = requests + 1 /\ ~Busy(th)
    BY BoundAssumption DEF TypeOK, Accept, NextRequest
  <1>2. txn'[th] = t /\ \A u \in Threads \ {th} : txn'[u] = txn[u]
    BY DEF TypeOK
  <1>3. \A u \in Threads \ {th} : Busy(u)' <=> Busy(u)
    BY <1>2 DEF Busy
  <1>4. \A u \in Threads : Busy(u) => txn[u].request \in Requests /\ txn[u].request <= requests
    BY TxnFacts DEF InvRequests
  <1>5. TypeOK'
    BY <1>1 DEF TypeOK
  <1>6. InvRequests'
    BY <1>1, <1>2, <1>3, <1>4 DEF InvRequests, Busy, Requests
  <1>7. InvIds'
    <2>1. \A u \in Threads : Busy(u) => txn[u].id \in usedIds
      BY DEF InvIds
    <2>2. DOMAIN rows' \subseteq usedIds' /\ DOMAIN rows \subseteq usedIds
      BY DEF InvIds
    <2>3. ASSUME NEW u \in Threads, Busy(u)'
          PROVE IF txn'[u].op = "register"
                THEN /\ txn'[u].id \in usedIds' \ DOMAIN rows'
                     /\ \A v \in Threads : Busy(v)' /\ txn'[v].id = txn'[u].id => v = u
                ELSE txn'[u].id \in DOMAIN rows' /\ rows'[txn'[u].id].imo = txn'[u].entity.imo
      <3>1. CASE u = th
        BY <1>2, <1>3, <2>1, <2>2, <3>1
      <3>2. CASE u # th /\ txn[u].op # "register"
        BY <1>2, <1>3, <2>3, <3>2 DEF InvIds
      <3>3. CASE u # th /\ txn[u].op = "register"
        <4>1. /\ Busy(u) /\ txn'[u] = txn[u]
              /\ txn[u].id \in usedIds \ DOMAIN rows
              /\ \A v \in Threads : Busy(v) /\ txn[v].id = txn[u].id => v = u
          BY <1>2, <1>3, <2>3, <3>3 DEF InvIds
        <4>2. t.id # txn[u].id
          BY <4>1
        <4> QED
          BY <1>2, <1>3, <3>3, <4>1, <4>2
      <3> QED
        BY <3>1, <3>2, <3>3
    <2> QED
      BY <2>2, <2>3 DEF InvIds
  <1>8. InvEntity'
    BY <1>1, <1>2, <1>3 DEF InvEntity
  <1>9. InvAnnounced'
    BY <1>2 DEF InvAnnounced, EventOf
  <1>10. UniqueImo' /\ AnnouncedState'
    BY DEF UniqueImo, AnnouncedState
  <1> QED
    BY <1>5, <1>6, <1>7, <1>8, <1>9, <1>10

(* What a commit makes of the rows. *)
LEMMA WrittenFacts ==
  ASSUME IInv, NEW th \in Threads, Busy(th), txn[th].dirty
  PROVE  /\ DOMAIN Written(txn[th]) = DOMAIN rows \cup {txn[th].id}
         /\ DOMAIN Written(txn[th]) \subseteq Ids
         /\ Written(txn[th])[txn[th].id] = txn[th].entity
         /\ \A i \in DOMAIN rows : i # txn[th].id => Written(txn[th])[i] = rows[i]
         /\ Written(txn[th]) \in [DOMAIN Written(txn[th]) -> Row]
  <1>1. txn[th].id \in Ids /\ txn[th].entity \in Row
    BY TxnFacts DEF IInv
  <1>2. DOMAIN rows \subseteq Ids /\ rows \in [DOMAIN rows -> Row]
    BY DEF IInv, TypeOK
  <1> QED
    BY <1>1, <1>2 DEF Written

(* A transaction ends, with or without a commit. *)
LEMMA EndKeeps ==
  ASSUME IInv, NEW th \in Threads, Busy(th), NEW a \in {"ok", "error"}, Answer(th, a),
         UNCHANGED <<requests, events, unconfirmed, usedIds>>,
         committed' \subseteq Requests, faults' \in 0..MaxFaults,
         \/ rows' = rows
         \/ txn[th].step = "commit" /\ Allowed(txn[th]) /\ rows' = Written(txn[th])
  PROVE  IInv'
  <1> USE DEF IInv
  <1> DEFINE t == txn[th]
  <1>1. /\ t \in Txn /\ t.request \in Requests /\ t.id \in Ids /\ t.entity \in Row
        /\ t.request <= requests
    BY TxnFacts DEF InvRequests
  <1>2. txn'[th] = Idle /\ \A u \in Threads \ {th} : txn'[u] = txn[u]
    BY DEF TypeOK, Answer
  <1>3. ~Busy(th)' /\ \A u \in Threads \ {th} : Busy(u)' <=> Busy(u)
    BY <1>2 DEF Busy, Idle
  <1>4. rows' = rows \/ (t.step = "commit" /\ t.dirty /\ Allowed(t) /\ rows' = Written(t))
    BY DEF Written
  (* In both cases no row disappears and no IMO number changes. *)
  <1>6. /\ DOMAIN rows' \subseteq Ids /\ rows' \in [DOMAIN rows' -> Row]
        /\ DOMAIN rows \subseteq DOMAIN rows' /\ DOMAIN rows' \subseteq usedIds
        /\ DOMAIN rows' \subseteq DOMAIN rows \cup {t.id}
        /\ \A i \in DOMAIN rows : rows'[i].imo = rows[i].imo
    <2>1. CASE rows' = rows
      BY <2>1 DEF TypeOK, InvIds
    <2>2. CASE t.dirty /\ rows' = Written(t)
      <3>1. t.id \in usedIds /\ DOMAIN rows \subseteq usedIds
        BY DEF InvIds
      <3>2. t.id \in DOMAIN rows => rows[t.id].imo = t.entity.imo
        BY DEF InvIds
      <3>3. /\ DOMAIN rows' = DOMAIN rows \cup {t.id} /\ DOMAIN rows' \subseteq Ids
            /\ rows'[t.id] = t.entity
            /\ \A i \in DOMAIN rows : i # t.id => rows'[i] = rows[i]
            /\ rows' \in [DOMAIN rows' -> Row]
        BY <2>2, WrittenFacts
      <3> QED
        BY <3>1, <3>2, <3>3
    <2> QED
      BY <1>4, <2>1, <2>2
  <1>7. TypeOK'
    <2>1. response' \in [Requests -> {"none", "ok", "notfound", "conflict", "error"}]
      BY DEF TypeOK, Answer
    <2>2. txn' \in [Threads -> Txn \cup {Idle}]
      BY DEF TypeOK, Answer
    <2> QED
      BY <1>6, <2>1, <2>2 DEF TypeOK
  <1>8. InvRequests'
    <2>1. \A n \in Requests : n # t.request => response'[n] = response[n]
      BY <1>1 DEF TypeOK, Answer
    <2>2. \A u \in Threads : Busy(u) => txn[u].request \in Requests
      BY TxnFacts
    <2>3. requests \in Nat
      BY BoundAssumption DEF TypeOK
    <2> QED
      BY <1>1, <1>2, <1>3, <2>1, <2>2, <2>3 DEF InvRequests, Requests
  <1>9. InvIds'
    <2>1. ASSUME NEW u \in Threads, Busy(u)'
          PROVE IF txn'[u].op = "register"
                THEN /\ txn'[u].id \in usedIds' \ DOMAIN rows'
                     /\ \A v \in Threads : Busy(v)' /\ txn'[v].id = txn'[u].id => v = u
                ELSE txn'[u].id \in DOMAIN rows' /\ rows'[txn'[u].id].imo = txn'[u].entity.imo
      <3>1. u # th /\ Busy(u) /\ txn'[u] = txn[u]
        BY <1>2, <1>3, <2>1
      <3>2. CASE txn[u].op # "register"
        BY <1>6, <3>1, <3>2 DEF InvIds
      <3>3. CASE txn[u].op = "register"
        <4>1. /\ txn[u].id \in usedIds \ DOMAIN rows
              /\ \A v \in Threads : Busy(v) /\ txn[v].id = txn[u].id => v = u
          BY <3>1, <3>3 DEF InvIds
        <4>2. txn[u].id # t.id
          BY <3>1, <4>1
        <4> QED
          BY <1>2, <1>3, <1>6, <3>1, <3>3, <4>1, <4>2
      <3> QED
        BY <3>2, <3>3
    <2> QED
      BY <1>6, <2>1 DEF InvIds
  <1>10. InvEntity'
    BY <1>2, <1>3 DEF InvEntity
  <1>11. InvAnnounced'
    BY <1>2 DEF InvAnnounced, Idle, EventOf
  <1>12. UniqueImo'
    <2>1. CASE rows' = rows
      BY <2>1 DEF UniqueImo
    <2>2. CASE t.dirty /\ Allowed(t) /\ rows' = Written(t)
      <3>1. \A i \in DOMAIN rows : rows[i].imo = t.entity.imo => i = t.id
        <4>1. CASE t.op = "register"
          BY <2>2, <4>1 DEF Allowed, Taken
        <4>2. CASE t.op # "register"
          BY <4>2 DEF InvIds, UniqueImo
        <4> QED
          BY <4>1, <4>2
      <3>2. /\ DOMAIN rows' = DOMAIN rows \cup {t.id} /\ rows'[t.id] = t.entity
            /\ \A i \in DOMAIN rows : i # t.id => rows'[i] = rows[i]
        BY <2>2, WrittenFacts
      <3> QED
        BY <3>1, <3>2 DEF UniqueImo
    <2> QED
      BY <1>4, <2>1, <2>2
  <1>13. AnnouncedState'
    <2>1. CASE rows' = rows
      BY <2>1 DEF AnnouncedState
    <2>2. CASE t.step = "commit" /\ t.dirty /\ rows' = Written(t)
      <3>1. RoutingKeyFor(t.entity.status) # NoKey =>
              \E e \in events \cup unconfirmed :
                /\ e.request = t.entity.writer /\ e.vessel = t.id
                /\ e.status = t.entity.status /\ e.berth = t.entity.berth
        <4>1. t.entity.writer = t.request
          BY DEF InvEntity
        <4>2. RoutingKeyFor(t.entity.status) # NoKey => EventOf(t) \in events \cup unconfirmed
          BY <2>2 DEF InvAnnounced
        <4> QED
          BY <1>1, <4>1, <4>2, EventFacts
      <3>2. /\ DOMAIN rows' = DOMAIN rows \cup {t.id} /\ rows'[t.id] = t.entity
            /\ \A i \in DOMAIN rows : i # t.id => rows'[i] = rows[i]
        BY <2>2, WrittenFacts
      <3> QED
        BY <3>1, <3>2 DEF AnnouncedState
    <2> QED
      BY <1>4, <2>1, <2>2
  <1> QED
    BY <1>7, <1>8, <1>9, <1>10, <1>11, <1>12, <1>13

(* The event is sent, if the new status has one. *)
LEMMA PublishKeeps ==
  ASSUME IInv, NEW th \in Threads, publish(th)
  PROVE  IInv'
  <1> USE DEF IInv
  <1> DEFINE t == txn[th]
  <1>1. /\ t.step = "publish" /\ txn' = [txn EXCEPT ![th].step = "commit"] /\ Busy(th)
        /\ UNCHANGED <<rows, requests, response, committed, usedIds>>
    BY DEF publish, Busy
  <1>2. t \in Txn
    BY <1>1, TxnFacts
  <1>3. txn'[th] = [t EXCEPT !.step = "commit"] /\ \A u \in Threads \ {th} : txn'[u] = txn[u]
    BY <1>1 DEF TypeOK
  <1>4. /\ txn'[th] \in Txn /\ txn'[th].step = "commit" /\ txn'[th].op = t.op
        /\ txn'[th].request = t.request /\ txn'[th].id = t.id /\ txn'[th].entity = t.entity
        /\ txn'[th].dirty = t.dirty
    BY <1>2, <1>3 DEF Txn
  <1>5. /\ \A u \in Threads : Busy(u)' <=> Busy(u)
        /\ \A u \in Threads : Busy(u) =>
             /\ txn'[u].op = txn[u].op /\ txn'[u].request = txn[u].request
             /\ txn'[u].id = txn[u].id /\ txn'[u].entity = txn[u].entity
             /\ txn'[u].dirty = txn[u].dirty
    BY <1>1, <1>3, <1>4 DEF Busy
  <1>6. /\ events \subseteq events' /\ unconfirmed \subseteq unconfirmed'
        /\ faults' \in 0..MaxFaults
        /\ events' \subseteq Event /\ unconfirmed' \subseteq Event
        /\ RoutingKeyFor(t.entity.status) # NoKey => EventOf(t) \in events' \cup unconfirmed'
    BY <1>2, EventFacts, BoundAssumption DEF publish, TypeOK, Fault
  <1>7. TypeOK'
    <2>1. txn' \in [Threads -> Txn \cup {Idle}]
      BY <1>1, <1>3, <1>4 DEF TypeOK
    <2> QED
      BY <1>1, <1>6, <2>1 DEF TypeOK
  <1>8. InvRequests'
    BY <1>1, <1>5 DEF InvRequests
  <1>9. InvIds' /\ InvEntity'
    BY <1>1, <1>5 DEF InvIds, InvEntity
  <1>10. InvAnnounced'
    <2>1. EventOf(txn'[th]) = EventOf(t)
      BY <1>4 DEF EventOf
    <2>2. \A u \in Threads \ {th} : EventOf(txn'[u]) = EventOf(txn[u])
      BY <1>3
    <2>3. ASSUME NEW u \in Threads, txn'[u].step = "commit",
                 RoutingKeyFor(txn'[u].entity.status) # NoKey
          PROVE EventOf(txn'[u]) \in events' \cup unconfirmed'
      BY <1>3, <1>4, <1>6, <2>1, <2>2, <2>3 DEF InvAnnounced
    <2> QED
      BY <2>3 DEF InvAnnounced, EventOf
  <1>11. UniqueImo' /\ AnnouncedState'
    BY <1>1, <1>6 DEF UniqueImo, AnnouncedState
  <1> QED
    BY <1>7, <1>8, <1>9, <1>10, <1>11

(* The process dies. *)
LEMMA CrashKeeps ==
  ASSUME IInv, Crash
  PROVE  IInv'
  <1> USE DEF IInv
  <1>1. /\ txn' = [th \in Threads |-> Idle] /\ faults' \in 0..MaxFaults
        /\ UNCHANGED <<rows, requests, committed, events, unconfirmed, usedIds>>
    BY BoundAssumption DEF Crash, Fault, TypeOK
  <1>2. \A th \in Threads : ~Busy(th)' /\ txn'[th].step = "idle"
    BY <1>1 DEF Busy, Idle
  <1>3. response' = [n \in Requests |->
          IF \E th \in Threads : Busy(th) /\ txn[th].request = n THEN "error" ELSE response[n]]
    BY DEF Crash
  <1>4. TypeOK'
    BY <1>1, <1>3 DEF TypeOK
  <1>5. InvRequests'
    <2>1. \A n \in Requests : n > requests => response'[n] = response[n]
      <3>1. \A th \in Threads : Busy(th) => ~(txn[th].request > requests)
        BY TxnFacts, BoundAssumption DEF InvRequests, Requests, TypeOK
      <3> QED
        BY <1>3, <3>1
    <2> QED
      BY <1>1, <1>2, <2>1 DEF InvRequests
  <1>6. InvIds' /\ InvEntity' /\ InvAnnounced'
    BY <1>1, <1>2 DEF InvIds, InvEntity, InvAnnounced
  <1>7. UniqueImo' /\ AnnouncedState'
    BY <1>1 DEF UniqueImo, AnnouncedState
  <1> QED
    BY <1>4, <1>5, <1>6, <1>7

(* The read phase of the three operations on a registered vessel. *)
LEMMA ModifyKeeps ==
  ASSUME IInv, NEW th \in Threads, NEW i \in Ids, NEW op \in {"update", "reserve", "release"},
         NEW changed, Modify(th, op, i, changed),
         i \in DOMAIN rows =>
           /\ changed \in Row /\ changed.imo = rows[i].imo
           /\ op = "reserve" => changed.status = "BERTHED"
           /\ op = "release" => changed.status = "ARRIVING" /\ changed.berth = None
  PROVE  IInv'
  <1>1. Accept(th) /\ UNCHANGED <<rows, committed, events, unconfirmed, usedIds, faults>>
    BY DEF Modify
  <1>2. CASE /\ response' = [response EXCEPT ![NextRequest] = "notfound"]
             /\ txn' = txn
    BY <1>1, <1>2, RefuseKeeps
  <1>3. CASE i \in DOMAIN rows /\ response' = response
    <2> DEFINE t == [step |-> "publish", op |-> op, request |-> NextRequest, id |-> i,
                     entity |-> [changed EXCEPT !.writer = NextRequest],
                     dirty |-> changed # rows[i]]
    <2>1. txn' = [txn EXCEPT ![th] = t]
      BY <1>3, RefuseKeeps DEF Modify
    <2>2. NextRequest \in Requests
      BY <1>1, BoundAssumption DEF Accept, NextRequest, Requests, IInv, TypeOK
    <2>3. /\ changed \in Row /\ t.entity \in Row /\ t.entity.writer = NextRequest
          /\ t.entity.imo = rows[i].imo /\ t.entity.status = changed.status
          /\ t.entity.berth = changed.berth
      BY <1>3, <2>2 DEF Row
    <2>4. t \in Txn
      BY <2>2, <2>3 DEF Txn
    <2>5. /\ t.step = "publish" /\ t.request = NextRequest /\ t.op = op /\ t.id = i
      OBVIOUS
    <2>6. usedIds \subseteq Ids
      BY DEF IInv, TypeOK
    <2> HIDE DEF t
    <2> QED
      BY <1>1, <1>3, <2>1, <2>3, <2>4, <2>5, <2>6, BeginKeeps
  <1> QED
    BY <1>2, <1>3 DEF Modify

(* Every step keeps the invariant. *)
LEMMA IInvNext == IInv /\ [Next]_vars => IInv'
  <1> SUFFICES ASSUME IInv, [Next]_vars PROVE IInv'
    OBVIOUS
  <1>r. \A i \in DOMAIN rows : rows[i] \in Row /\ rows[i].berth \in BerthValue
    BY RowFacts DEF IInv, TypeOK
  <1>f. Fault => faults' \in 0..MaxFaults
    BY BoundAssumption DEF Fault, IInv, TypeOK
  <1>c. committed \subseteq Requests /\ faults \in 0..MaxFaults
    BY DEF IInv, TypeOK
  <1>0. CASE UNCHANGED vars
    BY <1>0 DEF vars, IInv, TypeOK, InvRequests, InvIds, InvEntity, InvAnnounced, UniqueImo,
       AnnouncedState, Busy, EventOf
  <1>1. ASSUME NEW th \in Threads, NEW imo \in Imos, NEW b \in BerthValue, register(th, imo, b)
        PROVE  IInv'
    <2>1. Accept(th) /\ UNCHANGED <<rows, committed, events, unconfirmed, faults>>
      BY <1>1 DEF register
    <2>2. CASE /\ response' = [response EXCEPT ![NextRequest] = "conflict"]
               /\ UNCHANGED <<txn, usedIds>>
      BY <2>1, <2>2, RefuseKeeps
    <2>3. ASSUME NEW i \in Ids \ usedIds, usedIds' = usedIds \cup {i}, response' = response,
                 txn' = [txn EXCEPT ![th] =
                   [step |-> "publish", op |-> "register", request |-> NextRequest, id |-> i,
                    entity |-> [imo |-> imo, status |-> "ARRIVING", berth |-> b,
                                writer |-> NextRequest],
                    dirty |-> TRUE]]
          PROVE  IInv'
      <3> DEFINE t == [step |-> "publish", op |-> "register", request |-> NextRequest, id |-> i,
                       entity |-> [imo |-> imo, status |-> "ARRIVING", berth |-> b,
                                   writer |-> NextRequest],
                       dirty |-> TRUE]
      <3>1. NextRequest \in Requests
        BY <2>1, BoundAssumption DEF Accept, NextRequest, Requests, IInv, TypeOK
      <3>2. t \in Txn /\ t.entity.writer = NextRequest
        BY <3>1 DEF Txn, Row, VesselStatus
      <3>3. t.step = "publish" /\ t.request = NextRequest /\ t.op = "register" /\ t.id = i /\ t.dirty
        OBVIOUS
      <3>4. usedIds' \subseteq Ids /\ i \in usedIds' \ usedIds
        BY <2>3 DEF IInv, TypeOK
      <3>5. txn' = [txn EXCEPT ![th] = t]
        BY <2>3
      <3> HIDE DEF t
      <3> QED
        BY <2>1, <2>3, <3>2, <3>3, <3>4, <3>5, BeginKeeps
    <2> QED
      BY <1>1, <2>2, <2>3 DEF register
  <1>2. ASSUME NEW th \in Threads, NEW i \in Ids, NEW s \in VesselStatus,
               NEW b \in BerthValue \cup {Keep}, updateStatus(th, i, s, b)
        PROVE  IInv'
    <2> DEFINE berth == IF b = Keep THEN rows[i].berth ELSE b
    <2>1. Modify(th, "update", i, Updated(rows[i], s, berth))
      BY <1>2 DEF updateStatus
    <2>2. i \in DOMAIN rows => berth \in BerthValue
      BY <1>r
    <2>3. i \in DOMAIN rows => /\ Updated(rows[i], s, berth) \in Row
                               /\ Updated(rows[i], s, berth).imo = rows[i].imo
      BY <1>r, <2>2, OperationFacts
    <2> QED
      BY <2>1, <2>3, ModifyKeeps
  <1>3. ASSUME NEW th \in Threads, NEW i \in Ids, NEW b \in Berths, reserveBerth(th, i, b)
        PROVE  IInv'
    <2>1. Modify(th, "reserve", i, Reserved(rows[i], b))
      BY <1>3 DEF reserveBerth
    <2>2. i \in DOMAIN rows => /\ Reserved(rows[i], b) \in Row
                               /\ Reserved(rows[i], b).imo = rows[i].imo
                               /\ Reserved(rows[i], b).status = "BERTHED"
      <3>1. b \in BerthValue /\ "BERTHED" \in VesselStatus
        BY DEF BerthValue, VesselStatus
      <3> QED
        BY <1>r, <3>1, OperationFacts
    <2> QED
      BY <2>1, <2>2, ModifyKeeps
  <1>4. ASSUME NEW th \in Threads, NEW i \in Ids, releaseBerth(th, i) PROVE IInv'
    <2>1. Modify(th, "release", i, Released(rows[i]))
      BY <1>4 DEF releaseBerth
    <2>2. i \in DOMAIN rows => /\ Released(rows[i]) \in Row
                               /\ Released(rows[i]).imo = rows[i].imo
                               /\ Released(rows[i]).status = "ARRIVING"
                               /\ Released(rows[i]).berth = None
      <3>1. None \in BerthValue /\ "ARRIVING" \in VesselStatus
        BY DEF BerthValue, VesselStatus
      <3> QED
        BY <1>r, <3>1, OperationFacts
    <2> QED
      BY <2>1, <2>2, ModifyKeeps
  <1>5. ASSUME NEW th \in Threads, publish(th) PROVE IInv'
    BY <1>5, PublishKeeps
  <1>6. ASSUME NEW th \in Threads, publishThrows(th) PROVE IInv'
    BY <1>6, <1>f, <1>c, EndKeeps DEF publishThrows, Busy
  <1>7. ASSUME NEW th \in Threads, Commit(th) PROVE IInv'
    <2>1. Busy(th)
      BY <1>7 DEF Commit, Busy
    <2>2. txn[th].request \in Requests
      BY <2>1, TxnFacts DEF IInv
    <2> QED
      BY <1>7, <1>c, <2>1, <2>2, EndKeeps DEF Commit
  <1>8. ASSUME NEW th \in Threads, CommitFails(th) PROVE IInv'
    <2>1. Busy(th)
      BY <1>8 DEF CommitFails, Busy
    <2>2. txn[th].request \in Requests
      BY <2>1, TxnFacts DEF IInv
    <2> QED
      BY <1>8, <1>f, <1>c, <2>1, <2>2, EndKeeps DEF CommitFails
  <1>9. CASE Crash
    BY <1>9, CrashKeeps
  <1> QED
    BY <1>0, <1>1, <1>2, <1>3, <1>4, <1>5, <1>6, <1>7, <1>8, <1>9 DEF Next

(* The invariant holds throughout. *)
LEMMA Invariant == Spec => []IInv
  BY IInvInit, IInvNext, PTL DEF Spec

-----------------------------------------------------------------------------
(* The refinement of VesselRegistry.                                       *)

(* A transaction that begins is a request that is submitted. *)
LEMMA BeginOpens ==
  ASSUME IInv, NEW th \in Threads, Accept(th), NEW t \in Txn, txn' = [txn EXCEPT ![th] = t]
  PROVE  OpenRequests' = OpenRequests \cup {RequestOf(t)}
  <1>1. ~Busy(th) /\ txn'[th] = t /\ \A u \in Threads \ {th} : txn'[u] = txn[u]
    BY DEF Accept, IInv, TypeOK
  <1>2. t.step # "idle"
    BY DEF Txn
  <1>3. Busy(th)' /\ \A u \in Threads \ {th} : Busy(u)' <=> Busy(u)
    BY <1>1, <1>2 DEF Busy
  <1>4. ASSUME NEW q \in OpenRequests' PROVE q \in OpenRequests \cup {RequestOf(t)}
    <2>1. PICK u \in Threads : Busy(u)' /\ q = RequestOf(txn'[u])
      BY <1>4 DEF OpenRequests, RequestOf, VesselOf
    <2> QED
      BY <1>1, <1>3, <2>1 DEF OpenRequests
  <1>5. ASSUME NEW q \in OpenRequests \cup {RequestOf(t)} PROVE q \in OpenRequests'
    <2>1. PICK u \in Threads : Busy(u)' /\ q = RequestOf(txn'[u])
      BY <1>1, <1>3 DEF OpenRequests
    <2> QED
      BY <2>1 DEF OpenRequests, RequestOf, VesselOf
  <1> QED
    BY <1>4, <1>5

(* A transaction that ends is a request that is answered. *)
LEMMA EndCloses ==
  ASSUME IInv, NEW th \in Threads, Busy(th), txn' = [txn EXCEPT ![th] = Idle]
  PROVE  /\ RequestOf(txn[th]) \in OpenRequests
         /\ OpenRequests' = OpenRequests \ {RequestOf(txn[th])}
  <1>1. txn'[th] = Idle /\ \A u \in Threads \ {th} : txn'[u] = txn[u]
    BY DEF IInv, TypeOK
  <1>2. ~Busy(th)' /\ \A u \in Threads \ {th} : Busy(u)' <=> Busy(u)
    BY <1>1 DEF Busy, Idle
  <1>3. RequestOf(txn[th]) \in OpenRequests
    BY DEF OpenRequests
  <1>4. \A u \in Threads \ {th} : Busy(u) => RequestOf(txn[u]) # RequestOf(txn[th])
    BY DEF RequestOf, IInv, InvRequests
  <1>5. ASSUME NEW q \in OpenRequests' PROVE q \in OpenRequests \ {RequestOf(txn[th])}
    <2>1. PICK u \in Threads : Busy(u)' /\ q = RequestOf(txn'[u])
      BY <1>5 DEF OpenRequests, RequestOf, VesselOf
    <2> QED
      BY <1>1, <1>2, <1>4, <2>1 DEF OpenRequests
  <1>6. ASSUME NEW q \in OpenRequests \ {RequestOf(txn[th])} PROVE q \in OpenRequests'
    <2>1. PICK u \in Threads : Busy(u) /\ q = RequestOf(txn[u])
      BY DEF OpenRequests
    <2>2. u # th
      BY <2>1
    <2>3. Busy(u)' /\ q = RequestOf(txn'[u])
      BY <1>1, <1>2, <2>1, <2>2
    <2> QED
      BY <2>3 DEF OpenRequests, RequestOf, VesselOf
  <1> QED
    BY <1>3, <1>5, <1>6

(* The next request has no answer and is not open. *)
LEMMA NextUnanswered ==
  ASSUME IInv, NEW th \in Threads, Accept(th)
  PROVE  NextRequest \in Requests /\ Registry!Unanswered(NextRequest)
  <1>1. /\ requests \in 0..MaxRequests /\ MaxRequests \in Nat /\ requests < MaxRequests
        /\ NextRequest = requests + 1 /\ NextRequest \in Requests
    BY BoundAssumption DEF IInv, TypeOK, Accept, NextRequest, Requests
  <1>2. response[NextRequest] = "none"
    BY <1>1 DEF IInv, InvRequests, Requests
  <1>3. ASSUME NEW q \in OpenRequests PROVE q.request # NextRequest
    <2>1. PICK u \in Threads : Busy(u) /\ q = RequestOf(txn[u])
      BY DEF OpenRequests
    <2>2. txn[u].request \in Requests /\ txn[u].request <= requests
      BY <2>1, TxnFacts DEF IInv, InvRequests
    <2>3. q.request = txn[u].request
      BY <2>1 DEF RequestOf
    <2> QED
      BY <1>1, <2>2, <2>3 DEF Requests
  <1> QED
    BY <1>1, <1>2, <1>3 DEF Registry!Unanswered

(* The committed rows as vessels. *)
LEMMA VesselFacts ==
  ASSUME IInv
  PROVE  /\ DOMAIN Vessels = DOMAIN rows
         /\ \A i \in DOMAIN rows : Vessels[i] = VesselOf(rows[i])
         /\ \A imo : Registry!Registered(imo) <=> Taken(imo)
  BY DEF Vessels, VesselOf, Registry!Registered, Taken

(* The refused and the submitted requests. *)
LEMMA RefuseRefines ==
  ASSUME IInv, NEW th \in Threads, Accept(th), UNCHANGED <<rows, txn>>,
         NEW a, response' = [response EXCEPT ![NextRequest] = a],
         \/ a = "conflict" /\ \E imo \in Imos : Taken(imo)
         \/ a = "notfound" /\ \E i \in Ids : i \notin DOMAIN rows
  PROVE  Registry!Next
  <1>1. OpenRequests' = OpenRequests /\ Vessels' = Vessels
    BY DEF OpenRequests, Vessels, Busy, RequestOf, VesselOf
  <1>2. Registry!Refuse(NextRequest, a)
    BY <1>1, NextUnanswered, VesselFacts DEF Registry!Refuse
  <1> QED
    BY <1>2, NextUnanswered DEF Registry!Next

(* A transaction that has read its row is a request submitted to the       *)
(* registry.                                                               *)
LEMMA SubmitRefines ==
  ASSUME IInv, NEW th \in Threads, Accept(th), UNCHANGED <<rows, response>>,
         NEW t \in Txn, txn' = [txn EXCEPT ![th] = t], t.request = NextRequest,
         IF t.op = "register" THEN ~Taken(t.entity.imo) /\ t.id \notin DOMAIN rows /\ t.dirty
         ELSE t.id \in DOMAIN rows /\ (t.dirty <=> VesselOf(t.entity) # VesselOf(rows[t.id]))
  PROVE  Registry!Submit(NextRequest, t.op, t.id, VesselOf(t.entity))
  <1>1. OpenRequests' = OpenRequests \cup {RequestOf(t)}
    BY BeginOpens
  <1>2. Vessels' = Vessels
    BY DEF Vessels, VesselOf
  <1> DEFINE q == [request |-> NextRequest, op |-> t.op, id |-> t.id, goal |-> VesselOf(t.entity),
                   effective |-> t.id \in DOMAIN Vessels /\ VesselOf(t.entity) = Vessels[t.id]]
  <1>3. q = RequestOf(t)
    <2>1. t.dirty \in BOOLEAN
      BY DEF Txn
    <2>2. (t.id \in DOMAIN Vessels /\ VesselOf(t.entity) = Vessels[t.id]) = ~t.dirty
      BY <2>1, VesselFacts
    <2> QED
      BY <2>2 DEF RequestOf
  <1>4. Registry!Possible(q)
    BY VesselFacts DEF Registry!Possible, VesselOf
  <1> QED
    BY <1>1, <1>2, <1>3, <1>4, NextUnanswered DEF Registry!Submit

(* The operations of the registry on a vessel. *)
LEMMA EffectFacts ==
  ASSUME NEW v \in [imo : Imos, status : VesselStatus, berth : BerthValue],
         NEW s \in VesselStatus, NEW b \in BerthValue
  PROVE  /\ Registry!Updated(v, s, b) = [imo |-> v.imo, status |-> s, berth |-> b]
         /\ Registry!Reserved(v, b) = [imo |-> v.imo, status |-> "BERTHED", berth |-> b]
         /\ Registry!Released(v) = [imo |-> v.imo, status |-> "ARRIVING", berth |-> None]
  <1> DEFINE V == [imo : Imos, status : VesselStatus, berth : BerthValue]
  <1>1. ASSUME NEW w \in V
        PROVE  w = [imo |-> w.imo, status |-> w.status, berth |-> w.berth]
    OBVIOUS
  <1>2. /\ Registry!Updated(v, s, b) \in V /\ Registry!Updated(v, s, b).imo = v.imo
        /\ Registry!Updated(v, s, b).status = s /\ Registry!Updated(v, s, b).berth = b
    BY DEF Registry!Updated
  <1>3. /\ Registry!Reserved(v, b) \in V /\ Registry!Reserved(v, b).imo = v.imo
        /\ Registry!Reserved(v, b).status = "BERTHED" /\ Registry!Reserved(v, b).berth = b
    BY DEF Registry!Reserved, VesselStatus
  <1>4. /\ Registry!Released(v) \in V /\ Registry!Released(v).imo = v.imo
        /\ Registry!Released(v).status = "ARRIVING" /\ Registry!Released(v).berth = None
    BY DEF Registry!Released, VesselStatus, BerthValue
  <1> HIDE DEF V
  <1> QED
    BY <1>1, <1>2, <1>3, <1>4

(* A commit that writes is the effect of its request on the registry as it *)
(* is at that moment, whatever was committed since the transaction read.   *)
LEMMA CommitApplies ==
  ASSUME IInv, NEW th \in Threads, Busy(th), txn[th].dirty, Allowed(txn[th]),
         rows' = Written(txn[th])
  PROVE  /\ Registry!Possible(RequestOf(txn[th]))
         /\ Vessels' = Registry!Applied(RequestOf(txn[th]))
  <1> DEFINE t == txn[th]
             q == RequestOf(t)
  <1>1. /\ t.entity \in Row /\ t.id \in Ids
        /\ t.op \in {"register", "update", "reserve", "release"}
    BY TxnFacts DEF IInv
  <1>2. /\ q.op = t.op /\ q.id = t.id /\ q.goal = VesselOf(t.entity)
        /\ q.goal.imo = t.entity.imo /\ q.goal.status = t.entity.status
        /\ q.goal.berth = t.entity.berth
    BY DEF RequestOf, VesselOf
  <1>3. IF t.op = "register" THEN t.id \notin DOMAIN rows
        ELSE t.id \in DOMAIN rows /\ rows[t.id].imo = t.entity.imo
    BY DEF IInv, InvIds
  <1>4. Registry!Possible(q)
    BY <1>2, <1>3, VesselFacts DEF Registry!Possible, Allowed
  <1>5. Registry!Effect(q) = VesselOf(t.entity)
    <2>1. CASE t.op = "register"
      BY <1>2, <2>1 DEF Registry!Effect
    <2>2. ASSUME t.op # "register"
          PROVE  /\ Vessels[t.id] \in [imo : Imos, status : VesselStatus, berth : BerthValue]
                 /\ Vessels[t.id].imo = t.entity.imo
      <3>1. rows[t.id] \in Row
        BY <1>3, <2>2 DEF IInv, TypeOK
      <3>2. Vessels[t.id] = VesselOf(rows[t.id])
        BY <1>3, <2>2, VesselFacts
      <3> QED
        BY <1>3, <2>2, <3>1, <3>2, RowFacts DEF VesselOf
    <2>r. t.entity.status \in VesselStatus /\ t.entity.berth \in BerthValue
      BY <1>1, RowFacts
    <2> HIDE DEF q
    <2>3. CASE t.op = "update"
      <3>1. Registry!Effect(q) = Registry!Updated(Vessels[t.id], t.entity.status, t.entity.berth)
        BY <1>2, <2>3 DEF Registry!Effect
      <3> QED
        BY <2>2, <2>3, <2>r, <3>1, EffectFacts DEF VesselOf
    <2>4. CASE t.op = "reserve"
      <3>1. t.entity.status = "BERTHED"
        BY <2>4 DEF IInv, InvEntity
      <3>2. Registry!Effect(q) = Registry!Reserved(Vessels[t.id], t.entity.berth)
        BY <1>2, <2>4 DEF Registry!Effect
      <3> QED
        BY <2>2, <2>4, <2>r, <3>1, <3>2, EffectFacts DEF VesselOf
    <2>5. CASE t.op = "release"
      <3>1. t.entity.status = "ARRIVING" /\ t.entity.berth = None
        BY <2>5 DEF IInv, InvEntity
      <3>2. Registry!Effect(q) = Registry!Released(Vessels[t.id])
        BY <1>2, <2>5 DEF Registry!Effect
      <3> QED
        BY <2>2, <2>5, <2>r, <3>1, <3>2, EffectFacts DEF VesselOf
    <2> QED
      BY <1>1, <2>1, <2>3, <2>4, <2>5
  <1>6. /\ DOMAIN rows' = DOMAIN rows \cup {t.id} /\ rows'[t.id] = t.entity
        /\ \A i \in DOMAIN rows : i # t.id => rows'[i] = rows[i]
    BY WrittenFacts
  <1>7. Vessels' = [i \in DOMAIN rows \cup {t.id} |->
                      IF i = t.id THEN VesselOf(t.entity) ELSE Vessels[i]]
    <2>1. Vessels' = [i \in DOMAIN rows' |-> VesselOf(rows'[i])]
      BY DEF Vessels, VesselOf
    <2>2. \A i \in DOMAIN rows \cup {t.id} :
            VesselOf(rows'[i]) = IF i = t.id THEN VesselOf(t.entity) ELSE Vessels[i]
      BY <1>6, VesselFacts
    <2> QED
      BY <1>6, <2>1, <2>2
  <1>8. Registry!Applied(q) = [i \in DOMAIN rows \cup {t.id} |->
                                 IF i = t.id THEN VesselOf(t.entity) ELSE Vessels[i]]
    BY <1>2, <1>5, VesselFacts DEF Registry!Applied
  <1> QED
    BY <1>4, <1>7, <1>8

(* A request ends without an effect, or with it. *)
LEMMA EndRefines ==
  ASSUME IInv, NEW th \in Threads, Busy(th), NEW a \in {"ok", "error"}, Answer(th, a),
         \/ rows' = rows /\ (a = "ok" => ~txn[th].dirty)
         \/ txn[th].dirty /\ Allowed(txn[th]) /\ rows' = Written(txn[th])
  PROVE  Registry!Next
  <1> DEFINE q == RequestOf(txn[th])
  <1>1. /\ q \in OpenRequests /\ OpenRequests' = OpenRequests \ {q}
        /\ response' = [response EXCEPT ![q.request] = a]
        /\ q.effective = ~txn[th].dirty
    BY EndCloses DEF Answer, RequestOf
  <1>2. txn[th].dirty \in BOOLEAN
    BY TxnFacts DEF IInv
  <1>3. \/ Vessels' = Vessels /\ (a = "ok" => q.effective)
        \/ ~q.effective /\ Registry!Possible(q) /\ Vessels' = Registry!Applied(q)
    <2>1. CASE rows' = rows /\ (a = "ok" => ~txn[th].dirty)
      BY <1>1, <2>1 DEF Vessels, VesselOf
    <2>2. CASE txn[th].dirty /\ Allowed(txn[th]) /\ rows' = Written(txn[th])
      BY <1>1, <1>2, <2>2, CommitApplies
    <2> QED
      BY <2>1, <2>2
  <1> HIDE DEF q
  <1>4. Registry!Succeed(q) \/ Registry!Fail(q)
    BY <1>1, <1>3 DEF Registry!Succeed, Registry!Fail
  <1> QED
    BY <1>1, <1>4 DEF Registry!Next

(* A crash fails every request in progress. *)
LEMMA CrashRefines ==
  ASSUME IInv, Crash
  PROVE  Registry!FailAll
  <1>1. OpenRequests # {}
    BY DEF Crash, OpenRequests
  <1>2. OpenRequests' = {} /\ Vessels' = Vessels
    <2>1. \A th \in Threads : ~Busy(th)'
      BY DEF Crash, Busy, Idle
    <2> QED
      BY <2>1 DEF Crash, OpenRequests, Vessels, VesselOf
  <1>3. \A n \in Requests : (\E th \in Threads : Busy(th) /\ txn[th].request = n)
                              <=> (\E q \in OpenRequests : q.request = n)
    <2>1. \A th \in Threads : RequestOf(txn[th]).request = txn[th].request
      BY DEF RequestOf
    <2> QED
      BY <2>1 DEF OpenRequests
  <1>4. \A n \in Requests : (\E th \in Threads : Busy(th) /\ txn[th].request = n)
                              => response[n] = "none"
    BY DEF IInv, InvRequests
  <1>5. response' = [n \in Requests |-> IF Registry!Unanswered(n) THEN "none"
                                        ELSE IF response[n] = "none" THEN "error" ELSE response[n]]
    BY <1>3, <1>4 DEF Crash, Registry!Unanswered
  <1> QED
    BY <1>1, <1>2, <1>5 DEF Registry!FailAll

(* The read phase of an operation on a vessel is its submission. *)
LEMMA ModifyRefines ==
  ASSUME IInv, NEW th \in Threads, NEW i \in Ids, NEW op \in {"update", "reserve", "release"},
         NEW changed, Modify(th, op, i, changed),
         i \in DOMAIN rows => /\ changed \in Row /\ changed.imo = rows[i].imo
                              /\ changed.writer = rows[i].writer
  PROVE  \/ Registry!Next
         \/ i \in DOMAIN rows /\ Registry!Submit(NextRequest, op, i, VesselOf(changed))
  <1>1. Accept(th) /\ UNCHANGED rows
    BY DEF Modify
  <1>2. CASE /\ i \notin DOMAIN rows
             /\ response' = [response EXCEPT ![NextRequest] = "notfound"]
             /\ txn' = txn
    BY <1>1, <1>2, RefuseRefines
  <1>3. CASE i \in DOMAIN rows
    <2> DEFINE t == [step |-> "publish", op |-> op, request |-> NextRequest, id |-> i,
                     entity |-> [changed EXCEPT !.writer = NextRequest],
                     dirty |-> changed # rows[i]]
    <2>1. txn' = [txn EXCEPT ![th] = t] /\ response' = response
      BY <1>3 DEF Modify
    <2>2. NextRequest \in Requests
      BY <1>1, NextUnanswered
    <2>3. /\ changed \in Row /\ t.entity \in Row /\ VesselOf(t.entity) = VesselOf(changed)
      BY <1>3, <2>2 DEF Row, VesselOf
    <2>4. t \in Txn /\ t.request = NextRequest /\ t.op = op /\ t.id = i
      BY <2>2, <2>3 DEF Txn
    <2>5. t.dirty <=> VesselOf(changed) # VesselOf(rows[i])
      <3>1. rows[i] \in Row
        BY <1>3 DEF IInv, TypeOK
      <3>2. VesselOf(changed) = VesselOf(rows[i]) => changed = rows[i]
        <4>1. VesselOf(changed) = VesselOf(rows[i])
                => changed.status = rows[i].status /\ changed.berth = rows[i].berth
          BY DEF VesselOf
        <4> QED
          BY <1>3, <3>1, <4>1, RowFacts
      <3> QED
        BY <3>2
    <2> HIDE DEF t
    <2>6. Registry!Submit(NextRequest, t.op, t.id, VesselOf(t.entity))
      BY <1>1, <1>3, <2>1, <2>3, <2>4, <2>5, SubmitRefines
    <2> QED
      BY <1>3, <2>3, <2>4, <2>6
  <1> QED
    BY <1>2, <1>3 DEF Modify

(* Every step of a transaction is a step of the registry, or none. *)
LEMMA StepRefines == IInv /\ [Next]_vars => [Registry!Next]_(Registry!vars)
  <1> SUFFICES ASSUME IInv, [Next]_vars PROVE Registry!Next \/ UNCHANGED Registry!vars
    OBVIOUS
  <1>r. \A i \in DOMAIN rows : /\ rows[i] \in Row /\ rows[i].berth \in BerthValue /\ i \in DOMAIN Vessels
                               /\ Vessels[i] \in [imo : Imos, status : VesselStatus, berth : BerthValue]
                               /\ Vessels[i].imo = rows[i].imo
    <2>1. \A i \in DOMAIN rows : rows[i] \in Row
      BY DEF IInv, TypeOK
    <2>2. \A i \in DOMAIN rows : i \in DOMAIN Vessels /\ Vessels[i] = VesselOf(rows[i])
      BY VesselFacts
    <2>3. \A row \in Row : /\ VesselOf(row) \in [imo : Imos, status : VesselStatus, berth : BerthValue]
                           /\ VesselOf(row).imo = row.imo /\ row.berth \in BerthValue
      BY RowFacts DEF VesselOf
    <2> QED
      BY <2>1, <2>2, <2>3
  <1>0. CASE UNCHANGED <<rows, txn, response>>
    BY <1>0 DEF Registry!vars, Vessels, OpenRequests, VesselOf, RequestOf, Busy
  <1>1. ASSUME NEW th \in Threads, NEW imo \in Imos, NEW b \in BerthValue, register(th, imo, b)
        PROVE  Registry!Next
    <2>1. Accept(th) /\ UNCHANGED rows /\ NextRequest \in Requests
      BY <1>1, NextUnanswered DEF register
    <2>2. CASE /\ Taken(imo)
               /\ response' = [response EXCEPT ![NextRequest] = "conflict"]
               /\ UNCHANGED <<txn, usedIds>>
      BY <2>1, <2>2, RefuseRefines
    <2>3. ASSUME ~Taken(imo), NEW i \in Ids \ usedIds, response' = response,
                 txn' = [txn EXCEPT ![th] =
                   [step |-> "publish", op |-> "register", request |-> NextRequest, id |-> i,
                    entity |-> [imo |-> imo, status |-> "ARRIVING", berth |-> b,
                                writer |-> NextRequest],
                    dirty |-> TRUE]]
          PROVE  Registry!Next
      <3> DEFINE t == [step |-> "publish", op |-> "register", request |-> NextRequest, id |-> i,
                       entity |-> [imo |-> imo, status |-> "ARRIVING", berth |-> b,
                                   writer |-> NextRequest],
                       dirty |-> TRUE]
      <3>1. t \in Txn
        BY <2>1 DEF Txn, Row, VesselStatus
      <3>2. /\ t.request = NextRequest /\ t.op = "register" /\ t.id = i /\ t.dirty
            /\ t.entity.imo = imo
            /\ VesselOf(t.entity) = [imo |-> imo, status |-> "ARRIVING", berth |-> b]
        BY DEF VesselOf
      <3>3. i \notin DOMAIN rows
        BY DEF IInv, InvIds
      <3>4. txn' = [txn EXCEPT ![th] = t]
        BY <2>3
      <3> HIDE DEF t
      <3>5. Registry!Submit(NextRequest, t.op, t.id, VesselOf(t.entity))
        BY <2>1, <2>3, <3>1, <3>2, <3>3, <3>4, SubmitRefines
      <3>6. b \in Registry!BerthValue
        BY DEF Registry!BerthValue, BerthValue
      <3> QED
        BY <2>1, <3>2, <3>5, <3>6 DEF Registry!Next
    <2> QED
      BY <1>1, <2>2, <2>3 DEF register
  <1>2. ASSUME NEW th \in Threads, NEW i \in Ids, NEW s \in VesselStatus,
               NEW b \in BerthValue \cup {Keep}, updateStatus(th, i, s, b)
        PROVE  Registry!Next
    <2> DEFINE berth == IF b = Keep THEN rows[i].berth ELSE b
               changed == Updated(rows[i], s, berth)
    <2>1. Modify(th, "update", i, changed)
      BY <1>2 DEF updateStatus
    <2>2. NextRequest \in Requests
      BY <2>1, NextUnanswered DEF Modify
    <2>3. i \in DOMAIN rows => /\ berth \in BerthValue
                               /\ changed \in Row /\ changed.imo = rows[i].imo
                               /\ changed.status = s /\ changed.berth = berth
                               /\ changed.writer = rows[i].writer
      BY <1>r, OperationFacts
    <2>4. \/ Registry!Next
          \/ i \in DOMAIN rows /\ Registry!Submit(NextRequest, "update", i, VesselOf(changed))
      BY <2>1, <2>3, ModifyRefines
    <2>5. i \in DOMAIN rows => VesselOf(changed) = Registry!Updated(Vessels[i], s, berth)
      BY <1>r, <2>3, EffectFacts DEF VesselOf
    <2>6. s \in Registry!VesselStatus /\ (i \in DOMAIN rows => berth \in Registry!BerthValue)
      BY <2>3 DEF Registry!VesselStatus, VesselStatus, Registry!BerthValue, BerthValue
    <2> HIDE DEF berth, changed
    <2> QED
      BY <1>r, <2>2, <2>4, <2>5, <2>6 DEF Registry!Next
  <1>3. ASSUME NEW th \in Threads, NEW i \in Ids, NEW b \in Berths, reserveBerth(th, i, b)
        PROVE  Registry!Next
    <2> DEFINE changed == Reserved(rows[i], b)
    <2>1. Modify(th, "reserve", i, changed)
      BY <1>3 DEF reserveBerth
    <2>2. NextRequest \in Requests
      BY <2>1, NextUnanswered DEF Modify
    <2>3. i \in DOMAIN rows => /\ changed \in Row /\ changed.imo = rows[i].imo
                               /\ changed.status = "BERTHED" /\ changed.berth = b
                               /\ changed.writer = rows[i].writer
      <3>1. b \in BerthValue /\ "BERTHED" \in VesselStatus
        BY DEF BerthValue, VesselStatus
      <3> QED
        BY <1>r, <3>1, OperationFacts
    <2>4. \/ Registry!Next
          \/ i \in DOMAIN rows /\ Registry!Submit(NextRequest, "reserve", i, VesselOf(changed))
      BY <2>1, <2>3, ModifyRefines
    <2>5. i \in DOMAIN rows => VesselOf(changed) = Registry!Reserved(Vessels[i], b)
      <3>1. b \in BerthValue /\ "BERTHED" \in VesselStatus
        BY DEF BerthValue, VesselStatus
      <3> QED
        BY <1>r, <2>3, <3>1, EffectFacts DEF VesselOf
    <2> HIDE DEF changed
    <2> QED
      BY <1>r, <2>2, <2>4, <2>5 DEF Registry!Next
  <1>4. ASSUME NEW th \in Threads, NEW i \in Ids, releaseBerth(th, i) PROVE Registry!Next
    <2> DEFINE changed == Released(rows[i])
    <2>1. Modify(th, "release", i, changed)
      BY <1>4 DEF releaseBerth
    <2>2. NextRequest \in Requests
      BY <2>1, NextUnanswered DEF Modify
    <2>3. i \in DOMAIN rows => /\ changed \in Row /\ changed.imo = rows[i].imo
                               /\ changed.status = "ARRIVING" /\ changed.berth = None
                               /\ changed.writer = rows[i].writer
      <3>1. None \in BerthValue /\ "ARRIVING" \in VesselStatus
        BY DEF BerthValue, VesselStatus
      <3> QED
        BY <1>r, <3>1, OperationFacts
    <2>4. \/ Registry!Next
          \/ i \in DOMAIN rows /\ Registry!Submit(NextRequest, "release", i, VesselOf(changed))
      BY <2>1, <2>3, ModifyRefines
    <2>5. i \in DOMAIN rows => VesselOf(changed) = Registry!Released(Vessels[i])
      <3>1. None \in BerthValue /\ "ARRIVING" \in VesselStatus
        BY DEF BerthValue, VesselStatus
      <3> QED
        BY <1>r, <2>3, <3>1, EffectFacts DEF VesselOf
    <2> HIDE DEF changed
    <2> QED
      BY <1>r, <2>2, <2>4, <2>5 DEF Registry!Next
  <1>5. ASSUME NEW th \in Threads, publish(th) PROVE UNCHANGED Registry!vars
    <2>1. Busy(th) /\ txn' = [txn EXCEPT ![th].step = "commit"] /\ UNCHANGED <<rows, response>>
      BY <1>5 DEF publish, Busy
    <2>2. txn[th] \in Txn
      BY <2>1, TxnFacts DEF IInv
    <2>3. \A u \in Threads : (Busy(u)' <=> Busy(u)) /\ RequestOf(txn'[u]) = RequestOf(txn[u])
      <3>1. txn'[th] = [txn[th] EXCEPT !.step = "commit"] /\ \A u \in Threads \ {th} : txn'[u] = txn[u]
        BY <2>1 DEF IInv, TypeOK
      <3>2. /\ txn'[th].step = "commit" /\ txn'[th].op = txn[th].op
            /\ txn'[th].request = txn[th].request /\ txn'[th].id = txn[th].id
            /\ txn'[th].entity = txn[th].entity /\ txn'[th].dirty = txn[th].dirty
        BY <2>2, <3>1 DEF Txn
      <3>3. RequestOf(txn'[th]) = RequestOf(txn[th])
        BY <3>2 DEF RequestOf
      <3> QED
        BY <2>1, <3>1, <3>2, <3>3 DEF Busy
    <2>4. OpenRequests' = {RequestOf(txn'[u]) : u \in {v \in Threads : Busy(v)'}}
      BY DEF OpenRequests, RequestOf, VesselOf
    <2>5. OpenRequests' = OpenRequests
      BY <2>3, <2>4 DEF OpenRequests
    <2> QED
      BY <2>1, <2>5 DEF Registry!vars, Vessels, VesselOf
  <1>6. ASSUME NEW th \in Threads, publishThrows(th) PROVE Registry!Next
    BY <1>6, EndRefines DEF publishThrows, Busy
  <1>7. ASSUME NEW th \in Threads, Commit(th) PROVE Registry!Next
    <2>1. Busy(th)
      BY <1>7 DEF Commit, Busy
    <2>2. ~txn[th].dirty => Written(txn[th]) = rows
      BY DEF Written
    <2> QED
      BY <1>7, <2>1, <2>2, EndRefines DEF Commit
  <1>8. ASSUME NEW th \in Threads, CommitFails(th) PROVE Registry!Next
    <2>1. Busy(th)
      BY <1>8 DEF CommitFails, Busy
    <2>2. ~txn[th].dirty => Written(txn[th]) = rows
      BY DEF Written
    <2> QED
      BY <1>8, <2>1, <2>2, EndRefines DEF CommitFails
  <1>9. CASE Crash
    BY <1>9, CrashRefines DEF Registry!Next
  <1>10. CASE UNCHANGED vars
    BY <1>0, <1>10 DEF vars
  <1> QED
    BY <1>1, <1>2, <1>3, <1>4, <1>5, <1>6, <1>7, <1>8, <1>9, <1>10 DEF Next

-----------------------------------------------------------------------------
(* Every variable of the service keeps its type (VesselService). *)
THEOREM TypeCorrect == Spec => []TypeOK
  <1>1. IInv => TypeOK
    BY DEF IInv
  <1> QED
    BY <1>1, Invariant, PTL

(* Concurrent registrations never leave two vessels with one IMO number,   *)
(* although register checks and inserts in two steps.                      *)
THEOREM ImoUnique == Spec => []UniqueImo
  <1>1. IInv => UniqueImo
    BY DEF IInv
  <1> QED
    BY <1>1, Invariant, PTL

(* What is committed was announced before (lifecycleProducer.publish). *)
THEOREM ChangesAnnounced == Spec => []AnnouncedState
  <1>1. IInv => AnnouncedState
    BY DEF IInv
  <1> QED
    BY <1>1, Invariant, PTL

(* The transactions of the Vessel Service, with their stale reads, lost    *)
(* answers and crashes, implement the registry of atomic requests.         *)
THEOREM RegistryImplemented == Spec => ImplementsRegistry
  <1>1. Init => Registry!Init
    <2> SUFFICES ASSUME Init PROVE Registry!Init
      OBVIOUS
    <2>1. DOMAIN rows = {} /\ \A th \in Threads : ~Busy(th)
      BY DEF Init, Busy, Idle
    <2>2. OpenRequests = {}
      BY <2>1 DEF OpenRequests
    <2>3. Vessels = [i \in {} |-> None]
      BY <2>1 DEF Vessels
    <2> QED
      BY <2>2, <2>3 DEF Init, Registry!Init
  <1> QED
    BY <1>1, StepRefines, Invariant, PTL DEF Spec, ImplementsRegistry, Registry!Spec

-----------------------------------------------------------------------------
(* Events and the fate of their requests.                                  *)

OpenFor(e) == \E th \in Threads : Busy(th) /\ txn[th].request = e.request /\ txn[th].id = e.vessel

(* The request of e was rolled back: in a fault, or as a registration,     *)
(* whose id nobody has or will have.                                       *)
Vain(e) ==
  /\ response[e.request] = "error"
  /\ \/ faults > 0
     \/ e.vessel \notin DOMAIN rows /\ \A th \in Threads : Busy(th) => txn[th].id # e.vessel

Accounted(e) ==
  /\ e.request <= requests /\ e.vessel \in usedIds
  /\ e.request \in committed \/ OpenFor(e) \/ Vain(e)

InvAccounted == \A e \in events \cup unconfirmed : Accounted(e)

(* InvAccounted is inductive. *)
LEMMA AccountedNext == IInv /\ InvAccounted /\ [Next]_vars => InvAccounted'
  <1> SUFFICES ASSUME IInv, InvAccounted, [Next]_vars PROVE InvAccounted'
    OBVIOUS
  <1>a. /\ requests \in Nat /\ faults \in Nat
        /\ response \in [Requests -> {"none", "ok", "notfound", "conflict", "error"}]
        /\ events \subseteq Event /\ unconfirmed \subseteq Event
        /\ txn \in [Threads -> Txn \cup {Idle}]
    BY BoundAssumption DEF IInv, TypeOK
  <1>b. \A e \in events \cup unconfirmed : e.request \in Requests /\ e.request \in Nat
    BY <1>a DEF Event, Requests
  <1>c. \A th \in Threads : Busy(th) =>
          /\ txn[th].request \in Requests /\ txn[th].request \in Nat /\ txn[th].request <= requests
          /\ response[txn[th].request] = "none" /\ txn[th].id \in usedIds
    <2>1. \A th \in Threads : Busy(th) => txn[th].request \in Requests
      BY TxnFacts DEF IInv
    <2>2. \A th \in Threads : Busy(th) => txn[th].id \in usedIds
      BY DEF IInv, InvIds
    <2> QED
      BY <2>1, <2>2 DEF IInv, InvRequests, Requests
  (* A request is accepted. *)
  <1>1. ASSUME NEW th \in Threads, Accept(th),
               UNCHANGED <<rows, committed, events, unconfirmed, faults>>,
               usedIds \subseteq usedIds',
               \A n \in Requests : n # NextRequest => response'[n] = response[n],
               \A u \in Threads \ {th} : txn'[u] = txn[u],
               Busy(th)' => txn'[th].id \in DOMAIN rows \/ txn'[th].id \notin usedIds
        PROVE  InvAccounted'
    <2>1. requests' = requests + 1 /\ NextRequest = requests + 1 /\ ~Busy(th)
      BY <1>1 DEF Accept, NextRequest
    <2>2. \A u \in Threads \ {th} : Busy(u)' <=> Busy(u)
      BY <1>1 DEF Busy
    <2>3. ASSUME NEW e \in events \cup unconfirmed PROVE Accounted(e)'
      <3>1. Accounted(e)
        BY DEF InvAccounted
      <3>2. /\ e.request <= requests' /\ response'[e.request] = response[e.request]
            /\ e.vessel \in usedIds'
        BY <1>1, <1>a, <1>b, <2>1, <3>1 DEF Accounted
      <3>3. OpenFor(e) => OpenFor(e)'
        BY <1>1, <2>1, <2>2 DEF OpenFor
      <3>4. Vain(e) => Vain(e)'
        BY <1>1, <2>2, <3>1, <3>2 DEF Vain, Accounted
      <3> QED
        BY <1>1, <3>1, <3>2, <3>3, <3>4 DEF Accounted
    <2> QED
      BY <1>1, <2>3 DEF InvAccounted
  <1>2. ASSUME NEW th \in Threads, NEW imo \in Imos, NEW b \in BerthValue, register(th, imo, b)
        PROVE  InvAccounted'
    <2>1. /\ Accept(th) /\ UNCHANGED <<rows, committed, events, unconfirmed, faults>>
          /\ usedIds \subseteq usedIds'
          /\ \A n \in Requests : n # NextRequest => response'[n] = response[n]
          /\ \A u \in Threads \ {th} : txn'[u] = txn[u]
      BY <1>2, <1>a DEF register
    <2>2. Busy(th)' => txn'[th].id \notin usedIds
      BY <1>2, <1>a DEF register, Busy, Accept
    <2> QED
      BY <1>1, <2>1, <2>2
  <1>3. ASSUME NEW th \in Threads, NEW i \in Ids, NEW op, NEW changed, Modify(th, op, i, changed)
        PROVE  InvAccounted'
    <2>1. /\ Accept(th) /\ UNCHANGED <<rows, committed, events, unconfirmed, usedIds, faults>>
          /\ \A n \in Requests : n # NextRequest => response'[n] = response[n]
          /\ \A u \in Threads \ {th} : txn'[u] = txn[u]
      BY <1>3, <1>a DEF Modify
    <2>2. Busy(th)' => txn'[th].id \in DOMAIN rows
      BY <1>3, <1>a DEF Modify, Busy, Accept
    <2> QED
      BY <1>1, <2>1, <2>2
  <1>4. ASSUME NEW th \in Threads, publish(th) PROVE InvAccounted'
    <2>1. /\ Busy(th) /\ UNCHANGED <<rows, requests, response, committed, usedIds>>
          /\ txn' = [txn EXCEPT ![th].step = "commit"]
      BY <1>4 DEF publish, Busy
    <2>2. \A u \in Threads : /\ Busy(u) => Busy(u)' /\ txn'[u].request = txn[u].request
                                              /\ txn'[u].id = txn[u].id
                             /\ Busy(u)' => Busy(u)
      <3>1. txn[th] \in Txn
        BY <2>1, TxnFacts DEF IInv
      <3>2. /\ txn'[th].step = "commit" /\ txn'[th].request = txn[th].request
            /\ txn'[th].id = txn[th].id /\ \A u \in Threads \ {th} : txn'[u] = txn[u]
        BY <1>a, <2>1, <3>1 DEF Txn
      <3> QED
        BY <2>1, <3>2 DEF Busy
    <2>3. /\ faults' = faults \/ faults' = faults + 1
          /\ events' \cup unconfirmed' \subseteq events \cup unconfirmed \cup {EventOf(txn[th])}
      BY <1>4 DEF publish, Fault
    <2>4. ASSUME NEW e \in events \cup unconfirmed PROVE Accounted(e)'
      <3>1. Accounted(e)
        BY DEF InvAccounted
      <3>2. (OpenFor(e) => OpenFor(e)') /\ (Vain(e) => Vain(e)')
        BY <1>a, <2>1, <2>2, <2>3 DEF OpenFor, Vain
      <3> QED
        BY <2>1, <3>1, <3>2 DEF Accounted
    <2>5. ASSUME NEW e, e = EventOf(txn[th]) PROVE Accounted(e)'
      <3>1. e.request = txn[th].request /\ e.vessel = txn[th].id
        BY <2>5 DEF EventOf
      <3> QED
        BY <1>c, <2>1, <2>2, <3>1 DEF Accounted, OpenFor
    <2> QED
      BY <2>3, <2>4, <2>5 DEF InvAccounted
  (* A transaction ends. *)
  <1>5. ASSUME NEW th \in Threads, Busy(th), NEW a, Answer(th, a),
               UNCHANGED <<requests, events, unconfirmed, usedIds>>,
               committed \subseteq committed', faults' = faults \/ faults' = faults + 1,
               DOMAIN rows' \subseteq DOMAIN rows \cup {txn[th].id},
               \/ txn[th].request \in committed'
               \/ a = "error" /\ (faults' > 0 \/ (rows' = rows /\ txn[th].op = "register"))
        PROVE  InvAccounted'
    <2>1. /\ ~Busy(th)' /\ \A u \in Threads \ {th} : txn'[u] = txn[u] /\ (Busy(u)' <=> Busy(u))
          /\ response'[txn[th].request] = a
          /\ \A n \in Requests : n # txn[th].request => response'[n] = response[n]
      BY <1>5, <1>a, <1>c DEF Answer, Busy, Idle
    <2>2. ASSUME NEW e \in events \cup unconfirmed PROVE Accounted(e)'
      <3>1. Accounted(e)
        BY DEF InvAccounted
      <3>2. CASE e.request \in committed
        BY <1>5, <3>1, <3>2 DEF Accounted
      <3>3. CASE Vain(e)
        <4>1. e.request # txn[th].request
          BY <1>5, <1>c, <3>3 DEF Vain
        <4>2. Vain(e)'
          BY <1>5, <1>a, <1>b, <2>1, <3>3, <4>1 DEF Vain
        <4> QED
          BY <1>5, <3>1, <4>2 DEF Accounted
      <3>4. CASE OpenFor(e)
        <4>1. PICK u \in Threads : Busy(u) /\ txn[u].request = e.request /\ txn[u].id = e.vessel
          BY <3>4 DEF OpenFor
        <4>2. CASE u # th
          BY <1>5, <2>1, <3>1, <4>1, <4>2 DEF Accounted, OpenFor
        <4>3. CASE u = th /\ e.request \notin committed'
          <5>1. txn[th].op = "register" =>
                  /\ e.vessel \notin DOMAIN rows
                  /\ \A w \in Threads : Busy(w) /\ txn[w].id = e.vessel => w = th
            BY <1>5, <4>1, <4>3 DEF IInv, InvIds
          <5>2. Vain(e)'
            BY <1>5, <2>1, <4>1, <4>3, <5>1 DEF Vain
          <5> QED
            BY <1>5, <3>1, <5>2 DEF Accounted
        <4> QED
          BY <1>5, <3>1, <4>2, <4>3 DEF Accounted
      <3> QED
        BY <3>1, <3>2, <3>3, <3>4 DEF Accounted
    <2> QED
      BY <1>5, <2>2 DEF InvAccounted
  <1>6. ASSUME NEW th \in Threads, publishThrows(th) PROVE InvAccounted'
    <2>1. /\ Busy(th) /\ Answer(th, "error") /\ faults' = faults + 1
          /\ UNCHANGED <<rows, requests, committed, events, unconfirmed, usedIds>>
      BY <1>6 DEF publishThrows, Fault, Busy
    <2> QED
      BY <1>5, <1>a, <2>1
  <1>7. ASSUME NEW th \in Threads, Commit(th) \/ CommitFails(th) PROVE InvAccounted'
    <2>1. Busy(th) /\ UNCHANGED <<requests, events, unconfirmed, usedIds>>
      BY <1>7 DEF Commit, CommitFails, Busy
    <2>2. DOMAIN Written(txn[th]) \subseteq DOMAIN rows \cup {txn[th].id}
      BY DEF Written
    <2>3. CASE Commit(th)
      <3>1. /\ Answer(th, "ok") /\ committed' = committed \cup {txn[th].request}
            /\ rows' = Written(txn[th]) /\ UNCHANGED faults
        BY <2>3 DEF Commit
      <3> QED
        BY <1>5, <2>1, <2>2, <3>1
    <2>4. CASE CommitFails(th)
      <3>1. /\ Answer(th, "error")
            /\ \/ txn[th].op = "register" /\ UNCHANGED <<rows, committed, faults>>
               \/ faults' = faults + 1 /\ UNCHANGED <<rows, committed>>
               \/ /\ faults' = faults + 1 /\ rows' = Written(txn[th])
                  /\ committed' = committed \cup {txn[th].request}
        BY <2>4 DEF CommitFails, Fault, Allowed
      <3> QED
        BY <1>5, <1>a, <2>1, <2>2, <3>1
    <2> QED
      BY <1>7, <2>3, <2>4
  <1>8. ASSUME Crash PROVE InvAccounted'
    <2>1. /\ UNCHANGED <<rows, requests, committed, events, unconfirmed, usedIds>>
          /\ faults' = faults + 1
          /\ response' = [n \in Requests |->
               IF \E th \in Threads : Busy(th) /\ txn[th].request = n THEN "error" ELSE response[n]]
      BY <1>8 DEF Crash, Fault
    <2>2. ASSUME NEW e \in events \cup unconfirmed PROVE Accounted(e)'
      <3>1. Accounted(e)
        BY DEF InvAccounted
      <3>2. OpenFor(e) \/ Vain(e) => Vain(e)'
        BY <1>a, <1>b, <2>1 DEF OpenFor, Vain
      <3> QED
        BY <2>1, <3>1, <3>2 DEF Accounted
    <2> QED
      BY <2>1, <2>2 DEF InvAccounted
  <1>9. CASE UNCHANGED vars
    BY <1>9 DEF vars, InvAccounted, Accounted, OpenFor, Vain, Busy
  <1> QED
    BY <1>2, <1>3, <1>4, <1>6, <1>7, <1>8, <1>9
       DEF Next, updateStatus, reserveBerth, releaseBerth

(* Whoever announced a change in vain was answered with an error, and      *)
(* without a fault it was a registration that lost the race for its IMO    *)
(* number, for any number of requests, threads and vessels.                *)
THEOREM AnnouncedAccounted == Spec => []AnnouncedOrRefused
  <1>1. Init => InvAccounted
    BY DEF Init, InvAccounted
  <1>2. InvAccounted => AnnouncedOrRefused
    BY DEF InvAccounted, Accounted, OpenFor, Vain, AnnouncedOrRefused
  <1> QED
    BY <1>1, <1>2, IInvInit, IInvNext, AccountedNext, PTL DEF Spec
=============================================================================

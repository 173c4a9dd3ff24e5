----------------------------- MODULE VesselService -----------------------------
(***************************************************************************)
(* The Vessel Service at the level of its database transactions.  Every    *)
(* write request (VesselController) runs in a transaction of its own that  *)
(* reads, publishes the lifecycle event and commits, in this order; the    *)
(* INSERT or UPDATE of the whole row is flushed with the commit, under     *)
(* READ COMMITTED and without a version column.  Requests that fail        *)
(* validation change nothing and are left out.                             *)
(***************************************************************************)
EXTENDS VesselOps, Naturals

CONSTANTS
  Ids,          \* vessel UUIDs
  Imos,         \* IMO numbers
  Threads,      \* HTTP worker threads
  MaxRequests,  \* bound on requests; a request is its transaction's number
  MaxFaults     \* bound on broker and database failures and crashes

ASSUME NoneAssumption == None \notin Ids \cup Berths
ASSUME BoundAssumption == MaxRequests \in Nat /\ MaxFaults \in Nat

VARIABLES
  rows,         \* committed rows of the vessels table, by id
  txn,          \* the transaction each thread is in
  requests,     \* number of requests begun
  response,     \* the answer to each request
  committed,    \* requests whose transaction committed
  events,       \* lifecycle events that reached the broker
  unconfirmed,  \* lifecycle events sent into a dead connection
  usedIds,      \* UUIDs generated so far
  faults

vars == <<rows, txn, requests, response, committed, events, unconfirmed, usedIds, faults>>

Requests == 1..MaxRequests

(* writer is a history field: the request that wrote the row last. *)
Row == [imo : Imos, status : VesselStatus, berth : BerthValue, writer : Requests]

Event == [request : Requests, vessel : Ids, key : {"vessel.arrived", "vessel.docked", "vessel.departed"},
          status : VesselStatus, berth : BerthValue]

(* entity is the managed Vessel; dirty, that it differs from what was read. *)
Txn == [step : {"publish", "commit"}, op : {"register", "update", "reserve", "release"},
        request : Requests, id : Ids, entity : Row, dirty : BOOLEAN]

Idle == [step |-> "idle"]

Busy(th) == txn[th].step # "idle"

Init ==
  /\ rows = [i \in {} |-> None]
  /\ txn = [th \in Threads |-> Idle]
  /\ requests = 0
  /\ response = [n \in Requests |-> "none"]
  /\ committed = {}
  /\ events = {} /\ unconfirmed = {}
  /\ usedIds = {}
  /\ faults = 0

Fault == faults < MaxFaults /\ faults' = faults + 1

NextRequest == requests + 1

(* A request arrives on an idle thread. *)
Accept(th) ==
  /\ ~Busy(th)
  /\ requests < MaxRequests
  /\ requests' = NextRequest

(* The answer to the request of the transaction that ends. *)
Answer(th, answer) ==
  /\ response' = [response EXCEPT ![txn[th].request] = answer]
  /\ txn' = [txn EXCEPT ![th] = Idle]

Taken(imo) == \E i \in DOMAIN rows : rows[i].imo = imo

-----------------------------------------------------------------------------
(* The read phase of each operation.                                       *)

register(th, imo, b) ==
  /\ Accept(th)
  /\ \/ /\ Taken(imo)                                       \* 409
        /\ response' = [response EXCEPT ![NextRequest] = "conflict"]
        /\ UNCHANGED <<txn, usedIds>>
     \/ /\ ~Taken(imo)
        /\ \E i \in Ids \ usedIds :
             /\ usedIds' = usedIds \cup {i}
             /\ txn' = [txn EXCEPT ![th] =
                  [step |-> "publish", op |-> "register", request |-> NextRequest, id |-> i,
                   entity |-> [imo |-> imo, status |-> "ARRIVING", berth |-> b,
                               writer |-> NextRequest],
                   dirty |-> TRUE]]
        /\ UNCHANGED response
  /\ UNCHANGED <<rows, committed, events, unconfirmed, faults>>

(* findById; changed is the row found, as the operation leaves it. *)
Modify(th, op, i, changed) ==
  /\ Accept(th)
  /\ \/ /\ i \notin DOMAIN rows                             \* 404
        /\ response' = [response EXCEPT ![NextRequest] = "notfound"]
        /\ UNCHANGED txn
     \/ /\ i \in DOMAIN rows
        /\ txn' = [txn EXCEPT ![th] =
             [step |-> "publish", op |-> op, request |-> NextRequest, id |-> i,
              entity |-> [changed EXCEPT !.writer = NextRequest],
              dirty |-> changed # rows[i]]]
        /\ UNCHANGED response
  /\ UNCHANGED <<rows, committed, events, unconfirmed, usedIds, faults>>

Keep == "keep"   \* the request's berth is null; a blank one clears the berth

updateStatus(th, i, s, b) ==
  Modify(th, "update", i, Updated(rows[i], s, IF b = Keep THEN rows[i].berth ELSE b))

reserveBerth(th, i, b) == Modify(th, "reserve", i, Reserved(rows[i], b))

releaseBerth(th, i) == Modify(th, "release", i, Released(rows[i]))

-----------------------------------------------------------------------------
(* VesselLifecycleProducer.publish, inside the transaction.                *)

EventOf(t) == [request |-> t.request, vessel |-> t.id, key |-> RoutingKeyFor(t.entity.status),
               status |-> t.entity.status, berth |-> t.entity.berth]

publish(th) ==
  LET t == txn[th] IN
  /\ t.step = "publish"
  /\ txn' = [txn EXCEPT ![th].step = "commit"]
  /\ IF RoutingKeyFor(t.entity.status) = NoKey
     THEN UNCHANGED <<events, unconfirmed, faults>>
     ELSE \/ events' = events \cup {EventOf(t)} /\ UNCHANGED <<unconfirmed, faults>>
          \/ Fault /\ unconfirmed' = unconfirmed \cup {EventOf(t)} /\ UNCHANGED events
  /\ UNCHANGED <<rows, requests, response, committed, usedIds>>

(* Mutant: the exception is caught and the transaction commits. *)
publishThrowsIsIgnored(th) ==
  /\ txn[th].step = "publish"
  /\ RoutingKeyFor(txn[th].entity.status) # NoKey
  /\ Fault
  /\ txn' = [txn EXCEPT ![th].step = "commit"]
  /\ UNCHANGED <<rows, requests, response, committed, events, unconfirmed, usedIds>>

(* convertAndSend throws: the transaction rolls back, 500. *)
publishThrows(th) ==
  /\ txn[th].step = "publish"
  /\ RoutingKeyFor(txn[th].entity.status) # NoKey
  /\ Fault
  /\ Answer(th, "error")
  /\ UNCHANGED <<rows, requests, committed, events, unconfirmed, usedIds>>

-----------------------------------------------------------------------------
(* The flush and the commit.                                               *)

(* Mutant: the migration leaves out UNIQUE on imo_number. *)
AllowedUnchecked(t) == TRUE

(* Mutant: a version column makes the commit of a stale entity fail. *)
AllowedVersioned(t) ==
  IF t.op = "register" THEN ~Taken(t.entity.imo) ELSE rows[t.id].writer < t.request

(* The constraint on imo_number. *)
Allowed(t) == t.op = "register" => ~Taken(t.entity.imo)

(* Mutant: of two overlapping updates the second is dropped in silence. *)
WrittenFirstWins(t) ==
  IF t.id \in DOMAIN rows /\ rows[t.id].writer > t.request THEN rows
  ELSE [i \in DOMAIN rows \cup {t.id} |-> IF i = t.id THEN t.entity ELSE rows[i]]

(* Hibernate updates every column, unless the entity is as it was read. *)
Written(t) ==
  IF t.dirty THEN [i \in DOMAIN rows \cup {t.id} |-> IF i = t.id THEN t.entity ELSE rows[i]]
  ELSE rows

Commit(th) ==
  LET t == txn[th] IN
  /\ t.step = "commit"
  /\ Allowed(t)
  /\ rows' = Written(t)
  /\ committed' = committed \cup {t.request}
  /\ Answer(th, "ok")
  /\ UNCHANGED <<requests, events, unconfirmed, usedIds, faults>>

(* The constraint is violated, or the database fails before or after the   *)
(* commit took effect: 500 in each case.                                   *)
CommitFails(th) ==
  LET t == txn[th] IN
  /\ t.step = "commit"
  /\ \/ ~Allowed(t) /\ UNCHANGED <<rows, committed, faults>>
     \/ Fault /\ UNCHANGED <<rows, committed>>
     \/ Fault /\ Allowed(t) /\ rows' = Written(t) /\ committed' = committed \cup {t.request}
  /\ Answer(th, "error")
  /\ UNCHANGED <<requests, events, unconfirmed, usedIds>>

(* The process dies with all its transactions. *)
Crash ==
  /\ \E th \in Threads : Busy(th)
  /\ Fault
  /\ response' = [n \in Requests |->
       IF \E th \in Threads : Busy(th) /\ txn[th].request = n THEN "error" ELSE response[n]]
  /\ txn' = [th \in Threads |-> Idle]
  /\ UNCHANGED <<rows, requests, committed, events, unconfirmed, usedIds>>

-----------------------------------------------------------------------------
Next ==
  \/ \E th \in Threads :
       \/ \E imo \in Imos, b \in BerthValue : register(th, imo, b)
       \/ \E i \in Ids :
            \/ \E s \in VesselStatus, b \in BerthValue \cup {Keep} : updateStatus(th, i, s, b)
            \/ \E b \in Berths : reserveBerth(th, i, b)
            \/ releaseBerth(th, i)
       \/ publish(th) \/ publishThrows(th) \/ Commit(th) \/ CommitFails(th)
  \/ Crash

Spec == Init /\ [][Next]_vars

-----------------------------------------------------------------------------
(* Properties.                                                             *)

(* Every variable keeps its type. *)
TypeOK ==
  /\ DOMAIN rows \subseteq Ids /\ rows \in [DOMAIN rows -> Row]
  /\ txn \in [Threads -> Txn \cup {Idle}]
  /\ requests \in 0..MaxRequests
  /\ response \in [Requests -> {"none", "ok", "notfound", "conflict", "error"}]
  /\ committed \subseteq Requests
  /\ events \subseteq Event /\ unconfirmed \subseteq Event
  /\ usedIds \subseteq Ids
  /\ faults \in 0..MaxFaults

(* No IMO number is registered twice, although register checks for it in   *)
(* one step and inserts in a later one.                                    *)
UniqueImo == \A i, j \in DOMAIN rows : rows[i].imo = rows[j].imo => i = j

(* No committed change of a vessel goes unannounced: the event of the      *)
(* request that wrote a row last was sent, with the row's status and berth *)
(* (VesselService calls lifecycleProducer.publish before it commits).      *)
AnnouncedState ==
  \A i \in DOMAIN rows :
    RoutingKeyFor(rows[i].status) # NoKey =>
      \E e \in events \cup unconfirmed :
        /\ e.request = rows[i].writer /\ e.vessel = i
        /\ e.status = rows[i].status /\ e.berth = rows[i].berth

(* The other direction fails, since the event leaves before the commit;    *)
(* but who announced in vain was answered with an error, and without a     *)
(* fault it was a registration that lost the race for its IMO number:      *)
(* consumers never hear of a change to a registered vessel that was rolled *)
(* back, however requests overlap (VesselService.register, the others).    *)
AnnouncedOrRefused ==
  \A e \in events \cup unconfirmed :
    \/ e.request \in committed
    \/ \E th \in Threads : Busy(th) /\ txn[th].request = e.request
    \/ response[e.request] = "error" /\ (faults > 0 \/ e.vessel \notin DOMAIN rows)

(* The registry as the clients see it: committed rows, and the requests    *)
(* whose transactions are open.                                            *)
VesselOf(row) == [imo |-> row.imo, status |-> row.status, berth |-> row.berth]

RequestOf(t) == [request |-> t.request, op |-> t.op, id |-> t.id, goal |-> VesselOf(t.entity),
                 effective |-> ~t.dirty]

Vessels == [i \in DOMAIN rows |-> VesselOf(rows[i])]

OpenRequests == {RequestOf(txn[th]) : th \in {u \in Threads : Busy(u)}}

Registry == INSTANCE VesselRegistry WITH
  vessels <- Vessels, pending <- OpenRequests, answer <- response

(* The transactions implement the registry: whatever interleaves, fails or *)
(* is rolled back, each request takes effect at most once and at one       *)
(* moment, although it writes back a whole row it read earlier, and "ok"   *)
(* is answered only to a request that did.                                 *)
ImplementsRegistry == Registry!Spec
=============================================================================

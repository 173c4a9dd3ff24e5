---------------------------- MODULE VesselRegistry ----------------------------
(***************************************************************************)
(* What the Vessel Service promises its HTTP clients: a registry whose     *)
(* write requests take effect one at a time, each at most once and at one  *)
(* moment between its arrival and its answer.  "ok" means that the request *)
(* took effect, "error" leaves it open.  An update that names no berth     *)
(* writes the berth the vessel had when the request arrived.               *)
(*                                                                         *)
(* VesselService implements this specification; TaskAssignment relies on   *)
(* it where it takes a call of the Vessel Service as one step.             *)
(***************************************************************************)
EXTENDS VesselOps, Naturals

CONSTANTS
  Ids,      \* vessel UUIDs
  Imos,     \* IMO numbers
  Requests  \* the write requests

VARIABLES
  vessels,  \* the registered vessels, by id
  pending,  \* the requests being worked on: what the vessel shall be (goal), and
            \* whether it was so when the request arrived (effective)
  answer    \* the answer to each request

vars == <<vessels, pending, answer>>

Unanswered(n) == answer[n] = "none" /\ \A q \in pending : q.request # n

Registered(imo) == \E i \in DOMAIN vessels : vessels[i].imo = imo

(* The vessel as the request makes it. *)
Effect(q) ==
  CASE q.op = "register" -> q.goal
    [] q.op = "update"   -> Updated(vessels[q.id], q.goal.status, q.goal.berth)
    [] q.op = "reserve"  -> Reserved(vessels[q.id], q.goal.berth)
    [] q.op = "release"  -> Released(vessels[q.id])

Applied(q) ==
  [i \in DOMAIN vessels \cup {q.id} |-> IF i = q.id THEN Effect(q) ELSE vessels[i]]

Possible(q) ==
  IF q.op = "register"
  THEN ~Registered(q.goal.imo) /\ q.id \notin DOMAIN vessels
  ELSE q.id \in DOMAIN vessels

-----------------------------------------------------------------------------
Init ==
  /\ vessels = [i \in {} |-> None]
  /\ pending = {}
  /\ answer = [n \in Requests |-> "none"]

(* A request arrives, to make the vessel what goal says. *)
Submit(n, op, i, goal) ==
  LET q == [request |-> n, op |-> op, id |-> i, goal |-> goal,
            effective |-> i \in DOMAIN vessels /\ goal = vessels[i]] IN
  /\ Unanswered(n)
  /\ Possible(q)
  /\ pending' = pending \cup {q}
  /\ UNCHANGED <<vessels, answer>>

Refuse(n, a) ==
  /\ Unanswered(n)
  /\ \/ a = "conflict" /\ \E imo \in Imos : Registered(imo)
     \/ a = "notfound" /\ DOMAIN vessels # Ids
  /\ answer' = [answer EXCEPT ![n] = a]
  /\ UNCHANGED <<vessels, pending>>

Succeed(q) ==
  /\ q \in pending
  /\ \/ q.effective /\ UNCHANGED vessels
     \/ ~q.effective /\ Possible(q) /\ vessels' = Applied(q)
  /\ pending' = pending \ {q}
  /\ answer' = [answer EXCEPT ![q.request] = "ok"]

(* The caller does not learn whether the request took effect. *)
Fail(q) ==
  /\ q \in pending
  /\ \/ UNCHANGED vessels
     \/ ~q.effective /\ Possible(q) /\ vessels' = Applied(q)
  /\ pending' = pending \ {q}
  /\ answer' = [answer EXCEPT ![q.request] = "error"]

FailAll ==
  /\ pending # {}
  /\ pending' = {}
  /\ answer' = [n \in Requests |-> IF Unanswered(n) THEN "none"
                                   ELSE IF answer[n] = "none" THEN "error" ELSE answer[n]]
  /\ UNCHANGED vessels

Next ==
  \/ \E n \in Requests :
       \/ \E i \in Ids, imo \in Imos, b \in BerthValue :
            Submit(n, "register", i, [imo |-> imo, status |-> "ARRIVING", berth |-> b])
       \/ \E i \in DOMAIN vessels :
            \/ \E s \in VesselStatus, b \in BerthValue :
                 Submit(n, "update", i, Updated(vessels[i], s, b))
            \/ \E b \in Berths : Submit(n, "reserve", i, Reserved(vessels[i], b))
            \/ Submit(n, "release", i, Released(vessels[i]))
  \/ \E n \in Requests, a \in {"conflict", "notfound"} : Refuse(n, a)
  \/ \E q \in pending : Succeed(q) \/ Fail(q)
  \/ FailAll

Spec == Init /\ [][Next]_vars
=============================================================================

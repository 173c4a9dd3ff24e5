--------------------------- MODULE MCTaskAssignment ---------------------------
(***************************************************************************)
(* Instances of TaskAssignment for TLC.  The alert messages carry the      *)
(* events that take different paths through handleAlert.                   *)
(***************************************************************************)
EXTENDS TaskAssignment, TLC

CONSTANTS a1, a2, a3, b1, b2, v1, v2, t1, t2, t3, t4, c1, c2

GoodAlert == [alertType |-> "IMMEDIATE_ACTION", severity |-> "HIGH", sector |-> "fits"]
SecondAlert == [alertType |-> "SECTOR_WARNING", severity |-> "other", sector |-> "fits"]
LongAlert == [alertType |-> "SECTOR_CRITICAL", severity |-> "HIGH", sector |-> "long"]
BlankAlert == [alertType |-> "blank", severity |-> "LOW", sector |-> "fits"]

OneGood == a1 :> GoodAlert
TwoGood == a1 :> GoodAlert @@ a2 :> SecondAlert
GoodLongBlank == a1 :> GoodAlert @@ a2 :> LongAlert @@ a3 :> BlankAlert

(* The generated UUIDs are interchangeable. *)
TaskSymmetry == Permutations(TaskIds)

(* So are the replicas, the vessels and the berths. *)
ContentionSymmetry ==
  Permutations(TaskIds) \cup Permutations(Consumers) \cup Permutations(Vessels) \cup Permutations(Berths)
=============================================================================

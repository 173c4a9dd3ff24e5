------------------------ MODULE MCNotificationService ------------------------
(***************************************************************************)
(* Instances of NotificationService for TLC: a classic queue only this     *)
(* service declares, a quorum queue the producer declares too, and the     *)
(* dead-letter queue.                                                      *)
(***************************************************************************)
EXTENDS NotificationService

ThreeQueues == <<"congestion.alert.notification", "task.created", "dlq.errors">>
DeclaredByOthers == {"task.created", "dlq.errors"}
OneQuorum == [q \in Queues |-> IF q = "task.created" THEN "quorum" ELSE "classic"]
AllClassic == [q \in Queues |-> "classic"]
OneQueue == [m \in Messages |-> "task.created"]
TwoQueues == [m \in Messages |-> IF m < 3 THEN "congestion.alert.notification" ELSE "task.created"]
=============================================================================

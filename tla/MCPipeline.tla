------------------------------ MODULE MCPipeline ------------------------------
(* Small instances of Pipeline for TLC. *)
EXTENDS Pipeline, TLC

CONSTANTS r1, d1, b1, t1, t2, t3

Payload(sector, count, time) ==
  [json |-> TRUE, droneId |-> d1, sector |-> sector, containerCount |-> count,
   capacity |-> 100, blockageDetected |-> FALSE, vesselEta |-> FALSE, timestamp |-> time]

OneAlarm == r1 :> Payload("fits", 94, 1)
=============================================================================

-------------------------- MODULE MCTelemetryService --------------------------
(* Small instances of TelemetryService for TLC. *)
EXTENDS TelemetryService, TLC

CONSTANTS r1, r2, r3, d1, d2

Payload(d, count, cap, time) ==
  [json |-> TRUE, droneId |-> d, sector |-> "fits", containerCount |-> count,
   capacity |-> cap, blockageDetected |-> FALSE, vesselEta |-> FALSE, timestamp |-> time]

(* Two measurements of one drone and one of a sector without capacity. *)
TwoOfOneDrone ==
  (r1 :> Payload(d1, 90, 100, 1)) @@ (r2 :> Payload(d1, 100, 100, 2))
    @@ (r3 :> Payload(d2, 0, 0, 1))
=============================================================================

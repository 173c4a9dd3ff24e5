------------------------- MODULE MCCongestionAnalysis -------------------------
(* Small instances of CongestionAnalysis for TLC. *)
EXTENDS CongestionAnalysis, TLC

CONSTANTS e1, e2, e3, e4, e5

Event(count, blocked, eta) ==
  [containerCount |-> count, capacity |-> 100, blockageDetected |-> blocked,
   vesselEta |-> eta]

(* Both sides of both thresholds, with and without the blockage rule. *)
Edges == (e1 :> Event(85, TRUE, FALSE)) @@ (e2 :> Event(90, TRUE, FALSE))
           @@ (e3 :> Event(91, TRUE, FALSE)) @@ (e4 :> Event(85, TRUE, TRUE))
           @@ (e5 :> Event(86, TRUE, TRUE))
=============================================================================

--------------------------- MODULE MCAmqpConnection ---------------------------
(* Two ingest requests that publish on one connection.                     *)
EXTENDS AmqpConnection

CONSTANTS p1, p2

TwoPublishers == {p1, p2}
=============================================================================

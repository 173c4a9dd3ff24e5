------------------------------ MODULE VesselOps ------------------------------
(***************************************************************************)
(* What each write operation of the Vessel Service does to one row of the  *)
(* vessels table (VesselService.java), and which lifecycle event the row's *)
(* new status announces (VesselLifecycleProducer.java).  Used by the       *)
(* transaction-level module VesselService and by TaskAssignment, which     *)
(* calls these operations over HTTP.                                       *)
(***************************************************************************)

CONSTANTS
  Berths,   \* berth names with text in them
  None      \* Java's null; for a berth also the blank string

VesselStatus == {"ARRIVING", "BERTHED", "DOCKED", "DEPARTING", "DEPARTED"}

BerthValue == Berths \cup {None}

(* reserveBerth; the request's berth is @NotBlank, so b is in Berths. *)
Reserved(row, b) == [row EXCEPT !.status = "BERTHED", !.berth = b]

(* releaseBerth forgets the berth as well as the reservation. *)
Released(row) == [row EXCEPT !.status = "ARRIVING", !.berth = None]

(* updateStatus: any status may follow any other.  *)
Updated(row, s, b) == [row EXCEPT !.status = s, !.berth = b]

NoKey == "none"

RoutingKeyFor(s) ==
  CASE s = "ARRIVING" -> "vessel.arrived"
    [] s = "DOCKED"   -> "vessel.docked"
    [] s = "DEPARTED" -> "vessel.departed"
    [] OTHER          -> NoKey
=============================================================================

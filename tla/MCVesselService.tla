---------------------------- MODULE MCVesselService ----------------------------
(***************************************************************************)
(* Instances of VesselService for TLC.                                     *)
(***************************************************************************)
EXTENDS VesselService, TLC

CONSTANTS i1, i2, b1, m1

IdSymmetry == Permutations(Ids)
=============================================================================

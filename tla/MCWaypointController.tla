------------------------ MODULE MCWaypointController ------------------------
(***************************************************************************)
(* Instances of WaypointController for TLC.                                *)
(***************************************************************************)
EXTENDS WaypointController

CONSTANTS p1, p2

MCPoints == {p1, p2}
=============================================================================

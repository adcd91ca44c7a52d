---------------------------- MODULE MCCoordinator ----------------------------
(***************************************************************************)
(* Instances of Coordinator for TLC: two rovers, two points that are apart *)
(* (a point is always too close to itself).                                *)
(***************************************************************************)
EXTENDS Coordinator

CONSTANTS p1, p2

MCPoints == {p1, p2}
MCSame == {<<p, p>> : p \in MCPoints}
=============================================================================

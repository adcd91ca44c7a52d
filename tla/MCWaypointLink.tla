--------------------------- MODULE MCWaypointLink ---------------------------
(***************************************************************************)
(* Instances of WaypointLink for TLC.                                      *)
(***************************************************************************)
EXTENDS WaypointLink, TLC

CONSTANTS p1, p2

MCPoints == {p1, p2}
\* The two points are interchangeable.
MCSymmetry == Permutations(MCPoints)

MCSame == {<<p1, p1>>, <<p2, p2>>}
MCOneVersion == {[epoch |-> 0, rev |-> <<1, 1>>]}
MCReactiveVersions == {[epoch |-> 0, rev |-> <<1, 1>>], [epoch |-> 0, rev |-> <<1, 2>>]}
=============================================================================

--------------------------- MODULE MCRoverService ---------------------------
(* A small instance of RoverService for TLC. *)
EXTENDS RoverService

\* Two commits on the branch, and one beside the second.
MCCommits == {"c1", "c2", "side"}
MCAncestors == [c1 |-> {"c1"}, c2 |-> {"c1", "c2"}, side |-> {"c1", "side"}]

\* A built clone, a first clone, and one with a commit of the operator's.
MCClones == {<<"c1", "c1">>, <<"c1", "none">>, <<"side", "side">>}

\* A driven rover with its IMU, and one steered by hand.
MCModes == {<<FALSE, TRUE>>, <<TRUE, TRUE>>}
=============================================================================

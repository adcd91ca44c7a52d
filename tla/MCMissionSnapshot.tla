------------------------- MODULE MCMissionSnapshot -------------------------
EXTENDS MissionSnapshot, TLC

CONSTANTS r1, r2, t1, t2, t3

Symmetric == Permutations({r1, r2}) \cup Permutations({t1, t2, t3})
=============================================================================

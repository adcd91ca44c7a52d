---------------------------- MODULE MCDispatcher ----------------------------
(***************************************************************************)
(* Instances of Dispatcher for TLC: two rovers and three points on a line, *)
(* the middle one closer than minimum_separation_m to both ends.           *)
(***************************************************************************)
EXTENDS Dispatcher, TLC

CONSTANTS p1, p2, p3

MCPoints == {p1, p2, p3}

\* A point is always too close to itself.
MCTooClose ==
  {<<p, p>> : p \in MCPoints} \cup {<<p1, p2>>, <<p2, p1>>, <<p2, p3>>, <<p3, p2>>}

\* The repetition and deadband distances (0.05 m) are far below the separation.
MCSame == {<<p, p>> : p \in MCPoints}

\* Two results for one objective, as the reactive schedule numbers them, and one
\* for the next, as the others do.
MCVersions == {[epoch |-> 0, rev |-> <<1, 1>>], [epoch |-> 0, rev |-> <<1, 2>>],
               [epoch |-> 1, rev |-> <<2, 2>>]}

\* One result for each of two objectives.
MCStaticVersions == {[epoch |-> 0, rev |-> <<1, 1>>], [epoch |-> 1, rev |-> <<2, 2>>]}

\* The two ends are interchangeable.
MCSymmetry == Permutations({p1, p3})
=============================================================================

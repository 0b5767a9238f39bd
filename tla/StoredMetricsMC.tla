-------------------------- MODULE StoredMetricsMC --------------------------
(***************************************************************************)
(* The stored figures of two instructors over two weeks of two days each.  *)
(***************************************************************************)
EXTENDS StoredMetrics, TLC

\* Universities west of UTC, where the date may be the one before, and ahead of
\* it, where it may be the one after.
AnyZone == -1..1

\* One of them is on leave on the last date; or on the second, and the other has
\* left long ago.
OneAway ==
  {[leave |-> {<<i, LastDate>>}, gone |-> {}] : i \in Instructors}
    \cup {[leave |-> (Instructors \ {i}) \X {1}, gone |-> {i}] : i \in Instructors}

Same == Permutations(Instructors) \cup Permutations(Rollups)
=============================================================================

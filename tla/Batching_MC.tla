---------------------------- MODULE Batching_MC ----------------------------
EXTENDS Batching
batch(m, d, i) == [mode |-> m, distance |-> d, interval |-> i]
RoutineAndTrips ==
  (1 :> {batch("routine", 0, 0), batch("trip", 1, 2)}) @@ (2 :> {batch("trip", 3, 1)})
=============================================================================

-------------------------- MODULE MCRotationPoller --------------------------
(* Small instances of RotationPoller for TLC. *)
EXTENDS RotationPoller, TLC

CONSTANTS a1, a2, a3
ThreeRanks == a1 :> 1 @@ a2 :> 2 @@ a3 :> 3

\* Utilizations 0, 3 (beyond the gap of 0), 4 (exhausted), resets an edge
\* apart, and an account that is cooling.
SomeReadings ==
    { Reading({0}, {4}, "ok"), Reading({3}, {3}, "ok"), Reading({}, {1}, "soft"),
      Reading({4, 0}, {2}, "ok") }
=============================================================================

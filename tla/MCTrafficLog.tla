---------------------------- MODULE MCTrafficLog ----------------------------
(* A small instance of TrafficLog for TLC. *)
EXTENDS TrafficLog

OneHop == [e \in Request |-> 1]
=============================================================================

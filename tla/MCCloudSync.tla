---------------------------- MODULE MCCloudSync ----------------------------
(* A session of the project and two events of it at most.                          *)
EXTENDS CloudSync

CONSTANTS a, e1, e2

EventOfA == [e \in Events |-> a]
NoTurn == [e \in Events |-> "no-turn"]
=============================================================================
